------------------------- MODULE ShareHashingProofs -------------------------
(***************************************************************************)
(* Proofs about ShareHashing and the hasher it uses, for every set of      *)
(* files, of whatever sizes.                                               *)
(***************************************************************************)
EXTENDS ShareHashing, SequenceTheorems, TLAPS

-----------------------------------------------------------------------------
(* The invariant. *)

\* Jobs in the Fifo: of a method at most one, none, or only this one.
Unique(q) == \A i, j \in 1 .. Len(q) : q[i].method = q[j].method => i = j
None(q, m) == \A i \in 1 .. Len(q) : q[i].method # m
Only(q, m, job) == \A i \in 1 .. Len(q) : q[i].method = m => q[i] = job

\* The job a network waits for: the first chunk that has no digest.
DkJob == Job("MD4", dk_sh, Len(shared_list))
DcJob == Job("TIGER", dc_tiger_computing, DcChunk(dc_tiger_computing))

FifoInv ==
  /\ Unique(fifo) /\ Only(fifo, "MD4", DkJob) /\ Only(fifo, "TIGER", DcJob)
  /\ ~computing => None(fifo, "MD4") /\ ~Current("MD4")
  /\ dc_tiger_computing = Nothing => None(fifo, "TIGER") /\ ~Current("TIGER")
  /\ Current("MD4") => current_job = DkJob /\ None(fifo, "MD4")
  /\ Current("TIGER") => current_job = DcJob /\ None(fifo, "TIGER")

\* job_done is false only while the thread has something to do for the current
\* job, and the thread works only then.
HasherInv ==
  /\ main = "take" => current_job = Nothing
  /\ main = "mutex" => current_job # Nothing /\ job_args = current_job /\ job_done
  /\ ~job_done => current_job # Nothing /\ job_args = current_job
  /\ thread \in {"hashing", "compressing", "finishing"} => ~job_done
  /\ thread = "compressing" => job_args.method = "TIGER" /\ tiger_buffer \in {job_args, Downloaded}
  /\ thread = "finishing" => job_result \in AnswersTo(job_args)
  /\ current_job # Nothing /\ main # "mutex" /\ job_done => job_result \in AnswersTo(current_job)

DonkeyInv ==
  /\ computing => dk_sh \in Files /\ Len(shared_list) < NChunks(dk_sh)
  /\ ~computing => shared_list = <<>>
  /\ \A i \in 1 .. Len(shared_list) : shared_list[i] = Job("MD4", dk_sh, i - 1)
  /\ \A f \in Files : Hashed(f) =>
       shared_files_info[f] = [i \in 1 .. NChunks(f) |-> Job("MD4", f, i - 1)]

\* A list of files that Direct Connect has still to hash, each once.
Distinct(s) == \A i, j \in 1 .. Len(s) : s[i] = s[j] => i = j
Lacks(s, f) == \A i \in 1 .. Len(s) : s[i] # f
ToHash(s) ==
  /\ Distinct(s)
  /\ \A i \in 1 .. Len(s) : s[i] \in dc_by_fullname /\ DcChunk(s[i]) < NChunks(s[i])

DcInv ==
  /\ ToHash(dc_files_to_hash) /\ ToHash(dc_files)
  /\ dc_tiger_computing # Nothing =>
       /\ DcChunk(dc_tiger_computing) < NChunks(dc_tiger_computing)
       /\ dc_tiger_computing \in dc_by_fullname /\ Lacks(dc_files, dc_tiger_computing)
  /\ \A f \in Files : DcChunk(f) <= NChunks(f) /\ (f \notin dc_by_fullname => DcChunk(f) = 0)
  /\ \A f \in Files : \A i \in 1 .. DcChunk(f) :
       dc_shared_tiger_list[f][i] \in {Job("TIGER", f, i - 1), Downloaded}

ShareInv == TypeOK /\ FifoInv /\ HasherInv /\ DonkeyInv /\ DcInv

-----------------------------------------------------------------------------
(* Chunks, jobs and digests. *)

LEMMA NChunksType == \A f \in Files : NChunks(f) \in Nat /\ NChunks(f) > 0
<1> SUFFICES ASSUME NEW f \in Files PROVE NChunks(f) \in Nat /\ NChunks(f) > 0
  OBVIOUS
<1>1. \A a \in Nat : \A b \in Nat \ {0} : a \div b \in Nat
  OBVIOUS
<1> QED BY <1>1, HasherAssumption DEF NChunks

LEMMA JobFields ==
  ASSUME NEW m, NEW f, NEW c
  PROVE  Job(m, f, c).method = m /\ Job(m, f, c).file = f /\ Job(m, f, c).chunk = c
BY DEF Job

LEMMA JobType ==
  ASSUME NEW m \in {"MD4", "TIGER"}, NEW f \in Files, NEW c \in Nat, c < NChunks(f)
  PROVE  Job(m, f, c) \in Jobs
<1>1. c \in 0 .. NChunks(f) - 1
  BY NChunksType
<1> QED BY <1>1 DEF Jobs, Job

LEMMA JobsForm ==
  ASSUME NEW j \in Jobs
  PROVE  /\ j.method \in {"MD4", "TIGER"} /\ j.file \in Files
         /\ j # Nothing /\ j # Downloaded
         /\ AnswersTo(j) \subseteq Digests /\ Nothing \notin AnswersTo(j)
<1>1. PICK f \in Files : j \in [method : {"MD4", "TIGER"}, file : {f}, chunk : 0 .. NChunks(f) - 1]
  BY DEF Jobs
<1>2. j.method \in {"MD4", "TIGER"} /\ j.file \in Files
  BY <1>1
<1>3. Downloaded.file = Nothing
  BY JobFields DEF Downloaded
<1> QED BY <1>2, <1>3, NothingAssumption DEF AnswersTo, Digests

-----------------------------------------------------------------------------
(* Jobs in the Fifo. *)

LEMMA FifoAppend ==
  ASSUME NEW q \in Seq(Jobs), NEW x \in Jobs
  PROVE  /\ Append(q, x) \in Seq(Jobs)
         /\ Unique(q) /\ None(q, x.method) => Unique(Append(q, x))
         /\ \A m, j : Only(q, m, j) /\ (x.method = m => x = j) => Only(Append(q, x), m, j)
         /\ \A m : None(q, m) /\ x.method # m => None(Append(q, x), m)
<1>1. /\ Len(q) \in Nat /\ Len(Append(q, x)) = Len(q) + 1
      /\ \A i \in 1 .. Len(q) : Append(q, x)[i] = q[i]
      /\ Append(q, x)[Len(q) + 1] = x /\ Append(q, x) \in Seq(Jobs)
  BY AppendProperties, LenProperties
<1>2. Unique(q) /\ None(q, x.method) => Unique(Append(q, x))
  BY <1>1 DEF Unique, None
<1>3. \A m, j : Only(q, m, j) /\ (x.method = m => x = j) => Only(Append(q, x), m, j)
  BY <1>1 DEF Only
<1>4. \A m : None(q, m) /\ x.method # m => None(Append(q, x), m)
  BY <1>1 DEF None
<1> QED BY <1>1, <1>2, <1>3, <1>4

LEMMA FifoTail ==
  ASSUME NEW q \in Seq(Jobs), q # <<>>
  PROVE  /\ Head(q) \in Jobs /\ Tail(q) \in Seq(Jobs)
         /\ Unique(q) => Unique(Tail(q)) /\ None(Tail(q), Head(q).method)
         /\ \A m, j : Only(q, m, j) => Only(Tail(q), m, j) /\ (Head(q).method = m => Head(q) = j)
         /\ \A m : None(q, m) => None(Tail(q), m) /\ Head(q).method # m
<1>1. /\ Len(q) \in Nat /\ Len(q) > 0 /\ Head(q) \in Jobs /\ Tail(q) \in Seq(Jobs)
      /\ Len(Tail(q)) = Len(q) - 1
      /\ \A i \in 1 .. Len(Tail(q)) : Tail(q)[i] = q[i + 1]
      /\ Head(q) = q[1]
  BY HeadTailProperties, LenProperties, EmptySeq
<1>2. Unique(q) => Unique(Tail(q)) /\ None(Tail(q), Head(q).method)
  BY <1>1 DEF Unique, None
<1>3. \A m, j : Only(q, m, j) => Only(Tail(q), m, j) /\ (Head(q).method = m => Head(q) = j)
  BY <1>1 DEF Only
<1>4. \A m : None(q, m) => None(Tail(q), m) /\ Head(q).method # m
  BY <1>1 DEF None
<1> QED BY <1>1, <1>2, <1>3, <1>4

\* With none of a method, any job is the only one.
LEMMA NoneOnly == \A q, m, j : None(q, m) => Only(q, m, j)
BY DEF None, Only

-----------------------------------------------------------------------------
(* Types, by the module a variable belongs to. *)

HasherTypes ==
  /\ current_job \in Jobs \cup {Nothing}
  /\ main \in {"loop", "take", "mutex", "tiger"}
  /\ job_args \in Jobs \cup {Nothing} /\ job_done \in BOOLEAN
  /\ job_result \in Digests \cup {Nothing} /\ tiger_buffer \in Digests \cup {Nothing}
  /\ thread \in {"none", "created", "waiting", "woken", "hashing", "compressing", "finishing",
                 "finished"}
WorldTypes ==
  /\ faults \in 0 .. DiskFaults /\ verified \in 0 .. Verifications
  /\ disk \in [Files -> {"ok", "gone", "resized", "unreadable"}]
DonkeyTypes ==
  /\ shared_files \in Seq(Files) /\ computing \in BOOLEAN
  /\ shared_list \in Seq(Digests)
  /\ dk_sh \in Files \cup {Nothing} /\ dk_files \in Seq(Files)
  /\ shared_files_info \in [Files -> Seq(Digests)]
DcTypes ==
  /\ dc_files_to_hash \in Seq(Files) /\ dc_tiger_computing \in Files \cup {Nothing}
  /\ dc_shared_tiger_list \in [Files -> Seq(Digests)] /\ dc_files \in Seq(Files)
  /\ dc_by_fullname \subseteq Files /\ dc_by_hash \subseteq Files

LEMMA TypeParts ==
  /\ TypeOK <=> fifo \in Seq(Jobs) /\ HasherTypes /\ WorldTypes /\ DonkeyTypes /\ DcTypes
  /\ TypeOK' <=> fifo' \in Seq(Jobs) /\ HasherTypes' /\ WorldTypes' /\ DonkeyTypes' /\ DcTypes'
BY Zenon DEF TypeOK, HasherTypes, WorldTypes, DonkeyTypes, DcTypes

\* What the networks keep.
LEMMA DonkeyKept ==
  ASSUME UNCHANGED donkeyVars
  PROVE  /\ DonkeyTypes => DonkeyTypes'
         /\ DonkeyInv => DonkeyInv'
         /\ DkJob' = DkJob /\ computing' = computing
<1>1. /\ shared_files' = shared_files /\ computing' = computing /\ shared_list' = shared_list
      /\ dk_sh' = dk_sh /\ dk_files' = dk_files /\ shared_files_info' = shared_files_info
  BY DEF donkeyVars
<1> QED BY <1>1, Zenon DEF DonkeyTypes, DonkeyInv, DkJob, Hashed

LEMMA DcKept ==
  ASSUME UNCHANGED dcVars
  PROVE  /\ DcTypes => DcTypes'
         /\ DcInv => DcInv'
         /\ DcJob' = DcJob /\ dc_tiger_computing' = dc_tiger_computing
<1>1. /\ dc_files_to_hash' = dc_files_to_hash /\ dc_tiger_computing' = dc_tiger_computing
      /\ dc_shared_tiger_list' = dc_shared_tiger_list /\ dc_files' = dc_files
      /\ dc_by_fullname' = dc_by_fullname /\ dc_by_hash' = dc_by_hash
  BY DEF dcVars
<1> QED BY <1>1, Zenon DEF DcTypes, DcInv, DcJob, DcChunk, ToHash

LEMMA WorldKept == UNCHANGED worldVars /\ WorldTypes => WorldTypes'
BY DEF worldVars, WorldTypes

LEMMA FifoKept ==
  ASSUME FifoInv, UNCHANGED <<fifo, current_job, computing, dc_tiger_computing>>,
         DkJob' = DkJob, DcJob' = DcJob
  PROVE  FifoInv'
BY Zenon DEF FifoInv, Current

LEMMA InitInv == Init => ShareInv
<1> SUFFICES ASSUME Init PROVE ShareInv
  OBVIOUS
<1>1. TypeOK
  <2>1. shared_files_info \in [Files -> Seq(Digests)] /\ dc_shared_tiger_list \in [Files -> Seq(Digests)]
    BY EmptySeq DEF Init
  <2>2. /\ fifo \in Seq(Jobs) /\ shared_files \in Seq(Files) /\ shared_list \in Seq(Digests)
        /\ dk_files \in Seq(Files) /\ dc_files_to_hash \in Seq(Files) /\ dc_files \in Seq(Files)
    BY EmptySeq DEF Init, HasherInit
  <2>3. WorldTypes
    BY HasherAssumption DEF Init, HasherInit, WorldTypes
  <2>4. HasherTypes /\ DonkeyTypes /\ DcTypes
    BY <2>1, <2>2, Zenon DEF Init, HasherInit, HasherTypes, DonkeyTypes, DcTypes
  <2> QED BY <2>2, <2>3, <2>4, TypeParts
<1>2. /\ Len(fifo) = 0 /\ Len(shared_list) = 0 /\ Len(dc_files_to_hash) = 0 /\ Len(dc_files) = 0
      /\ \A f \in Files : Len(dc_shared_tiger_list[f]) = 0 /\ shared_files_info[f] = <<>>
      /\ current_job = Nothing /\ ~computing /\ dc_tiger_computing = Nothing /\ shared_list = <<>>
  BY DEF Init, HasherInit
<1>3. FifoInv
  BY <1>2 DEF FifoInv, Unique, None, Only, Current
<1>4. HasherInv
  BY DEF Init, HasherInit, HasherInv
<1>5. DonkeyInv
  BY <1>2 DEF DonkeyInv, Hashed
<1>6. DcInv
  BY <1>2, NChunksType DEF DcInv, ToHash, Distinct, DcChunk
<1> QED BY <1>1, <1>3, <1>4, <1>5, <1>6 DEF ShareInv

-----------------------------------------------------------------------------
(* Steps of the timer and of the thread. *)

\* Steps that only have to do with the current job.
JobStep == NoCurrentJob \/ SignalJob \/ DigestDownload \/ VerifyDownload \/ HasherThread

LEMMA JobStepHasher ==
  ASSUME HasherTypes, WorldTypes, HasherInv, JobStep
  PROVE  HasherTypes' /\ WorldTypes' /\ HasherInv' /\ UNCHANGED <<fifo, current_job>>
<1>1. WorldTypes' /\ UNCHANGED <<fifo, current_job>>
  <2>1. CASE VerifyDownload
    BY <2>1, HasherAssumption DEF VerifyDownload, WorldTypes
  <2>2. CASE NoCurrentJob \/ SignalJob \/ DigestDownload
    BY <2>2, WorldKept DEF NoCurrentJob, SignalJob, DigestDownload
  <2>3. CASE HasherThread
    BY <2>3, WorldKept DEF HasherThread, FirstWait, Timeout, NothingToDo, BeginJob, HashMd4, CopyTiger,
                           CompressTiger, FinishJob, NextWait, Thread
  <2> QED BY <2>1, <2>2, <2>3 DEF JobStep
<1>2. HasherTypes' /\ HasherInv'
  <2>1. CASE NoCurrentJob
    BY <2>1 DEF NoCurrentJob, HasherTypes, HasherInv, jobVars
  <2>2. CASE SignalJob
    BY <2>2 DEF SignalJob, HasherTypes, HasherInv, MutexHeld
  <2>3. CASE DigestDownload
    BY <2>3 DEF DigestDownload, HasherTypes, HasherInv, jobVars
  <2>4. CASE VerifyDownload
    BY <2>4 DEF VerifyDownload, HasherTypes, HasherInv, jobVars, Digests
  <2>5. CASE FirstWait \/ Timeout \/ NothingToDo \/ NextWait
    BY <2>5 DEF FirstWait, Timeout, NothingToDo, NextWait, Thread, HasherTypes, HasherInv
  <2>6. CASE BeginJob
    BY <2>6 DEF BeginJob, Thread, HasherTypes, HasherInv
  <2>7. CASE HashMd4
    BY <2>7, JobsForm DEF HashMd4, Thread, HasherTypes, HasherInv, AnswersTo, Digests
  <2>8. CASE CopyTiger
    BY <2>8 DEF CopyTiger, Thread, HasherTypes, HasherInv, Digests
  <2>9. CASE CompressTiger
    BY <2>9 DEF CompressTiger, Thread, HasherTypes, HasherInv, AnswersTo
  <2>10. CASE FinishJob
    BY <2>10 DEF FinishJob, Thread, HasherTypes, HasherInv
  <2> QED BY <2>1, <2>2, <2>3, <2>4, <2>5, <2>6, <2>7, <2>8, <2>9, <2>10 DEF JobStep, HasherThread
<1> QED BY <1>1, <1>2

LEMMA JobStepInv ==
  ASSUME ShareInv, JobStep, Shared
  PROVE  ShareInv'
<1>1. HasherTypes' /\ WorldTypes' /\ HasherInv' /\ UNCHANGED <<fifo, current_job>>
  BY JobStepHasher, TypeParts DEF ShareInv
<1>2. UNCHANGED donkeyVars /\ UNCHANGED dcVars
  BY DEF Shared
<1>3. TypeOK' /\ DonkeyInv' /\ DcInv'
  BY <1>1, <1>2, DonkeyKept, DcKept, TypeParts DEF ShareInv
<1>4. FifoInv'
  BY <1>1, <1>2, DonkeyKept, DcKept, FifoKept DEF ShareInv
<1> QED BY <1>1, <1>3, <1>4 DEF ShareInv

LEMMA DiskFaultInv ==
  ASSUME ShareInv, NEW f \in Files, DiskFault(f), Shared
  PROVE  ShareInv'
<1>1. UNCHANGED <<fifo, current_job, main, jobVars, thread, tiger_buffer>>
  BY DEF DiskFault
<1>2. WorldTypes'
  <2>1. WorldTypes
    BY TypeParts DEF ShareInv
  <2>2. faults' \in 0 .. DiskFaults /\ verified' = verified
    BY <2>1, HasherAssumption DEF WorldTypes, DiskFault
  <2>3. disk' \in [Files -> {"ok", "gone", "resized", "unreadable"}]
    BY <2>1 DEF WorldTypes, DiskFault
  <2> QED BY <2>1, <2>2, <2>3 DEF WorldTypes
<1>3. HasherTypes' /\ HasherInv'
  BY <1>1, TypeParts DEF ShareInv, HasherTypes, HasherInv, jobVars
<1>4. UNCHANGED donkeyVars /\ UNCHANGED dcVars
  BY DEF Shared
<1>5. TypeOK' /\ DonkeyInv' /\ DcInv'
  BY <1>1, <1>2, <1>3, <1>4, DonkeyKept, DcKept, TypeParts DEF ShareInv
<1>6. FifoInv'
  BY <1>1, <1>4, DonkeyKept, DcKept, FifoKept DEF ShareInv
<1> QED BY <1>3, <1>5, <1>6 DEF ShareInv

\* The first job of the Fifo is dropped, or made the current job.
LEMMA TakeInv ==
  ASSUME ShareInv, TakeNothing \/ TakeJob, Shared
  PROVE  ShareInv'
<1>1. /\ fifo \in Seq(Jobs) /\ HasherTypes /\ FifoInv /\ HasherInv
      /\ current_job = Nothing /\ ~Current("MD4") /\ ~Current("TIGER")
  BY TypeParts DEF ShareInv, HasherInv, TakeNothing, TakeJob, Current
<1>2. UNCHANGED donkeyVars /\ UNCHANGED dcVars /\ UNCHANGED worldVars
  BY DEF Shared, TakeNothing, TakeJob
<1>3. /\ DkJob' = DkJob /\ DcJob' = DcJob
      /\ computing' = computing /\ dc_tiger_computing' = dc_tiger_computing
      /\ DonkeyTypes' /\ DcTypes' /\ WorldTypes' /\ DonkeyInv' /\ DcInv'
  BY <1>2, DonkeyKept, DcKept, WorldKept, TypeParts DEF ShareInv
<1>4. CASE TakeNothing
  <2>1. \/ fifo' = fifo
        \/ fifo # <<>> /\ fifo' = Tail(fifo)
    BY <1>4 DEF TakeNothing
  <2>2. current_job' = Nothing /\ ~Current("MD4")' /\ ~Current("TIGER")'
    BY <1>1, <1>4 DEF TakeNothing, Current
  <2>3. /\ fifo' \in Seq(Jobs) /\ Unique(fifo')
        /\ Only(fifo', "MD4", DkJob) /\ Only(fifo', "TIGER", DcJob)
        /\ ~computing => None(fifo', "MD4")
        /\ dc_tiger_computing = Nothing => None(fifo', "TIGER")
    <3>1. CASE fifo' = fifo
      BY <1>1, <3>1 DEF FifoInv
    <3>2. CASE fifo # <<>> /\ fifo' = Tail(fifo)
      BY <1>1, <3>2, FifoTail DEF FifoInv
    <3> QED BY <2>1, <3>1, <3>2
  <2>4. FifoInv'
    BY <1>3, <2>2, <2>3 DEF FifoInv
  <2>5. HasherTypes' /\ HasherInv'
    BY <1>1, <1>4 DEF TakeNothing, HasherTypes, HasherInv, jobVars
  <2> QED BY <1>3, <2>3, <2>4, <2>5, TypeParts DEF ShareInv
<1>5. CASE TakeJob
  <2>1. fifo # <<>> /\ current_job' = Head(fifo) /\ fifo' = Tail(fifo)
    BY <1>5 DEF TakeJob
  <2>2. /\ Head(fifo) \in Jobs /\ fifo' \in Seq(Jobs)
        /\ Unique(fifo') /\ None(fifo', Head(fifo).method)
        /\ Only(fifo', "MD4", DkJob) /\ Only(fifo', "TIGER", DcJob)
        /\ Head(fifo).method = "MD4" => Head(fifo) = DkJob
        /\ Head(fifo).method = "TIGER" => Head(fifo) = DcJob
        /\ ~computing => None(fifo', "MD4") /\ Head(fifo).method # "MD4"
        /\ dc_tiger_computing = Nothing => None(fifo', "TIGER") /\ Head(fifo).method # "TIGER"
    BY <1>1, <2>1, FifoTail DEF FifoInv
  <2>3. FifoInv'
    BY <1>3, <2>1, <2>2 DEF FifoInv, Current
  <2>4. HasherTypes' /\ HasherInv'
    <3>1. job_done /\ Head(fifo) # Nothing
      BY <1>1, <2>2, JobsForm DEF HasherInv
    <3> QED BY <1>1, <1>5, <2>2, <3>1 DEF TakeJob, HasherTypes, HasherInv
  <2> QED BY <1>3, <2>2, <2>3, <2>4, TypeParts DEF ShareInv
<1> QED BY <1>4, <1>5

-----------------------------------------------------------------------------
(* Steps of eDonkey. *)

\* check_shared_files, when there is no MD4 job: fewer jobs of eDonkey's, or a
\* new one.
LEMMA CheckListInv ==
  ASSUME NEW list \in Seq(Files), CheckList(list), fifo \in Seq(Jobs), None(fifo, "MD4"),
         Unique(fifo), Only(fifo, "TIGER", DcJob)
  PROVE  /\ fifo' \in Seq(Jobs) /\ Unique(fifo') /\ Only(fifo', "MD4", DkJob')
         /\ Only(fifo', "TIGER", DcJob)
         /\ ~computing' => None(fifo', "MD4")
         /\ None(fifo, "TIGER") => None(fifo', "TIGER")
         /\ shared_files' \in Seq(Files) /\ computing' \in BOOLEAN /\ shared_list' = <<>>
         /\ dk_sh' \in Files \cup {Nothing} /\ dk_files' \in Seq(Files)
         /\ computing' => dk_sh' \in Files /\ Len(shared_list') < NChunks(dk_sh')
<1>1. CASE list # <<>> /\ Unchanged(Head(list))
  <2>1. /\ computing' = TRUE /\ shared_files' = list
        /\ dk_sh' = Head(list) /\ dk_files' = Tail(list) /\ shared_list' = <<>>
        /\ fifo' = Append(fifo, Job("MD4", Head(list), 0))
    BY <1>1 DEF CheckList
  <2>2. Head(list) \in Files /\ Tail(list) \in Seq(Files)
    BY <1>1, HeadTailProperties
  <2>3. /\ Job("MD4", Head(list), 0) \in Jobs /\ Job("MD4", Head(list), 0).method = "MD4"
        /\ DkJob' = Job("MD4", Head(list), 0) /\ Len(shared_list') = 0
    BY <2>1, <2>2, JobType, JobFields, NChunksType DEF DkJob
  <2>4. /\ fifo' \in Seq(Jobs) /\ Unique(fifo') /\ Only(fifo', "MD4", DkJob')
        /\ Only(fifo', "TIGER", DcJob)
        /\ None(fifo, "TIGER") => None(fifo', "TIGER")
    BY <2>1, <2>3, FifoAppend, NoneOnly
  <2> QED BY <2>1, <2>2, <2>3, <2>4, NChunksType
<1>2. CASE ~(list # <<>> /\ Unchanged(Head(list)))
  <2>1. /\ computing' = FALSE /\ shared_files' = IF list = <<>> THEN list ELSE Tail(list)
        /\ dk_sh' = Nothing /\ dk_files' = <<>> /\ shared_list' = <<>> /\ fifo' = fifo
    BY <1>2 DEF CheckList
  <2>2. shared_files' \in Seq(Files) /\ dk_files' \in Seq(Files)
    BY <2>1, HeadTailProperties, EmptySeq
  <2> QED BY <2>1, <2>2, NoneOnly
<1> QED BY <1>1, <1>2

LEMMA CheckSharedFilesInv ==
  ASSUME ShareInv, CheckSharedFiles
  PROVE  ShareInv'
<1>1. /\ CheckList(shared_files) /\ ~computing /\ main = "loop"
      /\ UNCHANGED <<current_job, main, jobVars, thread, tiger_buffer, shared_files_info>>
      /\ UNCHANGED worldVars /\ UNCHANGED dcVars
  BY DEF CheckSharedFiles
<1>2. /\ fifo \in Seq(Jobs) /\ HasherTypes /\ WorldTypes /\ DonkeyTypes /\ DcTypes
      /\ FifoInv /\ HasherInv /\ DonkeyInv /\ DcInv
  BY TypeParts DEF ShareInv
<1>3. shared_files \in Seq(Files) /\ None(fifo, "MD4") /\ ~Current("MD4")
  BY <1>1, <1>2 DEF DonkeyTypes, FifoInv
<1>4. /\ fifo' \in Seq(Jobs) /\ Unique(fifo') /\ Only(fifo', "MD4", DkJob')
      /\ Only(fifo', "TIGER", DcJob)
      /\ ~computing' => None(fifo', "MD4")
      /\ None(fifo, "TIGER") => None(fifo', "TIGER")
      /\ shared_files' \in Seq(Files) /\ computing' \in BOOLEAN /\ shared_list' = <<>>
      /\ dk_sh' \in Files \cup {Nothing} /\ dk_files' \in Seq(Files)
      /\ computing' => dk_sh' \in Files /\ Len(shared_list') < NChunks(dk_sh')
  BY <1>1, <1>2, <1>3, CheckListInv DEF FifoInv
<1>5. DcTypes' /\ DcInv' /\ DcJob' = DcJob /\ dc_tiger_computing' = dc_tiger_computing /\ WorldTypes'
  BY <1>1, <1>2, DcKept, WorldKept
<1>6. HasherTypes' /\ HasherInv'
  BY <1>1, <1>2 DEF HasherTypes, HasherInv, jobVars
<1>7. DonkeyTypes' /\ DonkeyInv'
  <2>1. shared_list' \in Seq(Digests) /\ Len(shared_list') = 0
    BY <1>4, EmptySeq
  <2> QED BY <1>1, <1>2, <1>4, <2>1 DEF DonkeyTypes, DonkeyInv, Hashed
<1>8. FifoInv'
  <2>1. (Current("TIGER")' <=> Current("TIGER")) /\ ~Current("MD4")'
    BY <1>1, <1>3 DEF Current
  <2> QED BY <1>1, <1>2, <1>4, <1>5, <2>1 DEF FifoInv
<1> QED BY <1>4, <1>5, <1>6, <1>7, <1>8, TypeParts DEF ShareInv

LEMMA DonkeyShareInv ==
  ASSUME ShareInv, NEW f \in Files, DonkeyShareFile(f)
  PROVE  ShareInv'
<1>1. /\ shared_files' = <<f>> \o shared_files
      /\ UNCHANGED <<computing, shared_list, dk_sh, dk_files, shared_files_info>>
      /\ UNCHANGED <<fifo, current_job, main, jobVars, thread, tiger_buffer>>
      /\ UNCHANGED worldVars /\ UNCHANGED dcVars
  BY DEF DonkeyShareFile, hasherVars
<1>2. /\ fifo \in Seq(Jobs) /\ HasherTypes /\ WorldTypes /\ DonkeyTypes /\ DcTypes
      /\ FifoInv /\ HasherInv /\ DonkeyInv /\ DcInv
  BY TypeParts DEF ShareInv
<1>3. shared_files' \in Seq(Files)
  BY <1>1, <1>2, ConcatProperties DEF DonkeyTypes
<1>4. DonkeyTypes' /\ DonkeyInv' /\ DkJob' = DkJob
  BY <1>1, <1>2, <1>3, Zenon DEF DonkeyTypes, DonkeyInv, Hashed, DkJob
<1>5. DcTypes' /\ DcInv' /\ DcJob' = DcJob /\ dc_tiger_computing' = dc_tiger_computing /\ WorldTypes'
  BY <1>1, <1>2, DcKept, WorldKept
<1>6. HasherTypes' /\ HasherInv'
  BY <1>1, <1>2 DEF HasherTypes, HasherInv, jobVars
<1>7. FifoInv'
  BY <1>1, <1>2, <1>4, <1>5, FifoKept
<1> QED BY <1>1, <1>2, <1>4, <1>5, <1>6, <1>7, TypeParts DEF ShareInv

\* One more digest.
LEMMA NextDigest ==
  ASSUME NEW s \in Seq(Digests), NEW d \in Digests
  PROVE  /\ Append(s, d) \in Seq(Digests) /\ Len(s) \in Nat /\ Len(Append(s, d)) = Len(s) + 1
         /\ \A i \in 1 .. Len(s) : Append(s, d)[i] = s[i]
         /\ Append(s, d)[Len(s) + 1] = d
         /\ Append(s, d) # <<>>
         /\ Append(s, d) = [i \in 1 .. Len(s) + 1 |-> Append(s, d)[i]]
<1>1. /\ Append(s, d) \in Seq(Digests) /\ Len(s) \in Nat /\ Len(Append(s, d)) = Len(s) + 1
      /\ \A i \in 1 .. Len(s) : Append(s, d)[i] = s[i]
      /\ Append(s, d)[Len(s) + 1] = d
  BY AppendProperties, LenProperties
<1>2. Append(s, d) \in [1 .. Len(s) + 1 -> Digests]
  BY <1>1, LenProperties
<1>3. Append(s, d) # <<>>
  BY <1>1, EmptySeq
<1> QED BY <1>1, <1>2, <1>3

\* The handler of an MD4 job: the digest is the one of the next chunk.
LEMMA EndMd4Inv ==
  ASSUME ShareInv, EndMd4
  PROVE  ShareInv'
<1> DEFINE f == dk_sh
           list == Append(shared_list, job_result)
<1>1. /\ main = "loop" /\ current_job # Nothing /\ job_done /\ current_job.method = "MD4"
      /\ current_job' = Nothing /\ main' = "take"
      /\ UNCHANGED <<jobVars, thread, tiger_buffer>>
      /\ UNCHANGED worldVars /\ UNCHANGED dcVars /\ DonkeyHandler
  BY DEF EndMd4, EndJob, JobDone
<1>2. /\ fifo \in Seq(Jobs) /\ HasherTypes /\ WorldTypes /\ DonkeyTypes /\ DcTypes
      /\ FifoInv /\ HasherInv /\ DonkeyInv /\ DcInv
  BY TypeParts DEF ShareInv
<1>3. /\ Current("MD4") /\ None(fifo, "MD4") /\ current_job = DkJob
      /\ computing /\ f \in Files /\ Len(shared_list) < NChunks(f) /\ ~Current("TIGER")
  BY <1>1, <1>2 DEF FifoInv, DonkeyInv, Current
<1>4. job_result = DkJob /\ DkJob \in Digests
  BY <1>1, <1>2, <1>3 DEF HasherInv, AnswersTo, HasherTypes, Digests
<1>5. /\ list \in Seq(Digests) /\ Len(list) = Len(shared_list) + 1 /\ Len(shared_list) \in Nat
      /\ list # <<>> /\ list = [i \in 1 .. Len(list) |-> list[i]]
      /\ \A i \in 1 .. Len(list) : list[i] = Job("MD4", f, i - 1)
  <2>1. shared_list \in Seq(Digests)
    BY <1>2 DEF DonkeyTypes
  <2> QED BY <1>2, <1>4, <2>1, NextDigest DEF DonkeyInv, DkJob
<1>6. DcTypes' /\ DcInv' /\ DcJob' = DcJob /\ dc_tiger_computing' = dc_tiger_computing /\ WorldTypes'
  BY <1>1, <1>2, DcKept, WorldKept
<1>7. HasherTypes' /\ HasherInv'
  BY <1>1, <1>2, JobsForm DEF HasherTypes, HasherInv, jobVars
<1> HIDE DEF list
<1>8. CASE /\ CheckList(dk_files)
           /\ \/ shared_files_info' = shared_files_info
              \/ /\ Len(list) = NChunks(f)
                 /\ shared_files_info' = [shared_files_info EXCEPT ![f] = list]
  <2>1. dk_files \in Seq(Files)
    BY <1>2 DEF DonkeyTypes
  <2>2. /\ fifo' \in Seq(Jobs) /\ Unique(fifo') /\ Only(fifo', "MD4", DkJob')
        /\ Only(fifo', "TIGER", DcJob)
        /\ ~computing' => None(fifo', "MD4")
        /\ None(fifo, "TIGER") => None(fifo', "TIGER")
        /\ shared_files' \in Seq(Files) /\ computing' \in BOOLEAN /\ shared_list' = <<>>
        /\ dk_sh' \in Files \cup {Nothing} /\ dk_files' \in Seq(Files)
        /\ computing' => dk_sh' \in Files /\ Len(shared_list') < NChunks(dk_sh')
    BY <1>2, <1>3, <1>8, <2>1, CheckListInv DEF FifoInv
  <2>3. /\ shared_files_info' \in [Files -> Seq(Digests)]
        /\ \A g \in Files : shared_files_info'[g] # <<>> =>
             shared_files_info'[g] = [i \in 1 .. NChunks(g) |-> Job("MD4", g, i - 1)]
    <3>1. Len(list) = NChunks(f) => list = [i \in 1 .. NChunks(f) |-> Job("MD4", f, i - 1)]
      BY <1>5
    <3> QED BY <1>2, <1>3, <1>5, <1>8, <3>1 DEF DonkeyTypes, DonkeyInv, Hashed
  <2>4. DonkeyTypes' /\ DonkeyInv'
    <3>1. shared_list' \in Seq(Digests) /\ Len(shared_list') = 0
      BY <2>2, EmptySeq
    <3> QED BY <2>2, <2>3, <3>1 DEF DonkeyTypes, DonkeyInv, Hashed
  <2>5. FifoInv'
    <3>1. ~Current("TIGER")' /\ ~Current("MD4")'
      BY <1>1 DEF Current
    <3> QED BY <1>2, <1>6, <2>2, <3>1 DEF FifoInv
  <2> QED BY <1>6, <1>7, <2>2, <2>4, <2>5, TypeParts DEF ShareInv
<1>9. CASE /\ computing' = FALSE /\ dk_sh' = Nothing /\ dk_files' = <<>> /\ shared_list' = <<>>
           /\ UNCHANGED <<shared_files, shared_files_info, fifo>>
  <2>1. Len(shared_list') = 0 /\ shared_list' \in Seq(Digests) /\ dk_files' \in Seq(Files)
    BY <1>9, EmptySeq
  <2>2. DonkeyTypes' /\ DonkeyInv'
    <3>1. DonkeyTypes'
      BY <1>2, <1>9, <2>1 DEF DonkeyTypes
    <3>2. shared_files_info' = shared_files_info /\ ~computing'
      BY <1>9
    <3>3. \A i \in 1 .. Len(shared_list') : shared_list'[i] = Job("MD4", dk_sh', i - 1)
      BY <2>1
    <3> QED BY <1>2, <1>9, <3>1, <3>2, <3>3, Zenon DEF DonkeyInv, Hashed
  <2>3. FifoInv'
    <3>1. ~Current("TIGER")' /\ ~Current("MD4")'
      BY <1>1 DEF Current
    <3> QED BY <1>2, <1>3, <1>6, <1>9, <3>1, NoneOnly DEF FifoInv
  <2> QED BY <1>2, <1>6, <1>7, <1>9, <2>2, <2>3, TypeParts DEF ShareInv
<1>10. CASE /\ Len(list) # NChunks(f)
            /\ shared_list' = list /\ fifo' = Append(fifo, Job("MD4", f, Len(list)))
            /\ UNCHANGED <<shared_files, computing, dk_sh, dk_files, shared_files_info>>
  <2>1. Len(list) \in Nat /\ Len(list) < NChunks(f)
    BY <1>3, <1>5, <1>10, NChunksType
  <2>2. /\ Job("MD4", f, Len(list)) \in Jobs /\ Job("MD4", f, Len(list)).method = "MD4"
        /\ DkJob' = Job("MD4", f, Len(list))
    BY <1>3, <1>10, <2>1, JobType, JobFields DEF DkJob
  <2>3. /\ fifo' \in Seq(Jobs) /\ Unique(fifo') /\ Only(fifo', "MD4", DkJob')
        /\ Only(fifo', "TIGER", DcJob)
        /\ None(fifo, "TIGER") => None(fifo', "TIGER")
    BY <1>2, <1>3, <1>10, <2>2, FifoAppend, NoneOnly DEF FifoInv
  <2>4. DonkeyTypes' /\ DonkeyInv'
    BY <1>2, <1>3, <1>5, <1>10, <2>1 DEF DonkeyTypes, DonkeyInv, Hashed
  <2>5. FifoInv'
    <3>1. ~Current("TIGER")' /\ ~Current("MD4")' /\ computing'
      BY <1>1, <1>3, <1>10 DEF Current
    <3> QED BY <1>2, <1>6, <2>3, <3>1 DEF FifoInv
  <2> QED BY <1>6, <1>7, <2>3, <2>4, <2>5, TypeParts DEF ShareInv
<1> QED BY <1>1, <1>8, <1>9, <1>10, Zenon DEF DonkeyHandler, list

-----------------------------------------------------------------------------
(* Steps of Direct Connect. *)

LEMMA DistinctLists ==
  ASSUME NEW s \in Seq(Files), Distinct(s)
  PROVE  /\ \A f \in Files : Lacks(s, f) =>
              /\ <<f>> \o s \in Seq(Files) /\ Distinct(<<f>> \o s)
              /\ \A i \in 1 .. Len(<<f>> \o s) :
                   (<<f>> \o s)[i] = f \/ \E k \in 1 .. Len(s) : (<<f>> \o s)[i] = s[k]
         /\ s # <<>> =>
              /\ Head(s) \in Files /\ Tail(s) \in Seq(Files)
              /\ Distinct(Tail(s)) /\ Lacks(Tail(s), Head(s))
              /\ 1 \in 1 .. Len(s) /\ Head(s) = s[1]
              /\ \A i \in 1 .. Len(Tail(s)) : i + 1 \in 1 .. Len(s) /\ Tail(s)[i] = s[i + 1]
<1>1. ASSUME NEW f \in Files, Lacks(s, f)
      PROVE  /\ <<f>> \o s \in Seq(Files) /\ Distinct(<<f>> \o s)
             /\ \A i \in 1 .. Len(<<f>> \o s) :
                  (<<f>> \o s)[i] = f \/ \E k \in 1 .. Len(s) : (<<f>> \o s)[i] = s[k]
  <2> DEFINE q == <<f>> \o s
  <2>1. /\ <<f>> \in Seq(Files) /\ Len(<<f>>) = 1 /\ <<f>>[1] = f /\ Len(s) \in Nat
    BY LenProperties
  <2>2. /\ q \in Seq(Files) /\ Len(q) = 1 + Len(s)
        /\ \A i \in 1 .. Len(q) : q[i] = IF i <= 1 THEN <<f>>[i] ELSE s[i - 1]
    BY <2>1, ConcatProperties
  <2> HIDE DEF q
  <2>3. \A i \in 1 .. Len(q) : \/ i = 1 /\ q[i] = f
                               \/ i # 1 /\ i - 1 \in 1 .. Len(s) /\ q[i] = s[i - 1]
    BY <2>1, <2>2
  <2>4. Distinct(q)
    <3> SUFFICES ASSUME NEW i \in 1 .. Len(q), NEW j \in 1 .. Len(q), q[i] = q[j]
                 PROVE  i = j
      BY DEF Distinct
    <3>1. Len(q) \in Nat
      BY <2>1, <2>2
    <3>2. CASE i = 1 \/ j = 1
      BY <1>1, <2>3, <3>1, <3>2 DEF Lacks
    <3>3. CASE i # 1 /\ j # 1
      <4>1. i - 1 \in 1 .. Len(s) /\ j - 1 \in 1 .. Len(s) /\ s[i - 1] = s[j - 1]
        BY <2>3, <3>3
      <4>2. i - 1 = j - 1
        BY <4>1 DEF Distinct
      <4> QED BY <3>1, <4>2
    <3> QED BY <3>2, <3>3
  <2> QED BY <2>2, <2>3, <2>4 DEF q
<1>2. ASSUME s # <<>>
      PROVE  /\ Head(s) \in Files /\ Tail(s) \in Seq(Files)
             /\ Distinct(Tail(s)) /\ Lacks(Tail(s), Head(s))
             /\ 1 \in 1 .. Len(s) /\ Head(s) = s[1]
             /\ \A i \in 1 .. Len(Tail(s)) : i + 1 \in 1 .. Len(s) /\ Tail(s)[i] = s[i + 1]
  <2>1. /\ Len(s) \in Nat /\ Len(s) > 0 /\ Head(s) \in Files /\ Tail(s) \in Seq(Files)
        /\ Len(Tail(s)) = Len(s) - 1
        /\ \A i \in 1 .. Len(Tail(s)) : Tail(s)[i] = s[i + 1]
        /\ Head(s) = s[1]
    BY <1>2, HeadTailProperties, LenProperties, EmptySeq
  <2>2. Distinct(Tail(s)) /\ Lacks(Tail(s), Head(s))
    BY <2>1 DEF Distinct, Lacks
  <2> QED BY <2>1, <2>2
<1> QED BY <1>1, <1>2

LEMMA DcShareInv ==
  ASSUME ShareInv, NEW f \in Files, DcShareFile(f)
  PROVE  ShareInv'
<1>1. /\ f \notin dc_by_fullname /\ dc_by_fullname' = dc_by_fullname \cup {f}
      /\ dc_files_to_hash' = <<f>> \o dc_files_to_hash
      /\ UNCHANGED <<dc_tiger_computing, dc_shared_tiger_list, dc_files, dc_by_hash>>
      /\ UNCHANGED <<fifo, current_job, main, jobVars, thread, tiger_buffer>>
      /\ UNCHANGED worldVars /\ UNCHANGED donkeyVars
  BY DEF DcShareFile, hasherVars
<1>2. /\ fifo \in Seq(Jobs) /\ HasherTypes /\ WorldTypes /\ DonkeyTypes /\ DcTypes
      /\ FifoInv /\ HasherInv /\ DonkeyInv /\ DcInv
  BY TypeParts DEF ShareInv
<1>3. /\ DonkeyTypes' /\ DonkeyInv' /\ DkJob' = DkJob /\ computing' = computing /\ WorldTypes'
      /\ HasherTypes' /\ HasherInv'
  <2>1. HasherTypes' /\ HasherInv'
    BY <1>1, <1>2 DEF HasherTypes, HasherInv, jobVars
  <2> QED BY <1>1, <1>2, <2>1, DonkeyKept, WorldKept
<1>4. DcJob' = DcJob /\ \A g : DcChunk(g)' = DcChunk(g)
  BY <1>1 DEF DcJob, DcChunk
<1>5. FifoInv'
  BY <1>1, <1>2, <1>3, <1>4, FifoKept
<1>6. /\ dc_files_to_hash' \in Seq(Files) /\ Distinct(dc_files_to_hash')
      /\ \A i \in 1 .. Len(dc_files_to_hash') :
           \/ dc_files_to_hash'[i] = f
           \/ \E k \in 1 .. Len(dc_files_to_hash) : dc_files_to_hash'[i] = dc_files_to_hash[k]
  <2>1. dc_files_to_hash \in Seq(Files) /\ Lacks(dc_files_to_hash, f) /\ Distinct(dc_files_to_hash)
    BY <1>1, <1>2 DEF DcTypes, DcInv, ToHash, Lacks
  <2> QED BY <1>1, <2>1, DistinctLists
<1>7. DcTypes'
  BY <1>1, <1>2, <1>6 DEF DcTypes
<1>8. DcInv'
  <2>1. DcChunk(f) < NChunks(f)
    BY <1>1, <1>2, NChunksType DEF DcInv
  <2>2. ToHash(dc_files_to_hash)'
    BY <1>1, <1>2, <1>4, <1>6, <2>1 DEF ToHash, DcInv
  <2>3. ToHash(dc_files)'
    BY <1>1, <1>2, <1>4 DEF ToHash, DcInv
  <2> QED BY <1>1, <1>2, <1>4, <2>2, <2>3 DEF DcInv
<1> QED BY <1>1, <1>2, <1>3, <1>5, <1>7, <1>8, TypeParts DEF ShareInv

\* dc_check_hashed_files: the first file is taken off, or a job is made for it.
LEMMA DcCheckInv ==
  ASSUME ShareInv, DcCheckHashedFiles
  PROVE  ShareInv'
<1> DEFINE f == Head(dc_files_to_hash)
<1>1. /\ dc_tiger_computing = Nothing /\ dc_files_to_hash # <<>>
      /\ UNCHANGED <<current_job, main, jobVars, thread, tiger_buffer>>
      /\ UNCHANGED <<dc_shared_tiger_list, dc_by_fullname, dc_by_hash>>
      /\ UNCHANGED worldVars /\ UNCHANGED donkeyVars
  BY DEF DcCheckHashedFiles
<1>2. /\ fifo \in Seq(Jobs) /\ HasherTypes /\ WorldTypes /\ DonkeyTypes /\ DcTypes
      /\ FifoInv /\ HasherInv /\ DonkeyInv /\ DcInv
  BY TypeParts DEF ShareInv
<1>3. /\ DonkeyTypes' /\ DonkeyInv' /\ DkJob' = DkJob /\ computing' = computing /\ WorldTypes'
      /\ HasherTypes' /\ HasherInv'
  <2>1. HasherTypes' /\ HasherInv'
    BY <1>1, <1>2 DEF HasherTypes, HasherInv, jobVars
  <2> QED BY <1>1, <1>2, <2>1, DonkeyKept, WorldKept
<1>4. \A g : DcChunk(g)' = DcChunk(g)
  BY <1>1 DEF DcChunk
<1>5. /\ dc_files_to_hash \in Seq(Files) /\ f \in Files /\ Tail(dc_files_to_hash) \in Seq(Files)
      /\ ToHash(Tail(dc_files_to_hash)) /\ Lacks(Tail(dc_files_to_hash), f)
      /\ f \in dc_by_fullname /\ DcChunk(f) < NChunks(f) /\ DcChunk(f) \in Nat
  <2>1. dc_files_to_hash \in Seq(Files) /\ Distinct(dc_files_to_hash)
    BY <1>2 DEF DcTypes, DcInv, ToHash
  <2>2. /\ f \in Files /\ Tail(dc_files_to_hash) \in Seq(Files)
        /\ Distinct(Tail(dc_files_to_hash)) /\ Lacks(Tail(dc_files_to_hash), f)
        /\ 1 \in 1 .. Len(dc_files_to_hash) /\ f = dc_files_to_hash[1]
        /\ \A i \in 1 .. Len(Tail(dc_files_to_hash)) :
             /\ i + 1 \in 1 .. Len(dc_files_to_hash)
             /\ Tail(dc_files_to_hash)[i] = dc_files_to_hash[i + 1]
    BY <1>1, <2>1, DistinctLists
  <2>3. DcChunk(f) \in Nat
    BY <1>2, <2>2, LenProperties DEF DcTypes, DcChunk
  <2> QED BY <1>2, <2>1, <2>2, <2>3 DEF DcInv, ToHash
<1>6. (Current("MD4")' <=> Current("MD4")) /\ ~Current("TIGER")' /\ None(fifo, "TIGER")
  BY <1>1, <1>2 DEF FifoInv, Current
<1> HIDE DEF f
<1>7. CASE /\ dc_tiger_computing' = f /\ dc_files' = Tail(dc_files_to_hash)
           /\ fifo' = Append(fifo, Job("TIGER", f, DcChunk(f)))
           /\ UNCHANGED dc_files_to_hash
  <2>1. /\ Job("TIGER", f, DcChunk(f)) \in Jobs /\ Job("TIGER", f, DcChunk(f)).method = "TIGER"
        /\ DcJob' = Job("TIGER", f, DcChunk(f)) /\ f # Nothing
    BY <1>4, <1>5, <1>7, JobType, JobFields, NothingAssumption DEF DcJob
  <2>2. /\ fifo' \in Seq(Jobs) /\ Unique(fifo') /\ Only(fifo', "TIGER", DcJob')
        /\ Only(fifo', "MD4", DkJob)
        /\ None(fifo, "MD4") => None(fifo', "MD4")
    BY <1>2, <1>6, <1>7, <2>1, FifoAppend, NoneOnly DEF FifoInv
  <2>3. FifoInv'
    BY <1>1, <1>2, <1>3, <1>6, <1>7, <2>1, <2>2 DEF FifoInv
  <2>4. DcTypes'
    BY <1>1, <1>2, <1>5, <1>7 DEF DcTypes
  <2>5. DcInv'
    <3>1. ToHash(dc_files_to_hash)' /\ ToHash(dc_files)'
      BY <1>1, <1>2, <1>4, <1>5, <1>7 DEF ToHash, DcInv
    <3> QED BY <1>1, <1>2, <1>4, <1>5, <1>7, <3>1 DEF DcInv
  <2> QED BY <1>3, <2>2, <2>3, <2>4, <2>5, TypeParts DEF ShareInv
<1>8. CASE /\ dc_files_to_hash' = Tail(dc_files_to_hash)
           /\ UNCHANGED <<dc_tiger_computing, dc_files, fifo>>
  <2>1. DcJob' = DcJob
    BY <1>4, <1>8 DEF DcJob
  <2>2. FifoInv'
    BY <1>1, <1>2, <1>3, <1>8, <2>1, FifoKept
  <2>3. DcTypes'
    BY <1>1, <1>2, <1>5, <1>8 DEF DcTypes
  <2>4. DcInv'
    <3>1. ToHash(dc_files_to_hash)' /\ ToHash(dc_files)'
      BY <1>1, <1>2, <1>4, <1>5, <1>8 DEF ToHash, DcInv
    <3> QED BY <1>1, <1>2, <1>4, <1>8, <3>1 DEF DcInv
  <2> QED BY <1>2, <1>3, <1>8, <2>2, <2>3, <2>4, TypeParts DEF ShareInv
<1> QED BY <1>7, <1>8 DEF DcCheckHashedFiles, f

\* The handler of a TIGER job.
LEMMA EndTigerInv ==
  ASSUME ShareInv, EndTiger
  PROVE  ShareInv'
<1> DEFINE f == dc_tiger_computing
           list == Append(dc_shared_tiger_list[f], job_result)
<1>1. /\ main = "loop" /\ current_job # Nothing /\ job_done /\ current_job.method = "TIGER"
      /\ current_job' = Nothing /\ main' = "take"
      /\ UNCHANGED <<jobVars, thread, tiger_buffer>>
      /\ UNCHANGED worldVars /\ UNCHANGED donkeyVars
      /\ dc_tiger_computing' = Nothing /\ dc_files' = <<>>
      /\ dc_shared_tiger_list' = [dc_shared_tiger_list EXCEPT ![f] = list]
      /\ UNCHANGED <<dc_by_fullname, fifo>>
  BY DEF EndTiger, EndJob, JobDone, DcHandler
<1>2. /\ fifo \in Seq(Jobs) /\ HasherTypes /\ WorldTypes /\ DonkeyTypes /\ DcTypes
      /\ FifoInv /\ HasherInv /\ DonkeyInv /\ DcInv
  BY TypeParts DEF ShareInv
<1>3. /\ Current("TIGER") /\ None(fifo, "TIGER") /\ current_job = DcJob
      /\ f # Nothing /\ ~Current("MD4")
  BY <1>1, <1>2 DEF FifoInv, Current
<1>4. f \in Files /\ DcChunk(f) < NChunks(f) /\ Lacks(dc_files, f) /\ f \in dc_by_fullname
  BY <1>2, <1>3 DEF DcInv, DcTypes
<1>5. job_result \in {DcJob, Downloaded} /\ job_result \in Digests
  BY <1>1, <1>2, <1>3 DEF HasherInv, AnswersTo, HasherTypes, Digests
<1>6. /\ list \in Seq(Digests) /\ Len(list) = DcChunk(f) + 1 /\ DcChunk(f) \in Nat
      /\ Len(list) <= NChunks(f)
      /\ \A i \in 1 .. Len(list) : list[i] \in {Job("TIGER", f, i - 1), Downloaded}
  <2>1. dc_shared_tiger_list[f] \in Seq(Digests)
    BY <1>2, <1>4 DEF DcTypes
  <2>2. /\ list \in Seq(Digests) /\ Len(list) = DcChunk(f) + 1 /\ DcChunk(f) \in Nat
        /\ \A i \in 1 .. DcChunk(f) : list[i] = dc_shared_tiger_list[f][i]
        /\ list[DcChunk(f) + 1] = job_result
    BY <1>5, <2>1, NextDigest DEF DcChunk
  <2>3. \A i \in 1 .. DcChunk(f) : dc_shared_tiger_list[f][i] \in {Job("TIGER", f, i - 1), Downloaded}
    BY <1>2, <1>4 DEF DcInv
  <2>4. job_result \in {Job("TIGER", f, DcChunk(f)), Downloaded}
    BY <1>5 DEF DcJob
  <2> HIDE DEF list
  <2>5. \A i \in 1 .. Len(list) : list[i] \in {Job("TIGER", f, i - 1), Downloaded}
    BY <2>2, <2>3, <2>4
  <2> QED BY <1>4, <2>2, <2>5, NChunksType
<1>7. /\ DonkeyTypes' /\ DonkeyInv' /\ DkJob' = DkJob /\ computing' = computing /\ WorldTypes'
      /\ HasherTypes' /\ HasherInv'
  <2>1. HasherTypes' /\ HasherInv'
    BY <1>1, <1>2 DEF HasherTypes, HasherInv, jobVars
  <2> QED BY <1>1, <1>2, <2>1, DonkeyKept, WorldKept
<1>8. \/ dc_files_to_hash' = dc_files /\ dc_by_hash' = dc_by_hash \cup {f}
      \/ Len(list) # NChunks(f) /\ dc_files_to_hash' = dc_files_to_hash /\ dc_by_hash' = dc_by_hash
  BY DEF EndTiger, DcHandler
<1> HIDE DEF list
<1>9. FifoInv'
  <2>1. ~Current("TIGER")' /\ ~Current("MD4")'
    BY <1>1 DEF Current
  <2> QED BY <1>1, <1>2, <1>3, <1>7, <2>1, NoneOnly DEF FifoInv
<1>10. DcTypes'
  BY <1>1, <1>2, <1>4, <1>6, <1>8, EmptySeq DEF DcTypes
<1>11. DcInv'
  <2>1. /\ dc_shared_tiger_list'[f] = list
        /\ \A g \in Files \ {f} : dc_shared_tiger_list'[g] = dc_shared_tiger_list[g]
    BY <1>1, <1>2, <1>4 DEF DcTypes
  <2>2. ToHash(dc_files)'
    BY <1>1, EmptySeq DEF ToHash, Distinct
  <2>3. ToHash(dc_files_to_hash)'
    <3>1. CASE dc_files_to_hash' = dc_files
      <4>1. \A i \in 1 .. Len(dc_files) : dc_files[i] \in Files \ {f}
        BY <1>2, <1>4, ElementOfSeq DEF DcTypes, Lacks
      <4>2. /\ Distinct(dc_files)
            /\ \A i \in 1 .. Len(dc_files) :
                 dc_files[i] \in dc_by_fullname /\ DcChunk(dc_files[i]) < NChunks(dc_files[i])
        BY <1>2 DEF DcInv, ToHash
      <4> QED BY <1>1, <2>1, <3>1, <4>1, <4>2 DEF ToHash, DcChunk
    <3>2. CASE Len(list) # NChunks(f) /\ dc_files_to_hash' = dc_files_to_hash
      <4>1. \A i \in 1 .. Len(dc_files_to_hash) : dc_files_to_hash[i] \in Files
        BY <1>2, ElementOfSeq DEF DcTypes
      <4>2. Len(list) < NChunks(f)
        BY <1>4, <1>6, <3>2, NChunksType
      <4>3. /\ Distinct(dc_files_to_hash)
            /\ \A i \in 1 .. Len(dc_files_to_hash) :
                 /\ dc_files_to_hash[i] \in dc_by_fullname
                 /\ DcChunk(dc_files_to_hash[i]) < NChunks(dc_files_to_hash[i])
        BY <1>2 DEF DcInv, ToHash
      <4> QED BY <1>1, <2>1, <3>2, <4>1, <4>2, <4>3 DEF ToHash, DcChunk
    <3> QED BY <1>8, <3>1, <3>2
  <2>4. \A g \in Files : /\ Len(dc_shared_tiger_list'[g]) <= NChunks(g)
                         /\ g \notin dc_by_fullname => Len(dc_shared_tiger_list'[g]) = 0
    BY <1>2, <1>4, <1>6, <2>1 DEF DcInv, DcChunk
  <2>5. \A g \in Files : \A i \in 1 .. Len(dc_shared_tiger_list'[g]) :
          dc_shared_tiger_list'[g][i] \in {Job("TIGER", g, i - 1), Downloaded}
    BY <1>2, <1>4, <1>6, <2>1 DEF DcInv, DcChunk
  <2> QED BY <1>1, <2>2, <2>3, <2>4, <2>5 DEF DcInv, DcChunk
<1> QED BY <1>1, <1>2, <1>7, <1>9, <1>10, <1>11, TypeParts DEF ShareInv

-----------------------------------------------------------------------------
(* Theorems. *)

LEMMA NextInv == ShareInv /\ [Next]_vars => ShareInv'
<1> SUFFICES ASSUME ShareInv, [Next]_vars
             PROVE  ShareInv'
  OBVIOUS
<1>1. CASE UNCHANGED vars
  <2>1. /\ UNCHANGED <<fifo, current_job, main, jobVars, thread, tiger_buffer>>
        /\ UNCHANGED worldVars /\ UNCHANGED donkeyVars /\ UNCHANGED dcVars
    BY <1>1 DEF vars, hasherVars
  <2>2. HasherTypes' /\ HasherInv'
    BY <2>1, TypeParts DEF ShareInv, HasherTypes, HasherInv, jobVars
  <2>3. FifoInv'
    BY <2>1, DonkeyKept, DcKept, FifoKept DEF ShareInv
  <2> QED BY <2>1, <2>2, <2>3, DonkeyKept, DcKept, WorldKept, TypeParts DEF ShareInv
<1>2. CASE EventLoop
  BY <1>2, JobStepInv, TakeInv, EndMd4Inv, EndTigerInv, CheckSharedFilesInv, DcCheckInv, DonkeyShareInv,
     DcShareInv DEF EventLoop, JobStep
<1>3. CASE World \/ (HasherThread /\ Shared)
  BY <1>3, JobStepInv, DiskFaultInv DEF World, JobStep
<1> QED BY <1>1, <1>2, <1>3 DEF Next

LEMMA ShareInvariant == Spec => []ShareInv
BY InitInv, NextInv, PTL DEF Spec

(* Every variable of the hasher and of the two networks keeps its type.    *)
THEOREM ShareTypeCorrect == Spec => []TypeOK
BY ShareInvariant, PTL DEF ShareInv

(* A network never has two jobs, and its job is for the file it is         *)
(* computing: the flags, the handler and the timers agree.                 *)
THEOREM OneJobForEach == Spec => []OneJobEach
<1>1. ShareInv => OneJobEach
  <2> SUFFICES ASSUME ShareInv PROVE OneJobEach
    OBVIOUS
  <2>1. DkJob.file = dk_sh /\ DcJob.file = dc_tiger_computing
    BY JobFields DEF DkJob, DcJob
  <2>2. \A i, j \in Pending("MD4") \cup Pending("TIGER") :
          fifo[i].method = fifo[j].method => i = j
    BY DEF ShareInv, FifoInv, Unique, Pending
  <2>3. \A i \in Pending("MD4") : fifo[i] = DkJob /\ computing /\ ~Current("MD4")
    BY DEF ShareInv, TypeOK, FifoInv, Only, None, Pending
  <2>4. \A i \in Pending("TIGER") : fifo[i] = DcJob /\ ~Current("TIGER")
    BY DEF ShareInv, FifoInv, Only, None, Pending
  <2>5. /\ Current("MD4") => computing /\ current_job = DkJob
        /\ Current("TIGER") => current_job = DcJob
    BY DEF ShareInv, TypeOK, FifoInv
  <2> QED BY <2>1, <2>2, <2>3, <2>4, <2>5 DEF OneJobEach
<1> QED BY <1>1, ShareInvariant, PTL

(* The digests of a file are those of its chunks, each in its place, but   *)
(* for a TigerTree digest that may be the one of a verified download.      *)
THEOREM DigestsInPlace == Spec => []ChunksInPlace
<1>1. ShareInv => ChunksInPlace
  BY Zenon DEF ShareInv, DonkeyInv, DcInv, ChunksInPlace, DcChunk
<1> QED BY <1>1, ShareInvariant, PTL

-----------------------------------------------------------------------------
(* The hasher is a worker that answers the job it was given. *)

\* The part of HasherIsAsyncJob that is not about fairness.
HasherSafety == Worker!Init /\ [][Worker!Next]_(Worker!jobVars)

\* answer, in the mapping.
Digest == IF current_job # Nothing /\ main # "mutex" /\ job_done THEN job_result ELSE Nothing

LEMMA WorkStep ==
  ASSUME ShareInv, FinishJob
  PROVE  Worker!Work
<1>1. /\ ~job_done /\ job_done' /\ current_job # Nothing /\ main # "mutex"
      /\ job_result \in AnswersTo(current_job)
      /\ UNCHANGED <<current_job, main, job_result>>
  BY DEF ShareInv, HasherInv, FinishJob, Thread
<1> QED BY <1>1 DEF Worker!Work

LEMMA StartStep ==
  ASSUME ShareInv, TakeJob
  PROVE  \E j \in Jobs : Worker!Start(j)
<1>1. /\ current_job = Nothing /\ current_job' = Head(fifo) /\ main' = "mutex"
      /\ Head(fifo) \in Jobs
  BY TypeParts, FifoTail DEF ShareInv, HasherInv, TakeJob
<1> QED BY <1>1 DEF Worker!Start

LEMMA CollectStep ==
  ASSUME ShareInv, EndMd4 \/ EndTiger
  PROVE  Worker!Collect
<1>1. /\ current_job \in Jobs /\ main = "loop" /\ job_done /\ current_job' = Nothing
      /\ job_result \in AnswersTo(current_job)
  BY TypeParts DEF ShareInv, HasherTypes, HasherInv, EndMd4, EndTiger, EndJob, JobDone
<1>2. job_result # Nothing /\ current_job # Nothing
  BY <1>1, JobsForm
<1> QED BY <1>1, <1>2 DEF Worker!Collect

\* No other step touches the job or its digest.
LEMMA OtherSteps ==
  ASSUME ShareInv, [Next]_vars, ~(TakeJob \/ FinishJob \/ EndMd4 \/ EndTiger)
  PROVE  UNCHANGED Worker!jobVars
<1>1. current_job' = current_job /\ Digest' = Digest
  <2>1. CASE UNCHANGED vars
    BY <2>1 DEF vars, hasherVars, jobVars, Digest
  <2>2. CASE NoCurrentJob \/ DigestDownload \/ VerifyDownload \/ TakeNothing
    BY <2>2 DEF NoCurrentJob, DigestDownload, VerifyDownload, TakeNothing, jobVars, Digest
  <2>3. CASE SignalJob
    BY <2>3 DEF SignalJob, Digest
  <2>4. CASE CheckSharedFiles \/ DcCheckHashedFiles
    BY <2>4 DEF CheckSharedFiles, DcCheckHashedFiles, jobVars, Digest
  <2>5. CASE \E f \in Files : DonkeyShareFile(f) \/ DcShareFile(f) \/ DiskFault(f)
    BY <2>5 DEF DonkeyShareFile, DcShareFile, DiskFault, hasherVars, jobVars, Digest
  <2>6. CASE FirstWait \/ Timeout \/ NothingToDo \/ BeginJob \/ NextWait \/ CopyTiger
    BY <2>6 DEF FirstWait, Timeout, NothingToDo, BeginJob, NextWait, CopyTiger, Thread, Digest
  <2>7. CASE HashMd4 \/ CompressTiger
    <3>1. ~job_done /\ UNCHANGED <<current_job, job_done>>
      BY <2>7 DEF ShareInv, HasherInv, HashMd4, CompressTiger, Thread
    <3> QED BY <3>1 DEF Digest
  <2> QED BY <2>1, <2>2, <2>3, <2>4, <2>5, <2>6, <2>7 DEF Next, EventLoop, World, HasherThread
<1> QED BY <1>1 DEF Digest, Worker!jobVars

(* The timer of commonHasher.ml, ml_job_start, hasher_thread and           *)
(* ml_job_done do the steps of a worker with one job at a time, that       *)
(* leaves a digest for this job and for no other, which is given to a      *)
(* handler once. That it comes is fairness, and stays with the run.        *)
THEOREM HasherImplementsAsyncJob == Spec => HasherSafety
<1>1. Init => Worker!Init
  BY DEF Init, HasherInit, Worker!Init
<1>2. ShareInv /\ [Next]_vars => [Worker!Next]_(Worker!jobVars)
  BY WorkStep, StartStep, CollectStep, OtherSteps DEF Worker!Next
<1> QED BY <1>1, <1>2, ShareInvariant, PTL DEF Spec, HasherSafety
=============================================================================
