---------------------------- MODULE NameResolver ----------------------------
(***************************************************************************)
(* Asynchronous name resolution: Ip.async_ip, the timer of ip.ml with its  *)
(* Fifo, its current job and the cache of addresses, and the thread of     *)
(* stubs_c.c that calls gethostbyname.                                     *)
(*                                                                         *)
(* Two actors. The event loop runs one handler or one turn of the timer's  *)
(* loop at a time; ml_ip_job_start has a mutex to wait for and is two      *)
(* steps. The thread holds the mutex but for the wait on the condition,    *)
(* while ml_ip_job_done looks at its variables without a lock: each of its *)
(* assignments is a step.                                                  *)
(*                                                                         *)
(* An address list is represented by the name it was found for. Time is    *)
(* only what makes a cache entry too old and a wait time out.              *)
(***************************************************************************)
EXTENDS Naturals, Sequences

CONSTANTS
  Requests,       \* one per call of async_ip
  Names,
  LongNames,      \* those of JOB_HOSTNAME_SIZE characters or more
  NameOf,         \* the name of a request
  use_threads,    \* option: values it may have
  Nothing

ASSUME NamesAssumption ==
  /\ LongNames \subseteq Names /\ NameOf \in [Requests -> Names]
  /\ use_threads \subseteq BOOLEAN
  /\ Nothing \notin Requests \cup Names \cup {"error", "lost"}
  /\ Names \cap {"notAsked", "waiting", "error", "lost"} = {}

VARIABLES
  threads,        \* use_threads, read from the options at start-up
  outcome,        \* of a request: the handler that was called, with what
  ip_fifo,
  current_job,    \* a request
  ip_cache,       \* the bindings of a name in the Hashtbl, last added first
  main,           \* where the event loop is: in ml_ip_job_start, at its mutex or not
  \* The variables of stubs_c.c:
  ip_job_done,
  job_hostname,
  job_result,
  ip_job_result,  \* with job_naddresses: the name whose addresses it holds
  thread,         \* where dns_thread is
  resolved        \* what gethostbyname has returned to it

jobVars == <<ip_job_done, job_hostname, job_result, ip_job_result>>
threadVars == <<thread, resolved>>
vars == <<threads, outcome, ip_fifo, current_job, ip_cache, main, jobVars, threadVars>>

Outcomes == {"notAsked", "waiting", "error", "lost"} \cup Names
Places == {"none", "created", "waiting", "woken", "resolving", "storing", "stored",
           "finishing", "finished"}
\* From the end of one wait to the next.
MutexHeld == thread \in {"resolving", "storing", "stored", "finishing", "finished"}

(* Every variable keeps its type. *)
TypeOK ==
  /\ threads \in BOOLEAN /\ main \in {"loop", "job_start", "mutex"}
  /\ outcome \in [Requests -> Outcomes]
  /\ ip_fifo \in Seq(Requests) /\ current_job \in Requests \cup {Nothing}
  /\ ip_cache \in [Names -> Seq([ips : Names, fresh : BOOLEAN])]
  /\ ip_job_done \in BOOLEAN /\ job_result \in BOOLEAN
  /\ job_hostname \in Names \cup {Nothing} /\ ip_job_result \in Names \cup {Nothing}
  /\ thread \in Places /\ resolved \in Names \cup {Nothing}

Init ==
  /\ threads \in use_threads
  /\ outcome = [r \in Requests |-> "notAsked"]
  /\ ip_fifo = <<>> /\ current_job = Nothing /\ main = "loop"
  /\ ip_cache = [n \in Names |-> <<>>]
  /\ ip_job_done = TRUE /\ job_result = FALSE
  /\ job_hostname = Nothing /\ ip_job_result = Nothing
  /\ thread = "none" /\ resolved = Nothing

\* gethostbyname: a name of 256 characters is no host name, any other may or
\* may not be found.
GetHostByName(n) == IF n \in LongNames THEN {Nothing} ELSE {n, Nothing}

-----------------------------------------------------------------------------
(* The cache. *)

\* get_entry_cached_immediate finds a fresh entry,
Hit(n) == ip_cache[n] # <<>> /\ Head(ip_cache[n]).fresh
\* or removes one that is too old: a binding it had hidden shows up again.
Forget(n) == IF ip_cache[n] = <<>> THEN ip_cache ELSE [ip_cache EXCEPT ![n] = Tail(@)]
Entry(ips) == [ips |-> ips, fresh |-> TRUE]
Add(cache, n, ips) == [cache EXCEPT ![n] = <<Entry(ips)>> \o @]
Refresh(cache, n) == IF cache[n] = <<>> THEN Add(cache, n, n) ELSE [cache EXCEPT ![n][1] = Entry(n)]

\* An hour has passed since the oldest fresh entry of a name was made.
Expire(n) ==
  /\ \E i \in 1 .. Len(ip_cache[n]) :
       /\ ip_cache[n][i].fresh
       /\ \A j \in (i + 1) .. Len(ip_cache[n]) : ~ip_cache[n][j].fresh
       /\ ip_cache' = [ip_cache EXCEPT ![n][i].fresh = FALSE]
  /\ UNCHANGED <<threads, outcome, ip_fifo, current_job, main, jobVars, threadVars>>

\* Any part of the daemon may resolve a name at once, without the thread; if
\* that fails an old entry is good enough.
FromName(n) ==
  /\ main = "loop"
  /\ ~Hit(n) /\ n \in GetHostByName(n)
  /\ ip_cache' = Refresh(ip_cache, n)
  /\ UNCHANGED <<threads, outcome, ip_fifo, current_job, main, jobVars, threadVars>>

-----------------------------------------------------------------------------
(* The event loop. *)

Answer(r, a) == outcome' = [outcome EXCEPT ![r] = a]
AnswerFromCache(r) == Hit(NameOf[r]) /\ Answer(r, Head(ip_cache[NameOf[r]]).ips)

AsyncIp(r) ==
  /\ main = "loop" /\ outcome[r] = "notAsked"
  /\ \/ AnswerFromCache(r) /\ UNCHANGED <<ip_fifo, ip_cache>>
     \/ /\ ~Hit(NameOf[r])
        /\ Answer(r, "waiting")
        /\ ip_cache' = Forget(NameOf[r])
        /\ ip_fifo' = Append(ip_fifo, r)
  /\ UNCHANGED <<threads, current_job, main, jobVars, threadVars>>

\* Mutant: the request is read but stays in the Fifo.
Peek(r) ==
  /\ main = "loop" /\ current_job = Nothing
  /\ ip_fifo # <<>> /\ r = Head(ip_fifo)
  /\ UNCHANGED ip_fifo
\* The timer's loop, without a current job.
Take(r) ==
  /\ main = "loop" /\ current_job = Nothing
  /\ ip_fifo # <<>> /\ r = Head(ip_fifo)
  /\ ip_fifo' = Tail(ip_fifo)

\* The name of the request is in the cache by now.
TakeCached(r) ==
  /\ Take(r) /\ AnswerFromCache(r)
  /\ UNCHANGED <<threads, current_job, ip_cache, main, jobVars, threadVars>>

TakeJob(r) ==
  /\ Take(r) /\ threads /\ ~Hit(NameOf[r])
  /\ ip_cache' = Forget(NameOf[r])
  /\ current_job' = r /\ main' = "job_start"
  /\ UNCHANGED <<threads, outcome, jobVars, threadVars>>

\* Without threads the event loop resolves the name itself. If it fails,
\* from_name raises Not_found before f is called, and ferr is not called.
TakeBlocking(r) ==
  /\ Take(r) /\ ~threads /\ ~Hit(NameOf[r])
  /\ LET n == NameOf[r] IN
     \E found \in GetHostByName(n) :
       IF found = Nothing
       THEN /\ ip_cache' = Forget(n)
            /\ Answer(r, IF Forget(n)[n] = <<>> THEN "lost" ELSE Head(Forget(n)[n]).ips)
       ELSE ip_cache' = Refresh(Forget(n), n) /\ Answer(r, n)
  /\ UNCHANGED <<threads, current_job, main, jobVars, threadVars>>

\* ml_ip_job_start.
RejectLongName ==
  /\ main = "job_start" /\ NameOf[current_job] \in LongNames
  /\ job_result' = TRUE /\ ip_job_done' = TRUE
  /\ main' = "loop"
  /\ UNCHANGED <<threads, outcome, ip_fifo, current_job, ip_cache, job_hostname, ip_job_result,
                 threadVars>>

CopyHostname ==
  /\ main = "job_start" /\ NameOf[current_job] \notin LongNames
  /\ job_hostname' = NameOf[current_job]
  /\ thread' = IF thread = "none" THEN "created" ELSE thread
  /\ main' = "mutex"
  /\ UNCHANGED <<threads, outcome, ip_fifo, current_job, ip_cache, ip_job_done, job_result,
                 ip_job_result, resolved>>

\* The signal is lost when the thread is not waiting.
SignalJob ==
  /\ main = "mutex" /\ ~MutexHeld
  /\ ip_job_done' = FALSE
  /\ thread' = IF thread = "waiting" THEN "woken" ELSE thread
  /\ main' = "loop"
  /\ UNCHANGED <<threads, outcome, ip_fifo, current_job, ip_cache, job_hostname, job_result,
                 ip_job_result, resolved>>

\* Mutant: the flag is not looked at.
AlwaysDone == TRUE
\* ml_ip_job_done.
JobDone == ip_job_done

\* Mutant: an empty list has a first address.
SomeAddress == FALSE
\* get_non_local_ip raises Not_found.
NoAddress == ip_job_result = Nothing

\* The timer's loop, with a current job that is done.
EndJob ==
  /\ main = "loop" /\ current_job # Nothing /\ JobDone
  /\ current_job' = Nothing
  /\ LET n == NameOf[current_job] IN
     CASE ~job_result -> Answer(current_job, "error") /\ UNCHANGED ip_cache
       [] job_result /\ NoAddress ->   \* no handler is called
            Answer(current_job, "lost") /\ UNCHANGED ip_cache
       [] OTHER -> /\ ip_cache' = Add(ip_cache, n, ip_job_result)
                   /\ Answer(current_job, ip_job_result)
  /\ UNCHANGED <<threads, ip_fifo, main, jobVars, threadVars>>

-----------------------------------------------------------------------------
(* dns_thread. *)

Thread(from, to) ==
  /\ thread = from /\ thread' = to
  /\ UNCHANGED <<threads, outcome, ip_fifo, current_job, ip_cache, main, job_hostname>>

FirstWait == Thread("created", "waiting") /\ UNCHANGED <<jobVars, resolved>>

\* Mutant: pthread_cond_wait.
NoTimeout == FALSE /\ UNCHANGED vars
\* Ten seconds after the last.
Timeout == Thread("waiting", "woken") /\ UNCHANGED <<jobVars, resolved>>

NothingToDo == /\ ip_job_done
               /\ Thread("woken", "waiting") /\ UNCHANGED <<jobVars, resolved>>

BeginJob == /\ ~ip_job_done
            /\ Thread("woken", "resolving") /\ UNCHANGED <<jobVars, resolved>>

\* Mutant: the job is done when gethostbyname has returned.
ResolveAndTell ==
  /\ Thread("resolving", "storing")
  /\ resolved' \in GetHostByName(job_hostname) /\ ip_job_done' = TRUE
  /\ UNCHANGED <<job_result, ip_job_result>>
Resolve ==
  /\ Thread("resolving", "storing")
  /\ resolved' \in GetHostByName(job_hostname)
  /\ UNCHANGED jobVars

SaveHostEntry ==
  /\ Thread("storing", "stored")
  /\ ip_job_result' = IF resolved = Nothing THEN ip_job_result ELSE resolved
  /\ UNCHANGED <<ip_job_done, job_result, resolved>>

\* Mutant: a failure leaves the result of the job before.
KeepSuccess ==
  /\ Thread("stored", "finishing")
  /\ job_result' = (job_result \/ resolved # Nothing)
  /\ UNCHANGED <<ip_job_done, ip_job_result, resolved>>
SaveResult ==
  /\ Thread("stored", "finishing")
  /\ job_result' = (resolved # Nothing)
  /\ UNCHANGED <<ip_job_done, ip_job_result, resolved>>

FinishJob ==
  /\ Thread("finishing", "finished")
  /\ ip_job_done' = TRUE
  /\ UNCHANGED <<job_result, ip_job_result, resolved>>

NextWait == Thread("finished", "waiting") /\ UNCHANGED <<jobVars, resolved>>

-----------------------------------------------------------------------------
Timer == \/ \E r \in Requests : TakeCached(r) \/ TakeJob(r) \/ TakeBlocking(r)
         \/ RejectLongName \/ CopyHostname \/ SignalJob \/ EndJob

DnsThread == \/ FirstWait \/ Timeout \/ NothingToDo \/ BeginJob
             \/ Resolve \/ SaveHostEntry \/ SaveResult \/ FinishJob \/ NextWait

Environment == \/ \E r \in Requests : AsyncIp(r)
               \/ \E n \in Names : Expire(n) \/ FromName(n)

Next == Timer \/ DnsThread \/ Environment
Spec == Init /\ [][Next]_vars

\* The timer runs every tenth of a second; the system runs the thread, ends its
\* waits, and its resolver gives up some day.
FairSpec == Spec /\ WF_vars(Timer) /\ WF_vars(DnsThread)

-----------------------------------------------------------------------------
(* Properties. *)

(* The address a handler is given, and the one the cache keeps, is an      *)
(* address of the name that was asked for (ml_ip_job_done reads what the   *)
(* thread wrote without taking the mutex). Not so for a name that is too   *)
(* long: see LongNamesFail.                                                *)
AddressesBelong ==
  /\ \A r \in Requests : outcome[r] \in Names /\ NameOf[r] \notin LongNames
                          => outcome[r] = NameOf[r]
  /\ \A n \in Names \ LongNames : \A i \in 1 .. Len(ip_cache[n]) : ip_cache[n][i].ips = n

(* The event loop never waits for the mutex, in ml_ip_job_start, while the *)
(* thread that holds it is still inside gethostbyname: a slow name server  *)
(* does not stop the daemon.                                               *)
EventLoopNotBlocked == ~(main = "mutex" /\ thread \in {"resolving", "storing", "stored"})

(* A request that waits is in the Fifo or the current job, once: the timer *)
(* neither drops nor repeats one when jobs fail, are answered from the     *)
(* cache or by the thread.                                                 *)
WaitingIsQueued ==
  \A r \in Requests :
    LET places == {i \in 1 .. Len(ip_fifo) : ip_fifo[i] = r} IN
      IF outcome[r] # "waiting" THEN places = {} /\ current_job # r
      ELSE IF current_job = r THEN places = {}
      ELSE \E i \in places : places = {i}

(* The comment in ml_ip_job_start says of a long name "hostname too long - *)
(* fail immediately": no address is ever reported for one.                 *)
LongNamesFail == \A r \in Requests : NameOf[r] \in LongNames => outcome[r] \notin Names

(* Every request comes to an end: async_ip's caller waits for f or ferr.   *)
(* The first signal may find the thread not yet waiting; only the timeout  *)
(* of pthread_cond_timedwait makes up for it.                              *)
EveryRequestEnds == \A r \in Requests : outcome[r] = "waiting" ~> outcome[r] # "waiting"

(* The timer, ml_ip_job_start, dns_thread and ml_ip_job_done implement a   *)
(* worker that answers the job it was given, and that one only.            *)
AnswersTo(r) == IF NameOf[r] \in LongNames THEN Names \cup {"lost", "error"}
                ELSE {NameOf[r], "error"}
AnswerNow == IF current_job = Nothing \/ main # "loop" \/ ~ip_job_done THEN Nothing
             ELSE IF ~job_result THEN "error"
             ELSE IF ip_job_result = Nothing THEN "lost" ELSE ip_job_result
Worker == INSTANCE AsyncJob WITH
  Jobs <- Requests, Answers <- AnswersTo, NoJob <- Nothing, NoAnswer <- Nothing,
  job <- current_job, answer <- AnswerNow
ResolverIsAsyncJob == Worker!Spec
=============================================================================
