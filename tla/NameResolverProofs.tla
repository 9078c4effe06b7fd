------------------------- MODULE NameResolverProofs -------------------------
(***************************************************************************)
(* Proofs about NameResolver, for every set of requests and names.         *)
(***************************************************************************)
EXTENDS NameResolver, SequenceTheorems, TLAPS

-----------------------------------------------------------------------------
(* Requests in the Fifo. *)

Absent(q, r) == \A i \in 1 .. Len(q) : q[i] # r
Once(q, r) == \E i \in 1 .. Len(q) : q[i] = r /\ \A j \in 1 .. Len(q) : q[j] = r => j = i

\* Where a request r has to be, if o is its outcome, job the current job and q
\* the Fifo.
InPlace(r, o, job, q) ==
  IF o # "waiting" THEN Absent(q, r) /\ job # r
  ELSE IF job = r THEN Absent(q, r) ELSE Once(q, r)

LEMMA QueuedForm ==
  WaitingIsQueued <=> \A r \in Requests : InPlace(r, outcome[r], current_job, ip_fifo)
<1>1. ASSUME NEW r \in Requests
      PROVE  /\ Absent(ip_fifo, r) <=> {i \in 1 .. Len(ip_fifo) : ip_fifo[i] = r} = {}
             /\ Once(ip_fifo, r) <=> \E i \in {k \in 1 .. Len(ip_fifo) : ip_fifo[k] = r} :
                                       {k \in 1 .. Len(ip_fifo) : ip_fifo[k] = r} = {i}
  BY Zenon DEF Absent, Once
<1> QED BY <1>1 DEF WaitingIsQueued, InPlace

\* The same after a step.
LEMMA QueuedFormNext ==
  (\A r \in Requests : InPlace(r, outcome'[r], current_job', ip_fifo')) => WaitingIsQueued'
<1>1. ASSUME NEW r \in Requests
      PROVE  /\ Absent(ip_fifo', r) <=> {i \in 1 .. Len(ip_fifo') : ip_fifo'[i] = r} = {}
             /\ Once(ip_fifo', r) <=> \E i \in {k \in 1 .. Len(ip_fifo') : ip_fifo'[k] = r} :
                                        {k \in 1 .. Len(ip_fifo') : ip_fifo'[k] = r} = {i}
  BY Zenon DEF Absent, Once
<1> QED BY <1>1 DEF WaitingIsQueued, InPlace

LEMMA AppendPlaces ==
  ASSUME NEW S, NEW q \in Seq(S), NEW r \in S
  PROVE  /\ Absent(q, r) => Once(Append(q, r), r)
         /\ \A x \in S \ {r} : /\ Absent(q, x) => Absent(Append(q, r), x)
                               /\ Once(q, x) => Once(Append(q, r), x)
<1>1. /\ Len(q) \in Nat /\ Len(Append(q, r)) = Len(q) + 1
      /\ \A i \in 1 .. Len(q) : Append(q, r)[i] = q[i]
      /\ Append(q, r)[Len(q) + 1] = r
  BY AppendProperties, LenProperties
<1> QED BY <1>1 DEF Absent, Once

LEMMA TailPlaces ==
  ASSUME NEW S, NEW q \in Seq(S), q # <<>>
  PROVE  /\ Head(q) \in S /\ Tail(q) \in Seq(S) /\ ~Absent(q, Head(q))
         /\ Once(q, Head(q)) => Absent(Tail(q), Head(q))
         /\ \A x \in S \ {Head(q)} : /\ Absent(q, x) => Absent(Tail(q), x)
                                     /\ Once(q, x) => Once(Tail(q), x)
<1>1. /\ Len(q) \in Nat /\ Len(q) > 0 /\ Head(q) \in S /\ Tail(q) \in Seq(S)
      /\ Len(Tail(q)) = Len(q) - 1
      /\ \A i \in 1 .. Len(Tail(q)) : Tail(q)[i] = q[i + 1]
      /\ Head(q) = q[1]
  BY HeadTailProperties, LenProperties, EmptySeq
<1>2. ~Absent(q, Head(q))
  BY <1>1 DEF Absent
<1>3. Once(q, Head(q)) => Absent(Tail(q), Head(q))
  BY <1>1 DEF Absent, Once
<1>4. ASSUME NEW x \in S \ {Head(q)}, Absent(q, x)
      PROVE  Absent(Tail(q), x)
  BY <1>1, <1>4 DEF Absent
<1>5. ASSUME NEW x \in S \ {Head(q)}, Once(q, x)
      PROVE  Once(Tail(q), x)
  <2>1. PICK i \in 1 .. Len(q) : q[i] = x /\ \A j \in 1 .. Len(q) : q[j] = x => j = i
    BY <1>5 DEF Once
  <2>2. i - 1 \in 1 .. Len(Tail(q)) /\ Tail(q)[i - 1] = x
    BY <1>1, <2>1
  <2>3. \A j \in 1 .. Len(Tail(q)) : Tail(q)[j] = x => j = i - 1
    BY <1>1, <2>1
  <2> QED BY <2>2, <2>3 DEF Once
<1> QED BY <1>1, <1>2, <1>3, <1>4, <1>5

-----------------------------------------------------------------------------
(* The cache. *)

Bindings == [ips : Names, fresh : BOOLEAN]
Caches == [Names -> Seq(Bindings)]
\* What a cache has under a name is the address of this name.
Sound(cache) ==
  \A n \in Names \ LongNames : \A i \in 1 .. Len(cache[n]) : cache[n][i].ips = n

LEMMA EntryType ==
  ASSUME NEW n \in Names
  PROVE  Entry(n) \in Bindings /\ Entry(n).ips = n
BY DEF Entry, Bindings

LEMMA HeadSound ==
  ASSUME NEW cache \in Caches, NEW n \in Names, cache[n] # <<>>
  PROVE  /\ Head(cache[n]).ips \in Names
         /\ Sound(cache) /\ n \notin LongNames => Head(cache[n]).ips = n
<1>1. /\ cache[n] \in Seq(Bindings)
      /\ Head(cache[n]) \in Bindings /\ Head(cache[n]) = cache[n][1] /\ 1 \in 1 .. Len(cache[n])
  BY HeadTailProperties, EmptySeq, LenProperties DEF Caches
<1> QED BY <1>1 DEF Sound, Bindings

\* Another list of bindings for one name.
LEMMA ReplaceSound ==
  ASSUME NEW cache \in Caches, NEW n \in Names, NEW q \in Seq(Bindings),
         Sound(cache) => n \in LongNames \/ \A i \in 1 .. Len(q) : q[i].ips = n
  PROVE  /\ [cache EXCEPT ![n] = q] \in Caches
         /\ Sound(cache) => Sound([cache EXCEPT ![n] = q])
BY DEF Caches, Sound

LEMMA ForgetSound ==
  ASSUME ip_cache \in Caches, NEW n \in Names
  PROVE  Forget(n) \in Caches /\ (Sound(ip_cache) => Sound(Forget(n)))
<1>1. CASE ip_cache[n] = <<>>
  BY <1>1 DEF Forget
<1>2. CASE ip_cache[n] # <<>>
  <2>1. /\ ip_cache[n] \in Seq(Bindings) /\ Len(ip_cache[n]) \in Nat
        /\ Tail(ip_cache[n]) \in Seq(Bindings)
        /\ Len(Tail(ip_cache[n])) = Len(ip_cache[n]) - 1
        /\ \A i \in 1 .. Len(Tail(ip_cache[n])) : Tail(ip_cache[n])[i] = ip_cache[n][i + 1]
    BY <1>2, HeadTailProperties, EmptySeq, LenProperties DEF Caches
  <2>2. Sound(ip_cache) => n \in LongNames
                            \/ \A i \in 1 .. Len(Tail(ip_cache[n])) : Tail(ip_cache[n])[i].ips = n
    BY <2>1 DEF Sound
  <2>3. Forget(n) = [ip_cache EXCEPT ![n] = Tail(ip_cache[n])]
    BY <1>2 DEF Forget
  <2>4. /\ [ip_cache EXCEPT ![n] = Tail(ip_cache[n])] \in Caches
        /\ Sound(ip_cache) => Sound([ip_cache EXCEPT ![n] = Tail(ip_cache[n])])
    BY <2>1, <2>2, ReplaceSound, Zenon
  <2> QED BY <2>3, <2>4, Zenon
<1> QED BY <1>1, <1>2

LEMMA AddSound ==
  ASSUME NEW cache \in Caches, NEW n \in Names, NEW a \in Names, n \in LongNames \/ a = n
  PROVE  Add(cache, n, a) \in Caches /\ (Sound(cache) => Sound(Add(cache, n, a)))
<1> DEFINE q == <<Entry(a)>> \o cache[n]
<1>1. cache[n] \in Seq(Bindings) /\ <<Entry(a)>> \in Seq(Bindings) /\ Len(<<Entry(a)>>) = 1
      /\ Len(cache[n]) \in Nat /\ <<Entry(a)>>[1] = Entry(a)
  BY EntryType, LenProperties DEF Caches
<1>2. q \in Seq(Bindings) /\ Len(q) = 1 + Len(cache[n])
      /\ \A i \in 1 .. Len(q) : q[i] = IF i <= 1 THEN <<Entry(a)>>[i] ELSE cache[n][i - 1]
  BY <1>1, ConcatProperties
<1>3. Sound(cache) => n \in LongNames \/ \A i \in 1 .. Len(q) : q[i].ips = n
  BY <1>1, <1>2, EntryType DEF Sound
<1>4. Add(cache, n, a) = [cache EXCEPT ![n] = q]
  BY DEF Add
<1> HIDE DEF q
<1>5. [cache EXCEPT ![n] = q] \in Caches /\ (Sound(cache) => Sound([cache EXCEPT ![n] = q]))
  BY <1>2, <1>3, ReplaceSound, Zenon
<1> QED BY <1>4, <1>5, Zenon

LEMMA RefreshSound ==
  ASSUME NEW cache \in Caches, NEW n \in Names
  PROVE  Refresh(cache, n) \in Caches /\ (Sound(cache) => Sound(Refresh(cache, n)))
<1>1. CASE cache[n] = <<>>
  BY <1>1, AddSound DEF Refresh
<1>2. CASE cache[n] # <<>>
  <2> DEFINE q == [cache[n] EXCEPT ![1] = Entry(n)]
  <2>1. cache[n] \in Seq(Bindings) /\ 1 \in 1 .. Len(cache[n]) /\ Entry(n) \in Bindings
    BY <1>2, EmptySeq, LenProperties, EntryType DEF Caches
  <2>2. q \in Seq(Bindings) /\ Len(q) = Len(cache[n])
        /\ \A i \in 1 .. Len(cache[n]) : q[i] = IF i = 1 THEN Entry(n) ELSE cache[n][i]
    BY <2>1, ExceptSeq
  <2>3. Sound(cache) => n \in LongNames \/ \A i \in 1 .. Len(q) : q[i].ips = n
    BY <2>2, EntryType DEF Sound
  <2>4. Refresh(cache, n) = [cache EXCEPT ![n] = q]
    BY <1>2 DEF Refresh
  <2> HIDE DEF q
  <2> QED BY <2>2, <2>3, <2>4, ReplaceSound
<1> QED BY <1>1, <1>2

LEMMA ExpireSound ==
  ASSUME ip_cache \in Caches, NEW n \in Names, Expire(n)
  PROVE  ip_cache' \in Caches /\ (Sound(ip_cache) => Sound(ip_cache'))
<1>1. PICK i \in 1 .. Len(ip_cache[n]) :
        ip_cache' = [ip_cache EXCEPT ![n][i].fresh = FALSE]
  BY DEF Expire
<1> DEFINE e == [ip_cache[n][i] EXCEPT !.fresh = FALSE]
           q == [ip_cache[n] EXCEPT ![i] = e]
<1>2. ip_cache[n] \in Seq(Bindings) /\ ip_cache[n][i] \in Bindings
  BY ElementOfSeq DEF Caches
<1>3. e \in Bindings /\ e.ips = ip_cache[n][i].ips
  BY <1>2 DEF Bindings
<1>4. q \in Seq(Bindings) /\ Len(q) = Len(ip_cache[n])
      /\ \A k \in 1 .. Len(ip_cache[n]) : q[k] = IF k = i THEN e ELSE ip_cache[n][k]
  <2> HIDE DEF e
  <2> QED BY <1>2, <1>3, ExceptSeq
<1>5. Sound(ip_cache) => n \in LongNames \/ \A k \in 1 .. Len(q) : q[k].ips = n
  <2> HIDE DEF e, q
  <2> QED BY <1>3, <1>4 DEF Sound
<1>6. ip_cache' = [ip_cache EXCEPT ![n] = q]
  BY <1>1
<1> HIDE DEF q
<1> QED BY <1>4, <1>5, <1>6, ReplaceSound

-----------------------------------------------------------------------------
(* The invariant. *)

\* ip_job_done is false only between the signal and the end of the job, and the
\* thread works only then: this is what stands in for the mutex that
\* ml_ip_job_done does not take.
Linked ==
  /\ main # "loop" => current_job # Nothing /\ ip_job_done
  /\ main = "mutex" => /\ job_hostname = NameOf[current_job]
                       /\ NameOf[current_job] \notin LongNames
  /\ ~ip_job_done => /\ main = "loop" /\ current_job # Nothing
                     /\ job_hostname = NameOf[current_job]
                     /\ NameOf[current_job] \notin LongNames
  /\ thread \in {"resolving", "storing", "stored", "finishing"} => ~ip_job_done

\* What the thread has found so far, and what is left of it when it is done.
Found ==
  /\ thread \in {"storing", "stored", "finishing"} => resolved \in {Nothing, job_hostname}
  /\ thread \in {"stored", "finishing"} /\ resolved # Nothing => ip_job_result = resolved
  /\ thread = "finishing" => job_result = (resolved # Nothing)
  /\ current_job # Nothing /\ main = "loop" /\ ip_job_done /\ job_result
       /\ NameOf[current_job] \notin LongNames
     => ip_job_result = NameOf[current_job]

\* The types of the variables that ml_ip_job_start and the thread change.
ThreadTypes ==
  /\ main \in {"loop", "job_start", "mutex"}
  /\ ip_job_done \in BOOLEAN /\ job_result \in BOOLEAN
  /\ job_hostname \in Names \cup {Nothing} /\ ip_job_result \in Names \cup {Nothing}
  /\ thread \in Places /\ resolved \in Names \cup {Nothing}

ResolverInv == TypeOK /\ WaitingIsQueued /\ AddressesBelong /\ Linked /\ Found

\* WaitingIsQueued and AddressesBelong, in the terms of the lemmas above.
LEMMA InvForm ==
  /\ TypeOK => ip_cache \in Caches /\ ip_fifo \in Seq(Requests)
  /\ AddressesBelong <=>
       /\ \A r \in Requests : outcome[r] \in Names /\ NameOf[r] \notin LongNames
                              => outcome[r] = NameOf[r]
       /\ Sound(ip_cache)
BY DEF TypeOK, AddressesBelong, Sound, Caches, Bindings

LEMMA ThreadTypesNext ==
  ASSUME TypeOK, ThreadTypes', UNCHANGED <<threads, outcome, ip_fifo, current_job, ip_cache>>
  PROVE  TypeOK'
BY Zenon DEF TypeOK, ThreadTypes

LEMMA InitInv == Init => ResolverInv
<1> SUFFICES ASSUME Init PROVE ResolverInv
  OBVIOUS
<1>1. TypeOK
  <2>1. ip_cache \in [Names -> Seq([ips : Names, fresh : BOOLEAN])]
    BY EmptySeq DEF Init
  <2>2. outcome \in [Requests -> Outcomes]
    BY DEF Init, Outcomes
  <2>3. threads \in BOOLEAN /\ ip_fifo \in Seq(Requests)
    BY NamesAssumption, EmptySeq DEF Init
  <2> QED BY <2>1, <2>2, <2>3, Zenon DEF Init, TypeOK, Places
<1>2. WaitingIsQueued
  <2>1. ip_fifo = <<>> /\ Len(ip_fifo) = 0
    BY DEF Init
  <2> QED BY <2>1, NamesAssumption, QueuedForm DEF Init, InPlace, Absent
<1>3. AddressesBelong
  <2>1. \A n \in Names : Len(ip_cache[n]) = 0
    BY DEF Init
  <2> QED BY <2>1, NamesAssumption DEF Init, AddressesBelong
<1>4. Linked /\ Found
  BY DEF Init, Linked, Found
<1> QED BY <1>1, <1>2, <1>3, <1>4 DEF ResolverInv

-----------------------------------------------------------------------------
(* Steps of the event loop. *)

LEMMA OutcomeType ==
  ASSUME TypeOK, NEW r \in Requests, NEW a \in Outcomes, Answer(r, a)
  PROVE  /\ outcome' \in [Requests -> Outcomes] /\ outcome'[r] = a
         /\ \A x \in Requests \ {r} : outcome'[x] = outcome[x]
BY DEF TypeOK, Answer

\* A request is answered with an address of its name, or with none.
LEMMA AnswerSound ==
  ASSUME ResolverInv, NEW r \in Requests, NEW a \in Outcomes, Answer(r, a),
         a \in Names /\ NameOf[r] \notin LongNames => a = NameOf[r],
         Sound(ip_cache')
  PROVE  AddressesBelong'
BY OutcomeType, InvForm DEF ResolverInv, AddressesBelong, Sound

\* The first request of the Fifo is taken.
LEMMA TakePlaces ==
  ASSUME ResolverInv, NEW r, Take(r)
  PROVE  /\ r \in Requests /\ outcome[r] = "waiting" /\ current_job = Nothing /\ main = "loop"
         /\ ip_fifo' \in Seq(Requests) /\ Absent(ip_fifo', r)
         /\ \A x \in Requests \ {r} : InPlace(x, outcome[x], Nothing, ip_fifo')
<1>1. /\ ip_fifo \in Seq(Requests) /\ ip_fifo # <<>> /\ r = Head(ip_fifo)
      /\ ip_fifo' = Tail(ip_fifo) /\ current_job = Nothing /\ main = "loop"
  BY DEF ResolverInv, TypeOK, Take
<1>2. \A x \in Requests : InPlace(x, outcome[x], Nothing, ip_fifo)
  BY <1>1, QueuedForm DEF ResolverInv
<1>3. r \in Requests /\ ~Absent(ip_fifo, r)
  BY <1>1, TailPlaces
<1>4. outcome[r] = "waiting" /\ Once(ip_fifo, r)
  BY <1>2, <1>3, NamesAssumption DEF InPlace
<1>5. /\ ip_fifo' \in Seq(Requests) /\ Absent(ip_fifo', r)
      /\ \A x \in Requests \ {r} : /\ Absent(ip_fifo, x) => Absent(ip_fifo', x)
                                   /\ Once(ip_fifo, x) => Once(ip_fifo', x)
  BY <1>1, <1>4, TailPlaces
<1>6. \A x \in Requests \ {r} : InPlace(x, outcome[x], Nothing, ip_fifo')
  BY <1>2, <1>5 DEF InPlace
<1> QED BY <1>1, <1>3, <1>4, <1>5, <1>6

LEMMA TakeCachedInv ==
  ASSUME ResolverInv, NEW r \in Requests, TakeCached(r)
  PROVE  ResolverInv'
<1> DEFINE a == Head(ip_cache[NameOf[r]]).ips
<1>1. Take(r) /\ Answer(r, a) /\ ip_cache[NameOf[r]] # <<>>
      /\ UNCHANGED <<threads, current_job, ip_cache, main, jobVars, threadVars>>
  BY DEF TakeCached, AnswerFromCache, Hit
<1>2. NameOf[r] \in Names /\ ip_cache \in Caches /\ Sound(ip_cache)
  BY NamesAssumption, InvForm DEF ResolverInv
<1>3. a \in Names /\ (NameOf[r] \notin LongNames => a = NameOf[r])
  BY <1>1, <1>2, HeadSound
<1> HIDE DEF a
<1>4. a \in Outcomes /\ a # "waiting"
  BY <1>3, NamesAssumption DEF Outcomes
<1>5. AddressesBelong'
  BY <1>1, <1>2, <1>3, <1>4, AnswerSound
<1>6. WaitingIsQueued'
  <2>1. \A x \in Requests : InPlace(x, outcome'[x], current_job', ip_fifo')
    BY <1>1, <1>4, TakePlaces, OutcomeType, NamesAssumption DEF InPlace, ResolverInv
  <2> QED BY <2>1, QueuedFormNext
<1>7. TypeOK'
  BY <1>1, <1>4, TakePlaces, OutcomeType DEF ResolverInv, TypeOK, jobVars, threadVars
<1>8. Linked' /\ Found'
  BY <1>1, TakePlaces DEF ResolverInv, Linked, Found, jobVars, threadVars
<1> QED BY <1>5, <1>6, <1>7, <1>8 DEF ResolverInv

LEMMA TakeJobInv ==
  ASSUME ResolverInv, NEW r \in Requests, TakeJob(r)
  PROVE  ResolverInv'
<1>1. /\ Take(r) /\ ip_cache' = Forget(NameOf[r]) /\ current_job' = r /\ main' = "job_start"
      /\ UNCHANGED <<threads, outcome, jobVars, threadVars>>
  BY DEF TakeJob
<1>2. ip_cache' \in Caches /\ Sound(ip_cache')
  BY <1>1, NamesAssumption, InvForm, ForgetSound DEF ResolverInv
<1>3. AddressesBelong'
  BY <1>1, <1>2 DEF ResolverInv, AddressesBelong, Sound
<1>4. WaitingIsQueued'
  <2>1. \A x \in Requests : InPlace(x, outcome'[x], current_job', ip_fifo')
    BY <1>1, TakePlaces, NamesAssumption DEF InPlace
  <2> QED BY <2>1, QueuedFormNext
<1>5. TypeOK'
  <2>1. ip_cache' \in [Names -> Seq([ips : Names, fresh : BOOLEAN])]
    BY <1>2 DEF Caches, Bindings
  <2> QED BY <1>1, <2>1, TakePlaces DEF ResolverInv, TypeOK, jobVars, threadVars
<1>6. ip_job_done
  BY <1>1, TakePlaces DEF ResolverInv, Linked
<1>7. Linked' /\ Found'
  BY <1>1, <1>6, NamesAssumption DEF ResolverInv, Linked, Found, jobVars, threadVars
<1> QED BY <1>3, <1>4, <1>5, <1>7 DEF ResolverInv

LEMMA TakeBlockingInv ==
  ASSUME ResolverInv, NEW r \in Requests, TakeBlocking(r)
  PROVE  ResolverInv'
<1> DEFINE n == NameOf[r]
           first == IF Forget(n)[n] = <<>> THEN "lost" ELSE Head(Forget(n)[n]).ips
<1>1. /\ Take(r)
      /\ \/ ip_cache' = Forget(n) /\ Answer(r, first)
         \/ ip_cache' = Refresh(Forget(n), n) /\ Answer(r, n)
      /\ UNCHANGED <<threads, current_job, main, jobVars, threadVars>>
  <2>1. \A a \in GetHostByName(n) : a # Nothing => a = n
    BY DEF GetHostByName
  <2> QED BY <2>1 DEF TakeBlocking
<1>2. n \in Names
  BY NamesAssumption
<1>3. Forget(n) \in Caches /\ Sound(Forget(n))
  BY <1>2, InvForm, ForgetSound DEF ResolverInv
<1>4. Refresh(Forget(n), n) \in Caches /\ Sound(Refresh(Forget(n), n))
  BY <1>2, <1>3, RefreshSound
<1>5. /\ first \in Names \cup {"lost"}
      /\ first \in Names /\ n \notin LongNames => first = n
  <2>1. CASE Forget(n)[n] = <<>>
    BY <2>1, NamesAssumption
  <2>2. CASE Forget(n)[n] # <<>>
    BY <2>2, <1>2, <1>3, HeadSound
  <2> QED BY <2>1, <2>2
<1> HIDE DEF first
<1>6. PICK a \in Names \cup {"lost"} : /\ a \in Names /\ n \notin LongNames => a = n
                                       /\ Answer(r, a)
  BY <1>1, <1>2, <1>5
<1>7. a \in Outcomes /\ a # "waiting"
  BY NamesAssumption DEF Outcomes
<1>8. ip_cache' \in Caches /\ Sound(ip_cache')
  BY <1>1, <1>3, <1>4
<1>9. AddressesBelong'
  BY <1>6, <1>7, <1>8, AnswerSound
<1>10. WaitingIsQueued'
  <2>1. \A x \in Requests : InPlace(x, outcome'[x], current_job', ip_fifo')
    BY <1>1, <1>6, <1>7, TakePlaces, OutcomeType, NamesAssumption DEF InPlace, ResolverInv
  <2> QED BY <2>1, QueuedFormNext
<1>11. TypeOK'
  <2>1. ip_cache' \in [Names -> Seq([ips : Names, fresh : BOOLEAN])]
    BY <1>8 DEF Caches, Bindings
  <2> QED BY <1>1, <1>6, <1>7, <2>1, TakePlaces, OutcomeType
          DEF ResolverInv, TypeOK, jobVars, threadVars
<1>12. Linked' /\ Found'
  BY <1>1, TakePlaces DEF ResolverInv, Linked, Found, jobVars, threadVars
<1> QED BY <1>9, <1>10, <1>11, <1>12 DEF ResolverInv

LEMMA AsyncIpInv ==
  ASSUME ResolverInv, NEW r \in Requests, AsyncIp(r)
  PROVE  ResolverInv'
<1>1. /\ outcome[r] = "notAsked"
      /\ UNCHANGED <<threads, current_job, main, jobVars, threadVars>>
  BY DEF AsyncIp
<1>2. NameOf[r] \in Names /\ ip_cache \in Caches /\ Sound(ip_cache) /\ ip_fifo \in Seq(Requests)
  BY NamesAssumption, InvForm DEF ResolverInv
<1>3. /\ \A x \in Requests : InPlace(x, outcome[x], current_job, ip_fifo)
      /\ Absent(ip_fifo, r) /\ current_job # r
  BY <1>1, QueuedForm DEF ResolverInv, InPlace
<1>4. PICK a \in Outcomes :
        /\ Answer(r, a) /\ (a \in Names /\ NameOf[r] \notin LongNames => a = NameOf[r])
        /\ ip_cache' \in Caches /\ Sound(ip_cache') /\ ip_fifo' \in Seq(Requests)
        /\ ip_fifo' = IF a = "waiting" THEN Append(ip_fifo, r) ELSE ip_fifo
  <2>1. CASE AnswerFromCache(r) /\ UNCHANGED <<ip_fifo, ip_cache>>
    <3> DEFINE a == Head(ip_cache[NameOf[r]]).ips
    <3>1. Answer(r, a) /\ ip_cache[NameOf[r]] # <<>>
      BY <2>1 DEF AnswerFromCache, Hit
    <3>2. a \in Names /\ (NameOf[r] \notin LongNames => a = NameOf[r])
      BY <3>1, <1>2, HeadSound
    <3> HIDE DEF a
    <3>3. a \in Outcomes /\ a # "waiting"
      BY <3>2, NamesAssumption DEF Outcomes
    <3> QED BY <2>1, <3>1, <3>2, <3>3, <1>2
  <2>2. CASE /\ Answer(r, "waiting") /\ ip_cache' = Forget(NameOf[r])
             /\ ip_fifo' = Append(ip_fifo, r)
    <3>1. ip_cache' \in Caches /\ Sound(ip_cache')
      BY <2>2, <1>2, ForgetSound
    <3>2. Append(ip_fifo, r) \in Seq(Requests)
      BY <1>2, AppendProperties
    <3>3. "waiting" \in Outcomes /\ "waiting" \notin Names
      BY NamesAssumption DEF Outcomes
    <3> QED BY <2>2, <3>1, <3>2, <3>3
  <2> QED BY <2>1, <2>2 DEF AsyncIp
<1>5. AddressesBelong'
  BY <1>4, AnswerSound
<1>6. WaitingIsQueued'
  <2>1. /\ a # "waiting" => Absent(ip_fifo', r)
        /\ a = "waiting" => Once(ip_fifo', r)
    BY <1>2, <1>3, <1>4, AppendPlaces
  <2>2. \A x \in Requests \ {r} : /\ Absent(ip_fifo, x) => Absent(ip_fifo', x)
                                  /\ Once(ip_fifo, x) => Once(ip_fifo', x)
    BY <1>2, <1>4, AppendPlaces
  <2>3. /\ outcome'[r] = a /\ \A x \in Requests \ {r} : outcome'[x] = outcome[x]
    BY <1>4, OutcomeType DEF ResolverInv
  <2>4. InPlace(r, outcome'[r], current_job', ip_fifo')
    BY <1>1, <1>3, <2>1, <2>3 DEF InPlace
  <2>5. \A x \in Requests \ {r} : InPlace(x, outcome'[x], current_job', ip_fifo')
    <3> SUFFICES ASSUME NEW x \in Requests \ {r}
                 PROVE  InPlace(x, outcome'[x], current_job', ip_fifo')
      OBVIOUS
    <3>1. outcome'[x] = outcome[x] /\ current_job' = current_job
          /\ InPlace(x, outcome[x], current_job, ip_fifo)
      BY <1>1, <1>3, <2>3
    <3> QED BY <3>1, <2>2 DEF InPlace
  <2> QED BY <2>4, <2>5, QueuedFormNext
<1>7. TypeOK'
  <2>1. ip_cache' \in [Names -> Seq([ips : Names, fresh : BOOLEAN])]
    BY <1>4 DEF Caches, Bindings
  <2> QED BY <1>1, <1>4, <2>1, OutcomeType DEF ResolverInv, TypeOK, jobVars, threadVars
<1>8. Linked' /\ Found'
  BY <1>1 DEF ResolverInv, Linked, Found, jobVars, threadVars
<1> QED BY <1>5, <1>6, <1>7, <1>8 DEF ResolverInv

LEMMA CacheInv ==
  ASSUME ResolverInv, NEW n \in Names, Expire(n) \/ FromName(n)
  PROVE  ResolverInv'
<1>1. UNCHANGED <<threads, outcome, ip_fifo, current_job, main, jobVars, threadVars>>
  BY DEF Expire, FromName
<1>2. ip_cache \in Caches /\ Sound(ip_cache)
  BY InvForm DEF ResolverInv
<1>3. ip_cache' \in Caches /\ Sound(ip_cache')
  <2>1. CASE Expire(n)
    BY <2>1, <1>2, ExpireSound
  <2>2. CASE FromName(n)
    BY <2>2, <1>2, RefreshSound DEF FromName
  <2> QED BY <2>1, <2>2
<1>4. TypeOK'
  <2>1. ip_cache' \in [Names -> Seq([ips : Names, fresh : BOOLEAN])]
    BY <1>3 DEF Caches, Bindings
  <2> QED BY <1>1, <2>1 DEF ResolverInv, TypeOK, jobVars, threadVars
<1>5. AddressesBelong'
  BY <1>1, <1>3 DEF ResolverInv, AddressesBelong, Sound
<1>6. WaitingIsQueued' /\ Linked' /\ Found'
  BY <1>1 DEF ResolverInv, WaitingIsQueued, Linked, Found, jobVars, threadVars
<1> QED BY <1>4, <1>5, <1>6 DEF ResolverInv

\* ml_ip_job_start.
LEMMA JobStartInv ==
  ASSUME ResolverInv, RejectLongName \/ CopyHostname \/ SignalJob
  PROVE  ResolverInv'
<1>1. UNCHANGED <<threads, outcome, ip_fifo, current_job, ip_cache>>
  BY DEF RejectLongName, CopyHostname, SignalJob
<1>2. WaitingIsQueued' /\ AddressesBelong'
  BY <1>1 DEF ResolverInv, WaitingIsQueued, AddressesBelong
<1>3. TypeOK'
  <2>1. ThreadTypes /\ TypeOK
    BY DEF ResolverInv, TypeOK, ThreadTypes
  <2>2. main # "loop" => NameOf[current_job] \in Names
    BY NamesAssumption DEF ResolverInv, TypeOK, Linked
  <2>3. ThreadTypes'
    BY <2>1, <2>2 DEF ThreadTypes, RejectLongName, CopyHostname, SignalJob, Places, threadVars
  <2> QED BY <1>1, <2>1, <2>3, ThreadTypesNext
<1>4. Linked' /\ Found'
  <2>1. CASE RejectLongName
    BY <2>1 DEF ResolverInv, Linked, Found, RejectLongName, threadVars
  <2>2. CASE CopyHostname
    BY <2>2 DEF ResolverInv, Linked, Found, CopyHostname
  <2>3. CASE SignalJob
    BY <2>3 DEF ResolverInv, Linked, Found, SignalJob, MutexHeld
  <2> QED BY <2>1, <2>2, <2>3
<1> QED BY <1>2, <1>3, <1>4 DEF ResolverInv

LEMMA EndJobInv ==
  ASSUME ResolverInv, EndJob
  PROVE  ResolverInv'
<1> DEFINE r == current_job
<1>1. /\ r \in Requests /\ NameOf[r] \in Names /\ ip_job_done /\ main = "loop"
      /\ current_job' = Nothing /\ UNCHANGED <<threads, ip_fifo, main, jobVars, threadVars>>
  BY NamesAssumption DEF ResolverInv, TypeOK, EndJob, JobDone
<1>2. ip_cache \in Caches /\ Sound(ip_cache)
  BY InvForm DEF ResolverInv
<1>3. /\ Absent(ip_fifo, r)
      /\ \A x \in Requests \ {r} : InPlace(x, outcome[x], Nothing, ip_fifo)
  BY <1>1, QueuedForm, NamesAssumption DEF ResolverInv, InPlace
<1>4. PICK a \in Names \cup {"error", "lost"} :
        /\ Answer(r, a) /\ (a \in Names /\ NameOf[r] \notin LongNames => a = NameOf[r])
        /\ ip_cache' \in Caches /\ Sound(ip_cache')
  <2>1. CASE ip_cache' = ip_cache /\ (Answer(r, "error") \/ Answer(r, "lost"))
    BY <2>1, <1>2, NamesAssumption
  <2>2. CASE /\ job_result /\ ip_job_result # Nothing
             /\ ip_cache' = Add(ip_cache, NameOf[r], ip_job_result) /\ Answer(r, ip_job_result)
    <3>1. ip_job_result \in Names /\ (NameOf[r] \notin LongNames => ip_job_result = NameOf[r])
      BY <2>2, <1>1, NamesAssumption DEF ResolverInv, TypeOK, Found
    <3> QED BY <2>2, <3>1, <1>1, <1>2, AddSound
  <2> QED BY <2>1, <2>2 DEF EndJob, NoAddress
<1>5. a \in Outcomes /\ a # "waiting"
  BY NamesAssumption DEF Outcomes
<1>6. AddressesBelong'
  BY <1>1, <1>4, <1>5, AnswerSound
<1>7. WaitingIsQueued'
  <2>1. /\ outcome'[r] = a /\ \A x \in Requests \ {r} : outcome'[x] = outcome[x]
    BY <1>1, <1>4, <1>5, OutcomeType DEF ResolverInv
  <2>2. \A x \in Requests : InPlace(x, outcome'[x], current_job', ip_fifo')
    BY <1>1, <1>3, <1>5, <2>1, NamesAssumption DEF InPlace
  <2> QED BY <2>2, QueuedFormNext
<1>8. TypeOK'
  <2>1. ip_cache' \in [Names -> Seq([ips : Names, fresh : BOOLEAN])]
    BY <1>4 DEF Caches, Bindings
  <2>2. outcome' \in [Requests -> Outcomes]
    BY <1>1, <1>4, <1>5, OutcomeType DEF ResolverInv
  <2> QED BY <1>1, <2>1, <2>2 DEF ResolverInv, TypeOK, jobVars, threadVars
<1>9. Linked' /\ Found'
  BY <1>1 DEF ResolverInv, Linked, Found, jobVars, threadVars
<1> QED BY <1>6, <1>7, <1>8, <1>9 DEF ResolverInv

-----------------------------------------------------------------------------
(* Steps of the thread. *)

LEMMA DnsThreadInv ==
  ASSUME ResolverInv, DnsThread
  PROVE  ResolverInv'
<1>1. UNCHANGED <<threads, outcome, ip_fifo, current_job, ip_cache, main, job_hostname>>
  BY DEF DnsThread, FirstWait, Timeout, NothingToDo, BeginJob, Resolve, SaveHostEntry, SaveResult,
         FinishJob, NextWait, Thread
<1>2. WaitingIsQueued' /\ AddressesBelong'
  BY <1>1 DEF ResolverInv, WaitingIsQueued, AddressesBelong
<1>3. TypeOK'
  <2>1. ThreadTypes /\ TypeOK
    BY DEF ResolverInv, TypeOK, ThreadTypes
  <2>2. thread = "resolving" => job_hostname \in Names
    BY NamesAssumption DEF ResolverInv, TypeOK, Linked
  <2>3. ThreadTypes'
    <3>1. CASE FirstWait \/ Timeout \/ NothingToDo \/ BeginJob \/ NextWait
      BY <2>1, <3>1 DEF ThreadTypes, Places, FirstWait, Timeout, NothingToDo, BeginJob, NextWait,
                        Thread, jobVars
    <3>2. CASE Resolve
      BY <2>1, <2>2, <3>2 DEF ThreadTypes, Places, Resolve, Thread, jobVars, GetHostByName
    <3>3. CASE SaveHostEntry
      BY <2>1, <3>3 DEF ThreadTypes, Places, SaveHostEntry, Thread
    <3>4. CASE SaveResult \/ FinishJob
      BY <2>1, <3>4 DEF ThreadTypes, Places, SaveResult, FinishJob, Thread
    <3> QED BY <3>1, <3>2, <3>3, <3>4 DEF DnsThread
  <2> QED BY <1>1, <2>1, <2>3, ThreadTypesNext
<1>4. Linked'
  <2>1. Linked
    BY DEF ResolverInv
  <2>2. ip_job_done' # ip_job_done => ip_job_done' = TRUE /\ thread' = "finished"
    BY DEF DnsThread, FirstWait, Timeout, NothingToDo, BeginJob, Resolve, SaveHostEntry, SaveResult,
           FinishJob, NextWait, Thread, jobVars
  <2>3. thread' \in {"resolving", "storing", "stored", "finishing"} =>
          \/ thread \in {"resolving", "storing", "stored", "finishing"}
          \/ ~ip_job_done
    BY DEF DnsThread, FirstWait, Timeout, NothingToDo, BeginJob, Resolve, SaveHostEntry, SaveResult,
           FinishJob, NextWait, Thread
  <2> QED BY <1>1, <2>1, <2>2, <2>3 DEF Linked
<1>5. Found'
  <2>1. Linked /\ Found
    BY DEF ResolverInv
  <2>2. CASE FirstWait \/ Timeout \/ NothingToDo \/ BeginJob \/ NextWait
    BY <2>1, <2>2 DEF Found, FirstWait, Timeout, NothingToDo, BeginJob, NextWait, Thread, jobVars
  <2>3. CASE Resolve
    BY <2>1, <2>3 DEF Linked, Found, Resolve, Thread, jobVars, GetHostByName
  <2>4. CASE SaveHostEntry
    BY <2>1, <2>4 DEF Linked, Found, SaveHostEntry, Thread
  <2>5. CASE SaveResult
    BY <2>1, <2>5 DEF Linked, Found, SaveResult, Thread
  <2>6. CASE FinishJob
    BY <2>1, <2>6 DEF Linked, Found, FinishJob, Thread
  <2> QED BY <2>2, <2>3, <2>4, <2>5, <2>6 DEF DnsThread
<1> QED BY <1>2, <1>3, <1>4, <1>5 DEF ResolverInv

-----------------------------------------------------------------------------
(* Theorems. *)

LEMMA NextInv == ResolverInv /\ [Next]_vars => ResolverInv'
<1> SUFFICES ASSUME ResolverInv, [Next]_vars
             PROVE  ResolverInv'
  OBVIOUS
<1>1. CASE UNCHANGED vars
  <2>1. UNCHANGED <<threads, outcome, ip_fifo, current_job, ip_cache, main, jobVars, threadVars>>
    BY <1>1 DEF vars
  <2>2. TypeOK'
    BY <2>1 DEF ResolverInv, TypeOK, jobVars, threadVars
  <2> QED BY <2>1, <2>2 DEF ResolverInv, WaitingIsQueued, AddressesBelong, Linked, Found, jobVars,
                          threadVars
<1> QED
  BY <1>1, TakeCachedInv, TakeJobInv, TakeBlockingInv, AsyncIpInv, CacheInv, JobStartInv, EndJobInv,
     DnsThreadInv DEF Next, Timer, Environment

LEMMA ResolverInvariant == Spec => []ResolverInv
BY InitInv, NextInv, PTL DEF Spec

(* Every variable of the resolver keeps its type, whatever the timer, the  *)
(* handlers and the thread do in whichever order.                          *)
THEOREM ResolverTypeCorrect == Spec => []TypeOK
BY ResolverInvariant, PTL DEF ResolverInv

(* No caller of async_ip is given, and the cache never keeps, an address   *)
(* of another name, although ml_ip_job_done takes no lock.                 *)
THEOREM AddressesAreRight == Spec => []AddressesBelong
BY ResolverInvariant, PTL DEF ResolverInv

(* A request that waits is at one place and one only.                      *)
THEOREM RequestsAreKept == Spec => []WaitingIsQueued
BY ResolverInvariant, PTL DEF ResolverInv

(* ml_ip_job_start never waits for a thread that is in gethostbyname.      *)
THEOREM EventLoopGoesOn == Spec => []EventLoopNotBlocked
<1>1. ResolverInv => EventLoopNotBlocked
  BY DEF ResolverInv, Linked, EventLoopNotBlocked
<1> QED BY <1>1, ResolverInvariant, PTL

-----------------------------------------------------------------------------
(* The resolver is a worker that answers the job it was given. *)

\* The part of ResolverIsAsyncJob that is not about fairness.
ResolverSafety == Worker!Init /\ [][Worker!Next]_(Worker!jobVars)

\* The thread and ml_ip_job_start leave a right answer, and only where there is none.
LEMMA WorkStep ==
  ASSUME ResolverInv, ResolverInv', RejectLongName \/ FinishJob
  PROVE  Worker!Work
<1>1. current_job \in Requests /\ AnswerNow = Nothing /\ current_job' = current_job
  BY NamesAssumption DEF ResolverInv, TypeOK, Linked, AnswerNow, RejectLongName, FinishJob, Thread
<1>2. AnswerNow' \in AnswersTo(current_job)
  <2>1. CASE RejectLongName
    <3>1. /\ NameOf[current_job] \in LongNames /\ ip_job_result' \in Names \cup {Nothing}
          /\ job_result' /\ current_job' # Nothing
      BY <2>1, <1>1, NamesAssumption DEF ResolverInv, TypeOK, RejectLongName
    <3> QED BY <1>1, <3>1, <2>1 DEF RejectLongName, AnswerNow, AnswersTo
  <2>2. CASE FinishJob
    BY <2>2, <1>1, NamesAssumption
       DEF ResolverInv, TypeOK, FinishJob, Thread, AnswerNow, AnswersTo, Linked, Found
  <2> QED BY <2>1, <2>2
<1> QED BY <1>1, <1>2, NamesAssumption DEF Worker!Work

\* A request becomes the current job where there was none.
LEMMA StartStep ==
  ASSUME ResolverInv, NEW r \in Requests, TakeJob(r)
  PROVE  Worker!Start(r)
<1>1. current_job = Nothing /\ current_job' = r /\ main' = "job_start"
  BY DEF TakeJob, Take
<1> QED BY <1>1 DEF Worker!Start, AnswerNow

\* An answer is taken once, with its job.
LEMMA CollectStep ==
  ASSUME ResolverInv, EndJob
  PROVE  Worker!Collect
<1>1. current_job' = Nothing /\ AnswerNow # Nothing
  BY NamesAssumption DEF ResolverInv, TypeOK, EndJob, JobDone, AnswerNow
<1> QED BY <1>1 DEF Worker!Collect, AnswerNow

\* No other step touches the job or its answer.
LEMMA OtherSteps ==
  ASSUME ResolverInv, [Next]_vars, ~(RejectLongName \/ FinishJob \/ EndJob),
         \A r \in Requests : ~TakeJob(r)
  PROVE  UNCHANGED Worker!jobVars
<1>1. CASE UNCHANGED vars
  BY <1>1 DEF vars, jobVars, AnswerNow, Worker!jobVars
<1>2. CASE \E r \in Requests : TakeCached(r) \/ TakeBlocking(r)
  BY <1>2 DEF TakeCached, TakeBlocking, jobVars, AnswerNow, Worker!jobVars
<1>3. CASE CopyHostname
  BY <1>3 DEF CopyHostname, AnswerNow, Worker!jobVars
<1>4. CASE SignalJob
  BY <1>4 DEF SignalJob, AnswerNow, Worker!jobVars
<1>5. CASE FirstWait \/ Timeout \/ NothingToDo \/ BeginJob \/ NextWait \/ Resolve
  BY <1>5 DEF FirstWait, Timeout, NothingToDo, BeginJob, NextWait, Resolve, Thread, jobVars, AnswerNow,
              Worker!jobVars
<1>6. CASE SaveHostEntry \/ SaveResult
  <2>1. ~ip_job_done /\ ip_job_done' = ip_job_done /\ current_job' = current_job
    BY <1>6 DEF ResolverInv, Linked, SaveHostEntry, SaveResult, Thread
  <2> QED BY <2>1 DEF AnswerNow, Worker!jobVars
<1>7. CASE Environment
  BY <1>7 DEF Environment, AsyncIp, Expire, FromName, jobVars, AnswerNow, Worker!jobVars
<1> QED BY <1>1, <1>2, <1>3, <1>4, <1>5, <1>6, <1>7 DEF Next, Timer, DnsThread

(* The timer, ml_ip_job_start, dns_thread and ml_ip_job_done, none of      *)
(* which sees all that the others do, together do the steps of a worker    *)
(* with one job at a time, that leaves an answer to this job and to no     *)
(* other, which is collected once. That it does answer is fairness, and    *)
(* stays with the run.                                                     *)
THEOREM ResolverImplementsAsyncJob == Spec => ResolverSafety
<1>1. Init => Worker!Init
  BY DEF Init, Worker!Init, AnswerNow
<1>2. ResolverInv /\ ResolverInv' /\ [Next]_vars => [Worker!Next]_(Worker!jobVars)
  BY WorkStep, StartStep, CollectStep, OtherSteps DEF Worker!Next
<1> QED BY <1>1, <1>2, ResolverInvariant, PTL DEF Spec, ResolverSafety
=============================================================================
