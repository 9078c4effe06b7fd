------------------------------ MODULE AsyncJob ------------------------------
(***************************************************************************)
(* What a helper thread of the daemon promises to the event loop: it is    *)
(* given one job at a time, works on it while the event loop goes on, and  *)
(* leaves an answer to that job and to no other, which is collected once.  *)
(* The resolver of stubs_c.c and the hasher of commonHasher_c.c are two    *)
(* implementations of it.                                                  *)
(***************************************************************************)
CONSTANTS
  Jobs,
  Answers(_),     \* what a job may be answered with
  NoJob, NoAnswer

VARIABLES job, answer
jobVars == <<job, answer>>

Init == job = NoJob /\ answer = NoAnswer

Start(j) == /\ job = NoJob
            /\ job' = j /\ UNCHANGED answer

Work == /\ job # NoJob /\ answer = NoAnswer
        /\ answer' \in Answers(job)
        /\ UNCHANGED job

Collect == /\ answer # NoAnswer
           /\ job' = NoJob /\ answer' = NoAnswer

Next == (\E j \in Jobs : Start(j)) \/ Work \/ Collect

Spec == Init /\ [][Next]_jobVars /\ WF_jobVars(Work) /\ WF_jobVars(Collect)
=============================================================================
