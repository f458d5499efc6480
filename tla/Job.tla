-------------------------------- MODULE Job --------------------------------
(***************************************************************************)
(* The loop that runs a function from time to time: the flush of the       *)
(* trades view and the refresh of the builder's items are two of them.     *)
(* stop() wakes the loop when it sleeps, and awaits the run under way.     *)
(***************************************************************************)
EXTENDS Naturals

VARIABLES
  repeat,      \* the option, fixed
  loop,        \* where runJob is: new, sleeping, running or finished
  shouldStop,
  runningJob,  \* the promise of the last run: resolved, pending or rejected
  stopped      \* the call of stop(): none, waiting, resolved or rejected

jvars == <<repeat, loop, shouldStop, runningJob, stopped>>

JobTypeOK ==
  /\ repeat \in BOOLEAN /\ shouldStop \in BOOLEAN
  /\ loop \in {"new", "sleeping", "running", "finished"}
  /\ runningJob \in {"resolved", "pending", "rejected"}
  /\ stopped \in {"none", "waiting", "resolved", "rejected"}

JobInit ==
  /\ repeat \in BOOLEAN
  /\ loop = "new" /\ shouldStop = FALSE
  /\ runningJob = "resolved" /\ stopped = "none"

\* start(): the startup delay.
StartJob ==
  /\ loop = "new"
  /\ loop' = "sleeping"
  /\ UNCHANGED <<repeat, shouldStop, runningJob, stopped>>

\* As a bug would have it: only a sleep that is cancelled ends the loop.
LoopAlways == /\ loop' = "running"
              /\ runningJob' = "pending"
\* while (!shouldStop)
LoopTest ==
  IF shouldStop
  THEN loop' = "finished" /\ UNCHANGED runningJob
  ELSE loop' = "running" /\ runningJob' = "pending"

\* The timer of a sleep fires.
Wake ==
  /\ loop = "sleeping"
  /\ LoopTest
  /\ UNCHANGED <<repeat, shouldStop, stopped>>

\* job() settles: its error goes to onError and, by way of the promise, to stop().
RunEnds ==
  /\ loop = "running"
  /\ runningJob' \in {"resolved", "rejected"}
  /\ loop' = IF repeat THEN "sleeping" ELSE "finished"
  /\ stopped' = IF stopped = "waiting" THEN runningJob' ELSE stopped
  /\ UNCHANGED <<repeat, shouldStop>>

\* As a bug would have it: stop() answers at once.
AnswerAtOnce == "resolved"
\* await runningJob
AnswerOfStop == IF runningJob = "pending" THEN "waiting" ELSE runningJob

\* A sleep is cancelled, and the loop finds that it should stop; a run is not.
StopJob ==
  /\ loop # "new" /\ stopped = "none"
  /\ shouldStop' = TRUE
  /\ loop' = IF loop = "sleeping" THEN "finished" ELSE loop
  /\ stopped' = AnswerOfStop
  /\ UNCHANGED <<repeat, runningJob>>

JobNext == StartJob \/ Wake \/ RunEnds \/ StopJob

JobSpec == JobInit /\ [][JobNext]_jvars /\ WF_jvars(Wake) /\ WF_jvars(RunEnds)

-----------------------------------------------------------------------------
(* Once stop() has answered no run is under way, and none begins; it       *)
(* rejects if the last run failed, however long ago, and only then.        *)
StopAnswers ==
  stopped \in {"resolved", "rejected"} => loop # "running" /\ stopped = runningJob

(* The loop ends after stop(), if runs end: one that is under way is       *)
(* followed by a whole sleep that nothing cancels, which must end, too.    *)
JobEnds == shouldStop ~> loop = "finished"
=============================================================================
