------------------------------ MODULE JobContract ------------------------------
(***************************************************************************)
(* What the durable queue promises a publisher about each job, with no     *)
(* leases, workers or clocks: the job waits, is attempted at most          *)
(* MaxAttempts times, one attempt after the other, and ends once.  The     *)
(* answer kept is the one of the last attempt; no attempt starts after a   *)
(* cancellation was asked for, and only a job asked to stop is withdrawn.  *)
(***************************************************************************)
EXTENDS Naturals

CONSTANTS Job, MaxAttempts

VARIABLE job    \* [phase, tries, asked, answer] of each job

New == [phase |-> "absent", tries |-> 0, asked |-> FALSE, answer |-> 0]

Init == job = [j \in Job |-> New]

\* The steps of one job, as relations between its record before and after.
Submit(b, a)   == b.phase = "absent" /\ a = [b EXCEPT !.phase = "waiting"]

Start(b, a)    == /\ b.phase = "waiting" /\ ~b.asked /\ b.tries < MaxAttempts
                  /\ a = [phase |-> "inflight", tries |-> b.tries + 1,
                          asked |-> b.asked, answer |-> b.answer]

Finish(b, a)   == /\ b.phase = "inflight"
                  /\ a = [phase |-> "completed", tries |-> b.tries,
                          asked |-> b.asked, answer |-> b.tries]

Requeue(b, a)  == /\ b.phase = "inflight" /\ b.tries < MaxAttempts
                  /\ a = [b EXCEPT !.phase = "waiting"]

GiveUp(b, a)   == /\ b.phase = "inflight" /\ b.tries = MaxAttempts
                  /\ a = [b EXCEPT !.phase = "failed"]

Ask(b, a)      == /\ b.phase \in {"waiting", "inflight"}
                  /\ a = [phase |-> IF b.phase = "waiting" THEN "withdrawn" ELSE b.phase,
                          tries |-> b.tries, asked |-> TRUE, answer |-> b.answer]

Withdraw(b, a) == /\ b.phase = "inflight" /\ b.asked
                  /\ a = [b EXCEPT !.phase = "withdrawn"]

JobStep(b, a) ==
    \/ a = b
    \/ Submit(b, a) \/ Start(b, a) \/ Finish(b, a) \/ Requeue(b, a)
    \/ GiveUp(b, a) \/ Ask(b, a) \/ Withdraw(b, a)

\* Jobs are independent: one statement of the store may move several.
Next == /\ DOMAIN job' = Job
        /\ \A j \in Job : JobStep(job[j], job'[j])

Spec == Init /\ [][Next]_job
===============================================================================
