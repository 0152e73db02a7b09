--------------------------- MODULE AgentJobsProofs ---------------------------
(***************************************************************************)
(* One worker acts on a job, and its outcome is true and final, for any    *)
(* number of workers, messages, attempts and disturbances.  The idea of    *)
(* IInv: whoever acts holds the lease and the row's revision, so whoever   *)
(* is about to claim with an older copy cannot.                            *)
(***************************************************************************)
EXTENDS AgentJobs, TLAPS

\* Nothing happens to a job before it is created.
Begun ==
  job.status = "absent" =>
    /\ starting = 0
    /\ \A m \in Messages : message[m].at = "none"
    /\ \A w \in Workers : worker[w].pc = "idle"

LeasedIsWorking == job.leased => job.status = "working"

\* A worker that acts holds the lease, and its copy is the row's.
Holder ==
  \A w \in Workers : worker[w].pc \in Acting =>
    job.leased /\ worker[w].rev = job.rev /\ worker[w].attempts = job.attempts

\* A worker about to claim has read a job that was free.
Candidate ==
  \A w \in Workers : worker[w].pc = "claim" =>
    /\ worker[w].rev <= job.rev
    /\ worker[w].rev = job.rev =>
         ~job.leased /\ job.status \notin Ended /\ worker[w].attempts = job.attempts

\* What a worker has found out stays true until it is saved.
Decision ==
  \A w \in Workers :
    /\ worker[w].pc = "propose" /\ offer # "taken" => booking = "absent"
    /\ worker[w].pc = "save" =>
         /\ worker[w].status = "booked" => booking = "booked"
         /\ worker[w].status \in {"failed", "no_common_slot"} /\ offer # "taken" =>
              booking \in {"absent", "refused"}
         /\ worker[w].status = "working" => worker[w].attempts < MaxAttempts
         /\ worker[w].status # "queued"

\* A job that nobody acts on may be claimed once more.
ClaimLeft ==
  job.status \notin Ended /\ (\A w \in Workers : worker[w].pc \notin Acting) =>
    job.attempts < MaxAttempts + disturbed

\* Whoever has been delivered a job finds its message, or its successor, there.
DeliveredHasMessage ==
  job.status \notin Ended /\ (\E w \in Workers : worker[w].pc # "idle") =>
    \E m \in Messages : message[m].at # "none"

IInv == /\ TypeOK /\ Begun /\ LeasedIsWorking /\ Holder /\ OneWorkerActs
        /\ Candidate /\ Decision /\ ClaimLeft /\ DeliveredHasMessage
        /\ OutcomeIsTrue /\ WorkingJobHasMessage /\ RetriesAreBounded
-----------------------------------------------------------------------------
LEMMA InitInv == Init => IInv
BY JobAssumption DEF Init, IInv, TypeOK, Begun, LeasedIsWorking, Holder,
   OneWorkerActs,
   Candidate, Decision, ClaimLeft, DeliveredHasMessage, OutcomeIsTrue,
   WorkingJobHasMessage, RetriesAreBounded, Job, Status, Ended, NoMessage, Message,
   Worker, IdleWorker, PC, Acting

LEMMA TypeStep == TypeOK /\ [Next]_vars => TypeOK'
<1> SUFFICES ASSUME TypeOK, [Next]_vars PROVE TypeOK'
  OBVIOUS
<1> USE JobAssumption DEF TypeOK
<1>a. \A w \in Workers : worker[w] \in Worker
  OBVIOUS
<1>b. IdleWorker \in Worker
  BY DEF IdleWorker, Worker, PC, Status
<1>c. NoMessage \in Message
  BY DEF NoMessage, Message
<1>1. CASE UNCHANGED vars
  BY <1>1 DEF vars, bookingVars
<1>2. CASE Start
  BY <1>2 DEF Start, Undisturbed, Job, Status, bookingVars
<1>3. CASE StartEnqueues
  BY <1>3 DEF StartEnqueues, Sent, Message, Undisturbed, bookingVars
<1>4. CASE StartEnds
  BY <1>4 DEF StartEnds, Disturb, bookingVars
<1>5. CASE LeaseExpires
  BY <1>5 DEF LeaseExpires, Job, Undisturbed, bookingVars
<1>6. CASE UserConfirms
  BY <1>6 DEF UserConfirms, Take, Undisturbed
<1>7. CASE OutsideMoves
  BY <1>7 DEF OutsideMoves, Undisturbed
<1>8. ASSUME NEW m \in Messages, DeadLetter(m) PROVE TypeOK'
  BY <1>8 DEF DeadLetter, Message, Undisturbed, bookingVars
<1>9. ASSUME NEW m \in Messages, Redeliver(m) PROVE TypeOK'
  BY <1>9 DEF Redeliver, Message, Undisturbed, Disturb, bookingVars
<1>10. ASSUME NEW w \in Workers, NEW m \in Messages, Receive(w, m) PROVE TypeOK'
  BY <1>a, <1>10 DEF Receive, Deliver, Message, Worker, PC, Undisturbed, bookingVars
<1>11. ASSUME NEW w \in Workers, NEW m \in Messages, ReceiveTwice(w, m) PROVE TypeOK'
  BY <1>a, <1>11 DEF ReceiveTwice, Deliver, Message, Worker, PC, Disturb, bookingVars
<1>12. ASSUME NEW w \in Workers, ProcessRead(w) PROVE TypeOK'
  BY <1>a, <1>b, <1>c, <1>12 DEF ProcessRead, Return, Acknowledged, Worker, PC,
     Job, Undisturbed, bookingVars
<1>13. ASSUME NEW w \in Workers, ProcessClaim(w) PROVE TypeOK'
  BY <1>a, <1>b, <1>13 DEF ProcessClaim, ClaimedJob, Return, Worker, PC, Acting,
     Job, Status, Undisturbed, bookingVars
<1>14. ASSUME NEW w \in Workers, ProcessClaimLost(w) PROVE TypeOK'
  BY <1>a, <1>b, <1>14 DEF ProcessClaimLost, ClaimedJob, Return, Worker, Job,
     Status, Disturb, bookingVars
<1>15. ASSUME NEW w \in Workers, WorkExisting(w) PROVE TypeOK'
  BY <1>a, <1>15 DEF WorkExisting, Goto, Worker, PC, Acting, Undisturbed, bookingVars
<1>16. ASSUME NEW w \in Workers, WorkPropose(w) PROVE TypeOK'
  BY <1>a, <1>16 DEF WorkPropose, Propose, Goto, Decide, Worker, PC, Acting,
     Status, Ended, Undisturbed
<1>17. ASSUME NEW w \in Workers, ConfirmOpens(w) PROVE TypeOK'
  BY <1>17 DEF ConfirmOpens, Undisturbed
<1>18. ASSUME NEW w \in Workers, ConfirmSettles(w) PROVE TypeOK'
  BY <1>18 DEF ConfirmSettles, Undisturbed
<1>19. ASSUME NEW w \in Workers, ConfirmReturns(w) PROVE TypeOK'
  BY <1>a, <1>19 DEF ConfirmReturns, Decide, Pending, Worker, PC, Acting, Status,
     Ended, Undisturbed, bookingVars
<1>20. ASSUME NEW w \in Workers, WorkFails(w) PROVE TypeOK'
  BY <1>a, <1>20 DEF WorkFails, MayLeaveWrite, Propose, Take, Goto, Worker, PC,
     Acting, Undisturbed
<1>21. ASSUME NEW w \in Workers, Check(w) PROVE TypeOK'
  <2>1. PICK status \in Status : Decide(w, status)
    <3>1. CASE booking = "absent"
      <4>1. Decide(w, "failed")
        BY <1>21, <3>1 DEF Check
      <4> QED BY <4>1 DEF Status, Ended
    <3>2. CASE booking # "absent"
      <4>1. Decide(w, Pending(w))
        BY <1>21, <3>2 DEF Check
      <4> QED BY <4>1 DEF Pending, Status, Ended
    <3> QED BY <3>1, <3>2
  <2>2. worker' \in [Workers -> Worker]
    BY <1>a, <2>1 DEF Decide, Worker, PC, Acting
  <2>3. UNCHANGED <<job, message, starting, starts, bookingVars, disturbed>>
    BY <1>21 DEF Check, Undisturbed
  <2> QED BY <2>2, <2>3 DEF bookingVars
<1>22. ASSUME NEW w \in Workers, Save(w) PROVE TypeOK'
  <2>1. worker' \in [Workers -> Worker]
    BY <1>a, <1>b, <1>22 DEF Save, Goto, Return, Worker, PC
  <2>2. message' \in [Messages -> Message]
    BY <1>c, <1>22 DEF Save, Acknowledged
  <2>3. job' \in Job
    <3>1. SavedJob(w) \in Job
      BY <1>a DEF SavedJob, Worker, Job
    <3> QED BY <1>22, <3>1 DEF Save
  <2>4. UNCHANGED <<starting, starts, bookingVars, disturbed>>
    BY <1>22 DEF Save, Undisturbed
  <2> QED BY <2>1, <2>2, <2>3, <2>4 DEF bookingVars
<1>23. ASSUME NEW w \in Workers, SaveLost(w) PROVE TypeOK'
  BY <1>a, <1>b, <1>23 DEF SaveLost, SavedJob, Return, Worker, Job, Disturb,
     bookingVars
<1>24. ASSUME NEW w \in Workers, Enqueue(w) PROVE TypeOK'
  BY <1>b, <1>c, <1>24 DEF Enqueue, Sent, Acknowledged, Return, Message,
     Undisturbed, bookingVars
<1>25. ASSUME NEW w \in Workers, EnqueueLost(w) PROVE TypeOK'
  BY <1>b, <1>25 DEF EnqueueLost, Sent, Return, Message, Disturb, bookingVars
<1>26. ASSUME NEW w \in Workers, WorkerEnds(w) PROVE TypeOK'
  BY <1>b, <1>26 DEF WorkerEnds, MayLeaveWrite, Propose, Take, Return, Disturb
<1> QED
  BY <1>1, <1>2, <1>3, <1>4, <1>5, <1>6, <1>7, <1>8, <1>9, <1>10, <1>11, <1>12, <1>13,
      <1>14, <1>15, <1>16, <1>17, <1>18, <1>19, <1>20, <1>21, <1>22, <1>23, <1>24,
     <1>25, <1>26 DEF Next, ProcessStep, Disturbance
-----------------------------------------------------------------------------
\* Only the holder of the lease acts, and an older copy cannot be swapped in.
Lease == LeasedIsWorking /\ Holder /\ OneWorkerActs /\ Candidate /\ Begun

LEMMA LeaseStep == IInv /\ [Next]_vars => Lease'
<1> SUFFICES ASSUME IInv, [Next]_vars PROVE Lease'
  OBVIOUS
<1> USE JobAssumption DEF IInv, TypeOK, Lease, LeasedIsWorking, Holder,
        OneWorkerActs, Candidate, Begun, Acting, Ended, Job, Worker, PC, Status,
        Message
<1>a. \A w \in Workers : worker[w] \in Worker
  OBVIOUS
<1>1. CASE UNCHANGED vars
  BY <1>1 DEF vars, bookingVars
<1>2. CASE Start
  BY <1>a, <1>2 DEF Start, Undisturbed, bookingVars
<1>3. CASE StartEnqueues
  BY <1>a, <1>3 DEF StartEnqueues, Sent, Undisturbed, Fresh, bookingVars
<1>4. CASE StartEnds
  BY <1>a, <1>4 DEF StartEnds, Disturb, bookingVars
<1>5. CASE LeaseExpires
  BY <1>a, <1>5 DEF LeaseExpires, Undisturbed, bookingVars
<1>6. CASE UserConfirms
  BY <1>a, <1>6 DEF UserConfirms, Take, Undisturbed, bookingVars
<1>7. CASE OutsideMoves
  BY <1>a, <1>7 DEF OutsideMoves, Undisturbed, bookingVars
<1>8. ASSUME NEW m \in Messages, DeadLetter(m) PROVE Lease'
  BY <1>a, <1>8 DEF DeadLetter, Undisturbed, bookingVars
<1>9. ASSUME NEW m \in Messages, Redeliver(m) PROVE Lease'
  BY <1>a, <1>9 DEF Redeliver, Disturb, Undisturbed, bookingVars
<1>10. ASSUME NEW w \in Workers, NEW m \in Messages, Receive(w, m) PROVE Lease'
  BY <1>a, <1>10 DEF Receive, Deliver, IdleWorker, Undisturbed, bookingVars
<1>11. ASSUME NEW w \in Workers, NEW m \in Messages, ReceiveTwice(w, m) PROVE Lease'
  BY <1>a, <1>11 DEF ReceiveTwice, Deliver, IdleWorker, Disturb, bookingVars
<1>12. ASSUME NEW w \in Workers, ProcessRead(w) PROVE Lease'
  <2>1. job.status # "absent"
    BY <1>12 DEF ProcessRead
  <2>2. CASE job.status \in Ended \/ job.leased
    <3>1. Return(w) /\ UNCHANGED job
      BY <1>12, <2>2 DEF ProcessRead
    <3> QED BY <1>a, <2>1, <3>1 DEF Return, IdleWorker
  <2>3. CASE job.status \notin Ended /\ ~job.leased
    <3>1. /\ worker' = [worker EXCEPT ![w].pc = "claim", ![w].rev = job.rev,
                                     ![w].attempts = job.attempts]
          /\ UNCHANGED job
      BY <1>12, <2>3 DEF ProcessRead
    <3> QED BY <1>a, <2>1, <2>3, <3>1
  <2> QED BY <2>2, <2>3
<1>13. ASSUME NEW w \in Workers, ProcessClaim(w) PROVE Lease'
  <2>1. CASE SwapAllowed(w)
    <3>1. /\ job' = ClaimedJob(w) /\ worker[w].pc = "claim"
          /\ worker' = [worker EXCEPT ![w].pc = "work", ![w].rev = @ + 1,
                                     ![w].attempts = @ + 1]
      BY <1>13, <2>1 DEF ProcessClaim
    <3>2. \A v \in Workers : worker[v].pc \notin Acting
      BY <2>1, <3>1 DEF SwapAllowed
    <3> QED BY <1>a, <2>1, <3>1, <3>2 DEF ClaimedJob, SwapAllowed
  <2>2. CASE ~SwapAllowed(w)
    <3>1. Return(w) /\ UNCHANGED job /\ worker[w].pc = "claim"
      BY <1>13, <2>2 DEF ProcessClaim
    <3> QED BY <1>a, <3>1 DEF Return, IdleWorker
  <2> QED BY <2>1, <2>2
<1>14. ASSUME NEW w \in Workers, ProcessClaimLost(w) PROVE Lease'
  BY <1>a, <1>14 DEF ProcessClaimLost, SwapAllowed, ClaimedJob, Return, IdleWorker,
     Disturb, bookingVars
<1>15. ASSUME NEW w \in Workers, WorkExisting(w) PROVE Lease'
  BY <1>a, <1>15 DEF WorkExisting, Goto, Undisturbed, bookingVars
<1>16. ASSUME NEW w \in Workers, WorkPropose(w) PROVE Lease'
  BY <1>a, <1>16 DEF WorkPropose, Propose, Goto, Decide, Undisturbed, bookingVars
<1>17. ASSUME NEW w \in Workers, ConfirmOpens(w) PROVE Lease'
  BY <1>a, <1>17 DEF ConfirmOpens, Undisturbed, bookingVars
<1>18. ASSUME NEW w \in Workers, ConfirmSettles(w) PROVE Lease'
  BY <1>a, <1>18 DEF ConfirmSettles, Undisturbed, bookingVars
<1>19. ASSUME NEW w \in Workers, ConfirmReturns(w) PROVE Lease'
  BY <1>a, <1>19 DEF ConfirmReturns, Decide, Pending, Again, Undisturbed,
     bookingVars
<1>20. ASSUME NEW w \in Workers, WorkFails(w) PROVE Lease'
  BY <1>a, <1>20 DEF WorkFails, MayLeaveWrite, Propose, Take, Goto, Undisturbed,
     bookingVars
<1>21. ASSUME NEW w \in Workers, Check(w) PROVE Lease'
  BY <1>a, <1>21 DEF Check, Decide, Pending, Again, Undisturbed, bookingVars
<1>22. ASSUME NEW w \in Workers, Save(w) PROVE Lease'
  <2>1. /\ job' = SavedJob(w) /\ worker[w].pc = "save" /\ job.status = "working"
        /\ worker[w].rev = job.rev
        /\ Goto(w, "enqueue") \/ Return(w)
    BY <1>22 DEF Save, SwapAllowed
  <2>2. \A v \in Workers \ {w} : worker[v].pc \notin Acting /\ worker'[v] = worker[v]
    BY <2>1 DEF Goto, Return
  <2>3. worker'[w].pc \in {"idle", "enqueue"}
    BY <2>1 DEF Goto, Return, IdleWorker
  <2> QED BY <1>a, <2>1, <2>2, <2>3 DEF SavedJob
<1>23. ASSUME NEW w \in Workers, SaveLost(w) PROVE Lease'
  BY <1>a, <1>23 DEF SaveLost, SwapAllowed, SavedJob, Return, IdleWorker, Disturb,
     bookingVars
<1>24. ASSUME NEW w \in Workers, Enqueue(w) PROVE Lease'
  BY <1>a, <1>24 DEF Enqueue, Fresh, Sent, Acknowledged, NoMessage, Return,
     IdleWorker, Undisturbed, bookingVars
<1>25. ASSUME NEW w \in Workers, EnqueueLost(w) PROVE Lease'
  BY <1>a, <1>25 DEF EnqueueLost, Fresh, Sent, Return, IdleWorker, Disturb,
     bookingVars
<1>26. ASSUME NEW w \in Workers, WorkerEnds(w) PROVE Lease'
  BY <1>a, <1>26 DEF WorkerEnds, MayLeaveWrite, Propose, Take, Return, IdleWorker,
     Disturb, bookingVars
<1> QED
  BY <1>1, <1>2, <1>3, <1>4, <1>5, <1>6, <1>7, <1>8, <1>9, <1>10, <1>11, <1>12,
     <1>13, <1>14, <1>15, <1>16, <1>17, <1>18, <1>19, <1>20, <1>21, <1>22, <1>23,
     <1>24, <1>25, <1>26 DEF Next, ProcessStep, Disturbance
-----------------------------------------------------------------------------
\* The booking moves under the one worker that acts, or its proposal is taken.
Outcome == Decision /\ OutcomeIsTrue

LEMMA OutcomeStep == IInv /\ [Next]_vars => Outcome'
<1> SUFFICES ASSUME IInv, [Next]_vars PROVE Outcome'
  OBVIOUS
<1> USE JobAssumption DEF IInv, TypeOK, Outcome, Decision, OutcomeIsTrue, Holder,
        OneWorkerActs, LeasedIsWorking, Candidate, Acting, Ended, Job, Worker, PC,
        Status
<1>a. \A w \in Workers : worker[w] \in Worker
  OBVIOUS
<1>1. CASE UNCHANGED vars
  BY <1>1 DEF vars, bookingVars
<1>2. CASE Start
  BY <1>a, <1>2 DEF Start, Undisturbed, bookingVars
<1>3. CASE StartEnqueues
  BY <1>a, <1>3 DEF StartEnqueues, Sent, Undisturbed, Fresh, bookingVars
<1>4. CASE StartEnds
  BY <1>a, <1>4 DEF StartEnds, Disturb, bookingVars
<1>5. CASE LeaseExpires
  BY <1>a, <1>5 DEF LeaseExpires, Undisturbed, bookingVars
<1>6. CASE UserConfirms
  BY <1>a, <1>6 DEF UserConfirms, Take, Undisturbed, bookingVars
<1>7. CASE OutsideMoves
  BY <1>a, <1>7 DEF OutsideMoves, Undisturbed, bookingVars
<1>8. ASSUME NEW m \in Messages, DeadLetter(m) PROVE Outcome'
  BY <1>a, <1>8 DEF DeadLetter, Undisturbed, bookingVars
<1>9. ASSUME NEW m \in Messages, Redeliver(m) PROVE Outcome'
  BY <1>a, <1>9 DEF Redeliver, Disturb, Undisturbed, bookingVars
<1>10. ASSUME NEW w \in Workers, NEW m \in Messages, Receive(w, m) PROVE Outcome'
  BY <1>a, <1>10 DEF Receive, Deliver, IdleWorker, Undisturbed, bookingVars
<1>11. ASSUME NEW w \in Workers, NEW m \in Messages, ReceiveTwice(w, m) PROVE Outcome'
  BY <1>a, <1>11 DEF ReceiveTwice, Deliver, IdleWorker, Disturb, bookingVars
<1>12. ASSUME NEW w \in Workers, ProcessRead(w) PROVE Outcome'
  BY <1>a, <1>12 DEF ProcessRead, Return, IdleWorker, Acknowledged, NoMessage,
     Undisturbed, bookingVars
<1>13. ASSUME NEW w \in Workers, ProcessClaim(w) PROVE Outcome'
  BY <1>a, <1>13 DEF ProcessClaim, SwapAllowed, ClaimedJob, Return, IdleWorker,
     Undisturbed, bookingVars
<1>14. ASSUME NEW w \in Workers, ProcessClaimLost(w) PROVE Outcome'
  BY <1>a, <1>14 DEF ProcessClaimLost, SwapAllowed, ClaimedJob, Return, IdleWorker,
     Disturb, bookingVars
<1>15. ASSUME NEW w \in Workers, WorkExisting(w) PROVE Outcome'
  BY <1>a, <1>15 DEF WorkExisting, Goto, Undisturbed, bookingVars
<1>16. ASSUME NEW w \in Workers, WorkPropose(w) PROVE Outcome'
  BY <1>a, <1>16 DEF WorkPropose, Propose, Goto, Decide, Undisturbed, bookingVars
<1>17. ASSUME NEW w \in Workers, ConfirmOpens(w) PROVE Outcome'
  BY <1>a, <1>17 DEF ConfirmOpens, Undisturbed, bookingVars
<1>18. ASSUME NEW w \in Workers, ConfirmSettles(w) PROVE Outcome'
  BY <1>a, <1>18 DEF ConfirmSettles, Undisturbed, bookingVars
<1>19. ASSUME NEW w \in Workers, ConfirmReturns(w) PROVE Outcome'
  BY <1>a, <1>19 DEF ConfirmReturns, Decide, Pending, Again, Undisturbed,
     bookingVars
<1>20. ASSUME NEW w \in Workers, WorkFails(w) PROVE Outcome'
  BY <1>a, <1>20 DEF WorkFails, MayLeaveWrite, Propose, Take, Goto, Undisturbed,
     bookingVars
<1>21. ASSUME NEW w \in Workers, Check(w) PROVE Outcome'
  BY <1>a, <1>21 DEF Check, Decide, Pending, Again, Undisturbed, bookingVars
<1>22. ASSUME NEW w \in Workers, Save(w) PROVE Outcome'
  BY <1>a, <1>22 DEF Save, SwapAllowed, SavedJob, Goto, Return, IdleWorker,
     Acknowledged, NoMessage, Undisturbed, bookingVars
<1>23. ASSUME NEW w \in Workers, SaveLost(w) PROVE Outcome'
  BY <1>a, <1>23 DEF SaveLost, SwapAllowed, SavedJob, Return, IdleWorker, Disturb,
     bookingVars
<1>24. ASSUME NEW w \in Workers, Enqueue(w) PROVE Outcome'
  BY <1>a, <1>24 DEF Enqueue, Fresh, Sent, Acknowledged, NoMessage, Return,
     IdleWorker, Undisturbed, bookingVars
<1>25. ASSUME NEW w \in Workers, EnqueueLost(w) PROVE Outcome'
  BY <1>a, <1>25 DEF EnqueueLost, Fresh, Sent, Return, IdleWorker, Disturb,
     bookingVars
<1>26. ASSUME NEW w \in Workers, WorkerEnds(w) PROVE Outcome'
  BY <1>a, <1>26 DEF WorkerEnds, MayLeaveWrite, Propose, Take, Return, IdleWorker,
     Disturb, bookingVars
<1> QED
  BY <1>1, <1>2, <1>3, <1>4, <1>5, <1>6, <1>7, <1>8, <1>9, <1>10, <1>11, <1>12,
     <1>13, <1>14, <1>15, <1>16, <1>17, <1>18, <1>19, <1>20, <1>21, <1>22, <1>23,
     <1>24, <1>25, <1>26 DEF Next, ProcessStep, Disturbance
-----------------------------------------------------------------------------
\* A claim uses up an attempt; only a lost one leaves the job to be claimed again
\* at the limit.
Bound == ClaimLeft /\ RetriesAreBounded

LEMMA BoundStep == IInv /\ [Next]_vars => Bound'
<1> SUFFICES ASSUME IInv, [Next]_vars PROVE Bound'
  OBVIOUS
<1> USE JobAssumption DEF IInv, TypeOK, Bound, ClaimLeft, RetriesAreBounded,
        Decision, Holder, OneWorkerActs, LeasedIsWorking, Candidate, Begun, Acting,
        Ended, Job, Worker, PC, Status
<1>a. \A w \in Workers : worker[w] \in Worker
  OBVIOUS
<1>1. CASE UNCHANGED vars
  BY <1>1 DEF vars, bookingVars
<1>2. CASE Start
  BY <1>a, <1>2 DEF Start, Undisturbed, bookingVars
<1>3. CASE StartEnqueues
  BY <1>a, <1>3 DEF StartEnqueues, Sent, Undisturbed, Fresh, bookingVars
<1>4. CASE StartEnds
  BY <1>a, <1>4 DEF StartEnds, Disturb, bookingVars
<1>5. CASE LeaseExpires
  BY <1>a, <1>5 DEF LeaseExpires, Undisturbed, bookingVars
<1>6. CASE UserConfirms
  BY <1>a, <1>6 DEF UserConfirms, Take, Undisturbed, bookingVars
<1>7. CASE OutsideMoves
  BY <1>a, <1>7 DEF OutsideMoves, Undisturbed, bookingVars
<1>8. ASSUME NEW m \in Messages, DeadLetter(m) PROVE Bound'
  BY <1>a, <1>8 DEF DeadLetter, Undisturbed, bookingVars
<1>9. ASSUME NEW m \in Messages, Redeliver(m) PROVE Bound'
  BY <1>a, <1>9 DEF Redeliver, Disturb, Undisturbed, bookingVars
<1>10. ASSUME NEW w \in Workers, NEW m \in Messages, Receive(w, m) PROVE Bound'
  BY <1>a, <1>10 DEF Receive, Deliver, IdleWorker, Undisturbed, bookingVars
<1>11. ASSUME NEW w \in Workers, NEW m \in Messages, ReceiveTwice(w, m) PROVE Bound'
  BY <1>a, <1>11 DEF ReceiveTwice, Deliver, IdleWorker, Disturb, bookingVars
<1>12. ASSUME NEW w \in Workers, ProcessRead(w) PROVE Bound'
  BY <1>a, <1>12 DEF ProcessRead, Return, IdleWorker, Acknowledged, NoMessage,
     Undisturbed, bookingVars
<1>13. ASSUME NEW w \in Workers, ProcessClaim(w) PROVE Bound'
  BY <1>a, <1>13 DEF ProcessClaim, SwapAllowed, ClaimedJob, Return, IdleWorker,
     Undisturbed, bookingVars
<1>14. ASSUME NEW w \in Workers, ProcessClaimLost(w) PROVE Bound'
  BY <1>a, <1>14 DEF ProcessClaimLost, SwapAllowed, ClaimedJob, Return, IdleWorker,
     Disturb, bookingVars
<1>15. ASSUME NEW w \in Workers, WorkExisting(w) PROVE Bound'
  BY <1>a, <1>15 DEF WorkExisting, Goto, Undisturbed, bookingVars
<1>16. ASSUME NEW w \in Workers, WorkPropose(w) PROVE Bound'
  BY <1>a, <1>16 DEF WorkPropose, Propose, Goto, Decide, Undisturbed, bookingVars
<1>17. ASSUME NEW w \in Workers, ConfirmOpens(w) PROVE Bound'
  BY <1>a, <1>17 DEF ConfirmOpens, Undisturbed, bookingVars
<1>18. ASSUME NEW w \in Workers, ConfirmSettles(w) PROVE Bound'
  BY <1>a, <1>18 DEF ConfirmSettles, Undisturbed, bookingVars
<1>19. ASSUME NEW w \in Workers, ConfirmReturns(w) PROVE Bound'
  BY <1>a, <1>19 DEF ConfirmReturns, Decide, Pending, Again, Undisturbed,
     bookingVars
<1>20. ASSUME NEW w \in Workers, WorkFails(w) PROVE Bound'
  BY <1>a, <1>20 DEF WorkFails, MayLeaveWrite, Propose, Take, Goto, Undisturbed,
     bookingVars
<1>21. ASSUME NEW w \in Workers, Check(w) PROVE Bound'
  BY <1>a, <1>21 DEF Check, Decide, Pending, Again, Undisturbed, bookingVars
<1>22. ASSUME NEW w \in Workers, Save(w) PROVE Bound'
  <2>1. /\ job' = SavedJob(w) /\ worker[w].pc = "save"
        /\ worker[w].attempts = job.attempts
        /\ UNCHANGED disturbed
    BY <1>22 DEF Save, SwapAllowed, Undisturbed
  <2> QED BY <1>a, <2>1 DEF SavedJob
<1>23. ASSUME NEW w \in Workers, SaveLost(w) PROVE Bound'
  BY <1>a, <1>23 DEF SaveLost, SwapAllowed, SavedJob, Return, IdleWorker, Disturb,
     bookingVars
<1>24. ASSUME NEW w \in Workers, Enqueue(w) PROVE Bound'
  BY <1>a, <1>24 DEF Enqueue, Fresh, Sent, Acknowledged, NoMessage, Return,
     IdleWorker, Undisturbed, bookingVars
<1>25. ASSUME NEW w \in Workers, EnqueueLost(w) PROVE Bound'
  BY <1>a, <1>25 DEF EnqueueLost, Fresh, Sent, Return, IdleWorker, Disturb,
     bookingVars
<1>26. ASSUME NEW w \in Workers, WorkerEnds(w) PROVE Bound'
  BY <1>a, <1>26 DEF WorkerEnds, MayLeaveWrite, Propose, Take, Return, IdleWorker,
     Disturb, bookingVars
<1> QED
  BY <1>1, <1>2, <1>3, <1>4, <1>5, <1>6, <1>7, <1>8, <1>9, <1>10, <1>11, <1>12,
     <1>13, <1>14, <1>15, <1>16, <1>17, <1>18, <1>19, <1>20, <1>21, <1>22, <1>23,
     <1>24, <1>25, <1>26 DEF Next, ProcessStep, Disturbance
-----------------------------------------------------------------------------
\* A message is acknowledged only when the job has ended or has a successor.
Delivery == DeliveredHasMessage /\ WorkingJobHasMessage

LEMMA MessageStep == IInv /\ [Next]_vars => Delivery'
<1> SUFFICES ASSUME IInv, [Next]_vars PROVE Delivery'
  OBVIOUS
<1> USE JobAssumption DEF IInv, TypeOK, Delivery, DeliveredHasMessage,
        WorkingJobHasMessage, Decision, Holder, Candidate, LeasedIsWorking, Begun,
        Acting, Ended, Job, Worker, PC, Status, Message, Sent
<1>a. \A w \in Workers : worker[w] \in Worker
  OBVIOUS
<1>1. CASE UNCHANGED vars
  BY <1>1 DEF vars, bookingVars
<1>2. CASE Start
  BY <1>a, <1>2 DEF Start, Undisturbed, bookingVars
<1>3. CASE StartEnqueues
  BY <1>a, <1>3 DEF StartEnqueues, Sent, Undisturbed, Fresh, bookingVars
<1>4. CASE StartEnds
  BY <1>a, <1>4 DEF StartEnds, Disturb, bookingVars
<1>5. CASE LeaseExpires
  BY <1>a, <1>5 DEF LeaseExpires, Undisturbed, bookingVars
<1>6. CASE UserConfirms
  BY <1>a, <1>6 DEF UserConfirms, Take, Undisturbed, bookingVars
<1>7. CASE OutsideMoves
  BY <1>a, <1>7 DEF OutsideMoves, Undisturbed, bookingVars
<1>8. ASSUME NEW m \in Messages, DeadLetter(m) PROVE Delivery'
  BY <1>a, <1>8 DEF DeadLetter, Undisturbed, bookingVars
<1>9. ASSUME NEW m \in Messages, Redeliver(m) PROVE Delivery'
  BY <1>a, <1>9 DEF Redeliver, Disturb, Undisturbed, bookingVars
<1>10. ASSUME NEW w \in Workers, NEW m \in Messages, Receive(w, m) PROVE Delivery'
  BY <1>a, <1>10 DEF Receive, Deliver, IdleWorker, Undisturbed, bookingVars
<1>11. ASSUME NEW w \in Workers, NEW m \in Messages, ReceiveTwice(w, m) PROVE
   Delivery'
  BY <1>a, <1>11 DEF ReceiveTwice, Deliver, IdleWorker, Disturb, bookingVars
<1>12. ASSUME NEW w \in Workers, ProcessRead(w) PROVE Delivery'
  BY <1>a, <1>12 DEF ProcessRead, Return, IdleWorker, Acknowledged, NoMessage,
     Undisturbed, bookingVars
<1>13. ASSUME NEW w \in Workers, ProcessClaim(w) PROVE Delivery'
  BY <1>a, <1>13 DEF ProcessClaim, SwapAllowed, ClaimedJob, Return, IdleWorker,
     Undisturbed, bookingVars
<1>14. ASSUME NEW w \in Workers, ProcessClaimLost(w) PROVE Delivery'
  BY <1>a, <1>14 DEF ProcessClaimLost, SwapAllowed, ClaimedJob, Return, IdleWorker,
     Disturb, bookingVars
<1>15. ASSUME NEW w \in Workers, WorkExisting(w) PROVE Delivery'
  BY <1>a, <1>15 DEF WorkExisting, Goto, Undisturbed, bookingVars
<1>16. ASSUME NEW w \in Workers, WorkPropose(w) PROVE Delivery'
  BY <1>a, <1>16 DEF WorkPropose, Propose, Goto, Decide, Undisturbed, bookingVars
<1>17. ASSUME NEW w \in Workers, ConfirmOpens(w) PROVE Delivery'
  BY <1>a, <1>17 DEF ConfirmOpens, Undisturbed, bookingVars
<1>18. ASSUME NEW w \in Workers, ConfirmSettles(w) PROVE Delivery'
  BY <1>a, <1>18 DEF ConfirmSettles, Undisturbed, bookingVars
<1>19. ASSUME NEW w \in Workers, ConfirmReturns(w) PROVE Delivery'
  BY <1>a, <1>19 DEF ConfirmReturns, Decide, Pending, Again, Undisturbed,
     bookingVars
<1>20. ASSUME NEW w \in Workers, WorkFails(w) PROVE Delivery'
  BY <1>a, <1>20 DEF WorkFails, MayLeaveWrite, Propose, Take, Goto, Undisturbed,
     bookingVars
<1>21. ASSUME NEW w \in Workers, Check(w) PROVE Delivery'
  BY <1>a, <1>21 DEF Check, Decide, Pending, Again, Undisturbed, bookingVars
<1>22. ASSUME NEW w \in Workers, Save(w) PROVE Delivery'
  <2>1. /\ job' = SavedJob(w) /\ worker[w].pc = "save" /\ job.status = "working"
        /\ worker[w].status = "working" => UNCHANGED message
    BY <1>22 DEF Save, SwapAllowed
  <2>2. job'.status = worker[w].status /\ worker[w].status # "queued"
    BY <2>1 DEF SavedJob
  <2>3. worker[w].status \in Ended \union {"working"}
    BY <1>a, <2>2
  <2> QED BY <2>1, <2>2, <2>3
<1>23. ASSUME NEW w \in Workers, SaveLost(w) PROVE Delivery'
  <2>1. /\ worker[w].pc = "save" /\ job.status = "working" /\ UNCHANGED message
    BY <1>23 DEF SaveLost
  <2> QED BY <2>1
<1>24. ASSUME NEW w \in Workers, Enqueue(w) PROVE Delivery'
  BY <1>a, <1>24 DEF Enqueue, Fresh, Sent, Acknowledged, NoMessage, Return,
     IdleWorker, Undisturbed, bookingVars
<1>25. ASSUME NEW w \in Workers, EnqueueLost(w) PROVE Delivery'
  BY <1>a, <1>25 DEF EnqueueLost, Fresh, Sent, Return, IdleWorker, Disturb,
     bookingVars
<1>26. ASSUME NEW w \in Workers, WorkerEnds(w) PROVE Delivery'
  BY <1>a, <1>26 DEF WorkerEnds, MayLeaveWrite, Propose, Take, Return, IdleWorker,
     Disturb, bookingVars
<1> QED
  BY <1>1, <1>2, <1>3, <1>4, <1>5, <1>6, <1>7, <1>8, <1>9, <1>10, <1>11, <1>12,
     <1>13, <1>14, <1>15, <1>16, <1>17, <1>18, <1>19, <1>20, <1>21, <1>22, <1>23,
     <1>24, <1>25, <1>26 DEF Next, ProcessStep, Disturbance
-----------------------------------------------------------------------------

LEMMA InvStep == IInv /\ [Next]_vars => IInv'
BY TypeStep, LeaseStep, OutcomeStep, BoundStep, MessageStep
   DEF IInv, Lease, Outcome, Bound, Delivery

LEMMA InvCorrect == Spec => []IInv
BY InitInv, InvStep, PTL DEF Spec

\* The job's row, its messages and its workers keep their types.
THEOREM TypeCorrect == Spec => []TypeOK
<1>1. IInv => TypeOK
  BY DEF IInv
<1> QED BY <1>1, InvCorrect, PTL

\* At most one worker is between its claim and its save, for any number of
\* deliveries and lost answers.
THEOREM OneActs == Spec => []OneWorkerActs
<1>1. IInv => OneWorkerActs
  BY DEF IInv
<1> QED BY <1>1, InvCorrect, PTL

\* What a job says of its booking is so.
THEOREM OutcomeTrue == Spec => []OutcomeIsTrue
<1>1. IInv => OutcomeIsTrue
  BY DEF IInv
<1> QED BY <1>1, InvCorrect, PTL

\* A working job keeps a message, in the queue or the dead-letter queue.
THEOREM MessageKept == Spec => []WorkingJobHasMessage
<1>1. IInv => WorkingJobHasMessage
  BY DEF IInv
<1> QED BY <1>1, InvCorrect, PTL

\* Claims are bounded by MaxAttempts and the lost ones.
THEOREM RetriesBounded == Spec => []RetriesAreBounded
<1>1. IInv => RetriesAreBounded
  BY DEF IInv
<1> QED BY <1>1, InvCorrect, PTL

\* An ended job's row never changes again.
THEOREM EndedFinal == Spec => EndedIsFinal
<1>1. IInv /\ [Next]_vars => [job.status \in Ended => job' = job]_vars
  <2> SUFFICES ASSUME IInv, [Next]_vars, job.status \in Ended PROVE job' = job
    BY DEF vars
  <2>1. /\ job.status \notin {"absent", "working"} /\ ~job.leased
        /\ \A w \in Workers : /\ worker[w].pc # "save"
                              /\ worker[w].pc = "claim" => ~SwapAllowed(w)
    BY DEF IInv, Ended, LeasedIsWorking, Holder, Candidate, SwapAllowed, Acting
  <2> QED
     BY <2>1 DEF Next, vars, Start, StartEnqueues, StartEnds, LeaseExpires,
       UserConfirms,
        OutsideMoves, DeadLetter, Redeliver, Receive, ReceiveTwice, Deliver,
          ProcessStep,
       Disturbance, ProcessRead, ProcessClaim, ProcessClaimLost, WorkExisting,
       WorkPropose, ConfirmOpens, ConfirmSettles, ConfirmReturns, WorkFails, Check,
       Save, SaveLost, Enqueue, EnqueueLost, WorkerEnds
<1> QED BY <1>1, InvCorrect, PTL DEF Spec, EndedIsFinal
=============================================================================
