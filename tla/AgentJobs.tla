----------------------------- MODULE AgentJobs -----------------------------
(***************************************************************************)
(* A durable agent job (src/src/agent/jobs.rs): the request that creates   *)
(* and enqueues it, the queue that delivers its messages at least once and *)
(* buries one after MaxReceives failed deliveries, and the workers that    *)
(* process it under a lease and a revision.  Jobs share nothing, so one    *)
(* job is modelled.                                                        *)
(*                                                                         *)
(* Its booking is seen through what ConnectedBooking promises: absent,     *)
(* then open, then booked or refused.  Besides the job, a begin that       *)
(* outlives the worker that gave up on it, or the user's own confirm of    *)
(* the job's proposal, may open it: the proposal is then "taken".          *)
(*                                                                         *)
(* Crashes, lost answers, duplicate deliveries and a redelivery that finds *)
(* the lease of an ended worker are counted in "disturbed".                *)
(***************************************************************************)
EXTENDS Integers

CONSTANTS
  Workers,        \* invocations of the worker function (at most two at a time)
  Messages, NoId, \* the ids of messages; NoId is none of them
  MaxAttempts,    \* 20
  MaxReceives,    \* 4, the queue's maxReceiveCount
  MaxStarts,      \* bound on the requests that start the job
  MaxDisturbed    \* bound on disturbances

ASSUME JobAssumption ==
  /\ NoId \notin Messages
  /\ MaxAttempts \in Nat \ {0} /\ MaxReceives \in Nat
  /\ MaxStarts \in Nat /\ MaxDisturbed \in Nat

VARIABLES
  job,         \* the "job:" row; leased stands for lease_until > now
  message,     \* the queue
  worker,      \* the invocations of process
  starting,    \* the number of start requests about to enqueue
  starts, 
  booking,     \* the outcome of the booking with the job's id
  offer,       \* the job's proposal: none, stored, or taken outside the job
  disturbed

bookingVars == <<booking, offer>>
vars == <<job, message, worker, starting, starts, bookingVars, disturbed>>
-----------------------------------------------------------------------------
Ended == {"booked", "failed", "no_common_slot", "needs_attention"}
Status == Ended \union {"queued", "working"}
Job == [status : Status \union {"absent"}, leased : BOOLEAN, attempts : Nat, rev : Nat]
NoMessage == [at |-> "none", receives |-> 0]
Message == [at : {"none", "queued", "inflight", "dead"}, receives : 0..MaxReceives]
Acting == {"work", "propose", "confirm", "check", "save"}
PC == {"idle", "read", "claim", "enqueue"} \union Acting
Worker == [pc : PC, message : Messages \union {NoId}, attempts : Nat, rev : Nat,
           status : Status]
IdleWorker == [pc |-> "idle", message |-> NoId, attempts |-> 0, rev |-> 0,
               status |-> "queued"]

Disturb == disturbed < MaxDisturbed /\ disturbed' = disturbed + 1
Undisturbed == UNCHANGED disturbed

Goto(w, pc) == worker' = [worker EXCEPT ![w].pc = pc]
Return(w) == worker' = [worker EXCEPT ![w] = IdleWorker]
Decide(w, status) ==
  worker' = [worker EXCEPT ![w].pc = "save", ![w].status = status]
Held(m) == \E w \in Workers : worker[w].message = m
Fresh(m) == message[m] = NoMessage /\ ~Held(m)
Acknowledged(w) == [message EXCEPT ![worker[w].message] = NoMessage]
Sent(queue, m) == [queue EXCEPT ![m] = [at |-> "queued", receives |-> 0]]
\* A pending booking is tried again, a bounded number of times.
Again(w) == worker[w].attempts < MaxAttempts
-----------------------------------------------------------------------------
Init ==
  /\ job = [status |-> "absent", leased |-> FALSE, attempts |-> 0, rev |-> 0]
  /\ message = [m \in Messages |-> NoMessage]
  /\ worker = [w \in Workers |-> IdleWorker]
  /\ starting = 0 /\ starts = 0
  /\ booking = "absent" /\ offer = "none"
  /\ disturbed = 0
-----------------------------------------------------------------------------
(* start: creates the row, or finds it; a job still queued is enqueued (again). *)

Start ==
  /\ starts < MaxStarts
  /\ starts' = starts + 1
  /\ IF job.status = "absent" THEN job' = [job EXCEPT !.status = "queued"]
                              ELSE UNCHANGED job
  /\ starting' = IF job.status \in {"absent", "queued"} THEN starting + 1 ELSE starting
  /\ UNCHANGED <<message, worker, bookingVars>> /\ Undisturbed

StartEnqueues ==
  /\ starting > 0 /\ starting' = starting - 1
  /\ \E m \in Messages : Fresh(m) /\ message' = Sent(message, m)
  /\ UNCHANGED <<job, worker, starts, bookingVars>> /\ Undisturbed

StartEnds ==
  /\ starting > 0 /\ starting' = starting - 1
  /\ Disturb
  /\ UNCHANGED <<job, message, worker, starts, bookingVars>>
-----------------------------------------------------------------------------
(* The queue. *)

DeliverOnceTooOften(w, m) ==     \* faulty variant
  /\ worker[w] = IdleWorker
  /\ message' = [message EXCEPT ![m].at = "inflight", ![m].receives = @ + 1]
  /\ worker' = [worker EXCEPT ![w].pc = "read", ![w].message = m]
  /\ UNCHANGED <<job, starting, starts, bookingVars>>

Deliver(w, m) ==
  /\ worker[w] = IdleWorker /\ message[m].receives < MaxReceives
  /\ message' = [message EXCEPT ![m].at = "inflight", ![m].receives = @ + 1]
  /\ worker' = [worker EXCEPT ![w].pc = "read", ![w].message = m]
  /\ UNCHANGED <<job, starting, starts, bookingVars>>

Receive(w, m) == message[m].at = "queued" /\ Deliver(w, m) /\ Undisturbed

\* At-least-once delivery: a message already in flight is delivered again.
ReceiveTwice(w, m) == message[m].at = "inflight" /\ Deliver(w, m) /\ Disturb

DeadLetter(m) ==
  /\ message[m].at = "queued" /\ message[m].receives = MaxReceives
  /\ message' = [message EXCEPT ![m].at = "dead"]
  /\ UNCHANGED <<job, worker, starting, starts, bookingVars>> /\ Undisturbed

\* The visibility timeout (1440 s) outlasts a worker (240 s) and the lease it
\* took (300 s): a message that comes back finds the job leased only if another
\* delivery took it since.
Redeliver(m) ==
  /\ message[m].at = "inflight"
  /\ ~Held(m)
  /\ message' = [message EXCEPT ![m].at = "queued"]
  /\ IF job.leased THEN Disturb ELSE Undisturbed
  /\ UNCHANGED <<job, worker, starting, starts, bookingVars>>

\* A lease lasts longer than the worker that took it.
LeaseExpires ==
  /\ job.leased /\ \A w \in Workers : worker[w].pc \notin Acting
  /\ job' = [job EXCEPT !.leased = FALSE]
  /\ UNCHANGED <<message, worker, starting, starts, bookingVars>> /\ Undisturbed
-----------------------------------------------------------------------------
(* process *)

ProcessReadIgnoringLease(w) ==   \* faulty variant
  /\ worker[w].pc = "read"
  /\ IF job.status \in Ended
       THEN message' = Acknowledged(w) /\ Return(w)
       ELSE /\ worker' = [worker EXCEPT ![w].pc = "claim", ![w].rev = job.rev,
                                        ![w].attempts = job.attempts]
            /\ UNCHANGED message
  /\ UNCHANGED <<job, starting, starts, bookingVars>> /\ Undisturbed

ProcessReadDroppingBusy(w) ==    \* faulty variant
  /\ worker[w].pc = "read"
  /\ IF job.status \in Ended \/ job.leased
       THEN message' = Acknowledged(w) /\ Return(w)
       ELSE /\ worker' = [worker EXCEPT ![w].pc = "claim", ![w].rev = job.rev,
                                        ![w].attempts = job.attempts]
            /\ UNCHANGED message
  /\ UNCHANGED <<job, starting, starts, bookingVars>> /\ Undisturbed

\* A job that has ended needs nothing; one that is leased is busy, and its
\* message comes back later.
ProcessRead(w) ==
  /\ worker[w].pc = "read"
  /\ CASE job.status \in Ended -> message' = Acknowledged(w) /\ Return(w)
       [] job.status \notin Ended /\ job.leased -> Return(w) /\ UNCHANGED message
       [] OTHER -> /\ worker' = [worker EXCEPT ![w].pc = "claim", ![w].rev = job.rev,
                                               ![w].attempts = job.attempts]
                   /\ UNCHANGED message
  /\ UNCHANGED <<job, starting, starts, bookingVars>> /\ Undisturbed

SwapAllowed(w) == job.rev = worker[w].rev
ClaimedJob(w) == [status |-> "working", leased |-> TRUE,
                  attempts |-> worker[w].attempts + 1, rev |-> worker[w].rev + 1]

ProcessClaim(w) ==
  /\ worker[w].pc = "claim"
  /\ IF SwapAllowed(w)
       THEN /\ job' = ClaimedJob(w)
            /\ worker' = [worker EXCEPT ![w].pc = "work", ![w].rev = @ + 1,
                                        ![w].attempts = @ + 1]
       ELSE UNCHANGED job /\ Return(w)
  /\ UNCHANGED <<message, starting, starts, bookingVars>> /\ Undisturbed

ProcessClaimLost(w) ==
  /\ worker[w].pc = "claim" /\ SwapAllowed(w)
  /\ job' = ClaimedJob(w) /\ Return(w)
  /\ Disturb
  /\ UNCHANGED <<message, starting, starts, bookingVars>>

\* Is there a booking already?  If so it is only confirmed.
WorkExisting(w) ==
  /\ worker[w].pc = "work"
  /\ Goto(w, IF booking = "absent" THEN "propose" ELSE "confirm")
  /\ UNCHANGED <<job, message, starting, starts, bookingVars>> /\ Undisturbed

\* The proposal is stored, or replaced.
Propose == offer' = IF offer = "none" THEN "stored" ELSE offer

WorkPropose(w) ==
  /\ worker[w].pc = "propose"
  /\ \/ Goto(w, "confirm") /\ Propose
     \/ Decide(w, "no_common_slot") /\ UNCHANGED offer
  /\ UNCHANGED <<job, message, starting, starts, booking>> /\ Undisturbed

\* confirm opens the booking of the proposal, and may settle it.
ConfirmOpens(w) ==
  /\ worker[w].pc = "confirm" /\ booking = "absent" /\ offer # "none"
  /\ booking' = "open"
  /\ UNCHANGED <<job, message, worker, starting, starts, offer>>
  /\ Undisturbed

ConfirmSettles(w) ==
  /\ worker[w].pc = "confirm" /\ booking = "open"
  /\ booking' \in {"booked", "refused"}
  /\ UNCHANGED <<job, message, worker, starting, starts, offer>>
  /\ Undisturbed

Pending(w) == IF Again(w) THEN "working" ELSE "needs_attention"

\* confirm shows the booking it read, which may have been settled since.
ConfirmReturns(w) ==
  /\ worker[w].pc = "confirm" /\ booking # "absent"
  /\ \/ booking = "booked" /\ Decide(w, "booked")
     \/ booking = "refused" /\ Decide(w, "failed")
     \/ Decide(w, Pending(w))
  /\ UNCHANGED <<job, message, starting, starts, bookingVars>> /\ Undisturbed

\* Whoever gives up on a worker may leave a write of it under way.
Take == offer # "none" /\ offer' = "taken"
MayLeaveWrite(w) ==
  /\ UNCHANGED booking
  /\ \/ UNCHANGED offer
     \/ worker[w].pc = "propose" /\ Propose
     \/ worker[w].pc = "confirm" /\ booking = "absent" /\ Take

\* Any error, or the 210 seconds.
WorkFails(w) ==
  /\ worker[w].pc \in {"work", "propose", "confirm"}
  /\ Goto(w, "check") /\ MayLeaveWrite(w)
  /\ UNCHANGED <<job, message, starting, starts>> /\ Undisturbed

CheckFailsAlways(w) ==           \* faulty variant
  /\ worker[w].pc = "check"
  /\ Decide(w, "failed")
  /\ UNCHANGED <<job, message, starting, starts, bookingVars>> /\ Undisturbed

\* After an error the job is retried only if a booking exists.
Check(w) ==
  /\ worker[w].pc = "check"
  /\ Decide(w, IF booking = "absent" THEN "failed" ELSE Pending(w))
  /\ UNCHANGED <<job, message, starting, starts, bookingVars>> /\ Undisturbed

SavedJob(w) == [status |-> worker[w].status, leased |-> FALSE,
                attempts |-> worker[w].attempts, rev |-> worker[w].rev + 1]

SaveAcknowledgingFirst(w) ==     \* faulty variant
  /\ worker[w].pc = "save"
  /\ IF ~SwapAllowed(w) THEN Return(w) /\ UNCHANGED <<job, message>>
     ELSE /\ job' = SavedJob(w) /\ message' = Acknowledged(w)
          /\ IF worker[w].status = "working" THEN Goto(w, "enqueue") ELSE Return(w)
  /\ UNCHANGED <<starting, starts, bookingVars>> /\ Undisturbed

\* A job that is tried again is enqueued before its message is acknowledged.
Save(w) ==
  /\ worker[w].pc = "save"
  /\ IF ~SwapAllowed(w) THEN Return(w) /\ UNCHANGED <<job, message>>
     ELSE /\ job' = SavedJob(w)
          /\ IF worker[w].status = "working"
               THEN Goto(w, "enqueue") /\ UNCHANGED message
               ELSE Return(w) /\ message' = Acknowledged(w)
  /\ UNCHANGED <<starting, starts, bookingVars>> /\ Undisturbed

SaveLost(w) ==
  /\ worker[w].pc = "save" /\ SwapAllowed(w)
  /\ job' = SavedJob(w) /\ Return(w)
  /\ Disturb
  /\ UNCHANGED <<message, starting, starts, bookingVars>>

SaveConflicts(w) ==
  /\ worker[w].pc = "save" /\ ~SwapAllowed(w)
  /\ Return(w)
  /\ UNCHANGED <<job, message, starting, starts, bookingVars>> /\ Undisturbed

Enqueue(w) ==
  /\ worker[w].pc = "enqueue"
  /\ \E m \in Messages : Fresh(m) /\ message' = Sent(Acknowledged(w), m)
  /\ Return(w)
  /\ UNCHANGED <<job, starting, starts, bookingVars>> /\ Undisturbed

EnqueueLost(w) ==
  /\ worker[w].pc = "enqueue"
  /\ \E m \in Messages : Fresh(m) /\ message' = Sent(message, m)
  /\ Return(w)
  /\ Disturb
  /\ UNCHANGED <<job, starting, starts, bookingVars>>

\* The invocation ends where it is: an unavailable table or queue, the 240
\* seconds, a crash.  Its message is not acknowledged.
WorkerEnds(w) ==
  /\ worker[w].pc # "idle"
  /\ Return(w)
  /\ MayLeaveWrite(w)
  /\ Disturb
  /\ UNCHANGED <<job, message, starting, starts>>
-----------------------------------------------------------------------------
(* Outside the job. *)

\* The user confirms the job's proposal (POST /calendar/bookings).
UserConfirms ==
  /\ Take
  /\ UNCHANGED <<job, message, worker, starting, starts, booking>>
  /\ Undisturbed

OutsideMoves ==
  /\ offer = "taken"
  /\ \/ booking = "absent" /\ booking' = "open"
     \/ booking = "open" /\ booking' \in {"booked", "refused"}
  /\ UNCHANGED <<job, message, worker, starting, starts, offer>>
  /\ Undisturbed
-----------------------------------------------------------------------------
ProcessStep(w) ==
  \/ ProcessRead(w) \/ ProcessClaim(w) \/ WorkExisting(w) \/ WorkPropose(w)
  \/ ConfirmOpens(w) \/ ConfirmSettles(w) \/ ConfirmReturns(w) \/ WorkFails(w)
  \/ Check(w) \/ Save(w) \/ Enqueue(w)

Disturbance(w) ==
  ProcessClaimLost(w) \/ SaveLost(w) \/ EnqueueLost(w) \/ WorkerEnds(w)

Next ==
  \/ Start \/ StartEnqueues \/ StartEnds \/ LeaseExpires
  \/ UserConfirms \/ OutsideMoves
  \/ \E m \in Messages : DeadLetter(m) \/ Redeliver(m)
  \/ \E w \in Workers : \/ \E m \in Messages : Receive(w, m) \/ ReceiveTwice(w, m)
                        \/ ProcessStep(w) \/ Disturbance(w)

Spec == Init /\ [][Next]_vars

\* Invocations run, the queue delivers, leases expire.
Fairness ==
  /\ \A w \in Workers : WF_vars(ProcessStep(w))
  /\ WF_vars(\E w \in Workers, m \in Messages : Receive(w, m))
  /\ \A m \in Messages : WF_vars(Redeliver(m)) /\ WF_vars(DeadLetter(m))
  /\ WF_vars(LeaseExpires) /\ WF_vars(StartEnqueues)

FairSpec == Spec /\ Fairness
-----------------------------------------------------------------------------
TypeOK ==
  /\ job \in Job
  /\ message \in [Messages -> Message]
  /\ worker \in [Workers -> Worker]
  /\ starting \in Nat /\ starts \in 0..MaxStarts
  /\ booking \in {"absent", "open", "booked", "refused"}
  /\ offer \in {"none", "stored", "taken"}
  /\ disturbed \in 0..MaxDisturbed

\* "A durable 300-second compare-and-swap lease prevents concurrent workers
\* processing a task": at most one worker is between its claim and its save.
OneWorkerActs ==
  \A v, w \in Workers : worker[v].pc \in Acting /\ worker[w].pc \in Acting => v = w

\* A job says booked only of a booking that is, and says failed or
\* no_common_slot only if nothing was booked and nothing is under way, unless
\* someone outside the job takes its proposal up.
OutcomeIsTrue ==
  /\ job.status = "booked" => booking = "booked"
  /\ job.status \in {"failed", "no_common_slot"} /\ offer # "taken" =>
       booking \in {"absent", "refused"}

\* A job that is not ended keeps a message that will continue it, whatever
\* crashes between its save and its next delivery; only the dead-letter queue
\* takes it away.
WorkingJobHasMessage ==
  job.status = "working" => \E m \in Messages : message[m].at # "none"

\* "Bounded retries": the job is claimed at most MaxAttempts times, and once
\* more for each claim or outcome of it that was lost.
RetriesAreBounded == job.attempts <= MaxAttempts + disturbed

\* An ended job is never worked on again: its outcome stands.
EndedIsFinal == [][job.status \in Ended => job' = job]_vars

\* A job in the queue ends, if fewer deliveries fail than bury a message.
JobEnds ==
  (\E m \in Messages : message[m].at \in {"queued", "inflight"}) ~> job.status \in Ended

\* "Pending bookings are automatically reconciled with bounded retries, then
\* reported as needing attention."
PendingIsReported ==
  job.status = "working" /\ booking = "open" ~> job.status \in Ended
=============================================================================
