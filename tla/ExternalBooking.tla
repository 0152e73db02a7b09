--------------------------- MODULE ExternalBooking ---------------------------
(***************************************************************************)
(* Bookings through an external provider (src/src/booking_api.rs, the      *)
(* provider's client in booking.rs, examples/reconcile_booking.rs): the    *)
(* second user of the bookings table.  A worker is one invocation: a       *)
(* submit, a status poll, or an operator's reconciliation, one store or    *)
(* provider call per step.                                                 *)
(*                                                                         *)
(* A submission may reach the provider long after its sender gave up       *)
(* waiting, and a job that the provider reports as failed may have made    *)
(* the appointment.                                                        *)
(***************************************************************************)
EXTENDS BookingStore

CONSTANTS
  Workers,
  NoStage,       \* a worker that has no stage to save
  MaxRev,        \* bound on the saves of one record
  MaxDisturbed   \* bound on invocations that end early, lost answers included

ASSUME ExternalAssumption ==
  NoStage \notin Stages /\ MaxRev \in Nat /\ MaxDisturbed \in Nat

VARIABLES
  jobKept,      \* operations whose record has the job id
  worker,
  flight,       \* submissions under way to the provider
  job,          \* the provider's job for each operation
  sent,         \* history: submissions sent for each operation
  disturbed

provider == <<flight, job>>
vars == <<storeVars, jobKept, worker, provider, sent, disturbed>>
-----------------------------------------------------------------------------
Jobs == {"none", "queued", "completed", "refused", "failed", "failed_booked"}
Appointed == {"completed", "failed_booked"}
PC == {"idle", "begin", "send", "wait", "save", "lease", "ask", "examine"}
Worker == [pc : PC, op : Ops \union {NoOp}, slot : Slots \union {NoSlot},
           rev : 0..MaxRev, stage : Stages \union {NoStage}, kept : {"no", "yes"}]
IdleWorker == [pc |-> "idle", op |-> NoOp, slot |-> NoSlot, rev |-> 0, stage |-> NoStage,
               kept |-> "no"]

(* parse_status: what the provider may answer about a job.  Only the one    *)
(* rejection that comes before a slot is selected reads slot_unavailable;   *)
(* a failure that was one may first have been reported as any other.        *)
Report(o) ==
  CASE job[o] = "queued" -> {"pending"}
    [] job[o] = "completed" -> {"confirmation_required"}
    [] job[o] = "refused" -> {"slot_unavailable", "unknown"}
    [] job[o] \in {"failed", "failed_booked"} -> {"unknown"}
    [] OTHER -> {}

End(w) == worker' = [worker EXCEPT ![w] = IdleWorker]
Decide(w, stage, kept) ==
  worker' = [worker EXCEPT ![w].pc = "save", ![w].stage = stage, ![w].kept = kept]
Undisturbed == UNCHANGED disturbed
Disturb == disturbed < MaxDisturbed /\ disturbed' = disturbed + 1

Init ==
  /\ StoreInit
  /\ jobKept = {}
  /\ worker = [w \in Workers |-> IdleWorker]
  /\ flight = {} /\ job = [o \in Ops |-> "none"]
  /\ sent = [o \in Ops |-> 0]
  /\ disturbed = 0
-----------------------------------------------------------------------------
(* submit: an id that is known is only looked at; the slot must lie ahead   *)
(* and be offered by the host's page (any answer of which is possible).     *)
Unknown(o) == ~Exists(o)

SendsFirst(w, o, s) ==   \* faulty variant: sends before it claims
  /\ worker[w].pc = "idle"
  /\ Unknown(o)
  /\ Ahead(s)
  /\ worker' = [worker EXCEPT ![w] = [IdleWorker EXCEPT !.pc = "send", !.op = o, !.slot = s]]
  /\ UNCHANGED <<storeVars, jobKept, provider, sent, disturbed>>
SubmitRead(w, o, s) ==
  /\ worker[w].pc = "idle"
  /\ Unknown(o)
  /\ Ahead(s)
  /\ worker' = [worker EXCEPT ![w] = [IdleWorker EXCEPT !.pc = "begin", !.op = o, !.slot = s]]
  /\ UNCHANGED <<storeVars, jobKept, provider, sent, disturbed>>

BeginReclaiming(w) ==   \* faulty variant: a refused claim is taken for its own, lost before
  LET o == worker[w].op IN
  /\ worker[w].pc = "begin"
  /\ IF CanBegin(o, worker[w].slot)
     THEN BeginWrite(o, worker[w].slot) /\ worker' = [worker EXCEPT ![w].pc = "send"]
     ELSE /\ record[o].stage = "submitting"
          /\ worker' = [worker EXCEPT ![w].pc = "send"]
          /\ UNCHANGED storeVars
  /\ Undisturbed
  /\ UNCHANGED <<jobKept, provider, sent>>
\* The durable claim; one that is refused ends the submit with a look at the record.
SubmitBegin(w) ==
  LET o == worker[w].op IN
  /\ worker[w].pc = "begin"
  /\ IF CanBegin(o, worker[w].slot)
     THEN BeginWrite(o, worker[w].slot) /\ worker' = [worker EXCEPT ![w].pc = "send"]
     ELSE End(w) /\ UNCHANGED storeVars
  /\ Undisturbed
  /\ UNCHANGED <<jobKept, provider, sent>>

\* The claim takes effect and its answer is lost: nobody sends or saves it.
SubmitBeginLost(w) ==
  LET o == worker[w].op IN
  /\ worker[w].pc = "begin"
  /\ CanBegin(o, worker[w].slot) /\ BeginWrite(o, worker[w].slot)
  /\ End(w)
  /\ Disturb
  /\ UNCHANGED <<jobKept, provider, sent>>

SubmitSend(w) ==
  LET o == worker[w].op IN
  /\ worker[w].pc = "send"
  /\ flight' = flight \union {o}
  /\ sent' = [sent EXCEPT ![o] = @ + 1]
  /\ worker' = [worker EXCEPT ![w].pc = "wait"]
  /\ UNCHANGED <<storeVars, jobKept, job, disturbed>>

\* InvalidRequest: the payload is refused before anything is sent.
SubmitInvalid(w) ==
  /\ worker[w].pc = "send"
  /\ Decide(w, "failed", "no")
  /\ UNCHANGED <<storeVars, jobKept, provider, sent, disturbed>>

\* 202 with a job id, a client error, and everything else.
SubmitAccepted(w) ==
  LET o == worker[w].op IN
  /\ worker[w].pc = "wait"
  /\ o \notin flight
  /\ Decide(w, "pending", "yes")
  /\ UNCHANGED <<storeVars, jobKept, provider, sent, disturbed>>
SubmitRejected(w) ==
  LET o == worker[w].op IN
  /\ worker[w].pc = "wait"
  /\ o \in flight
  /\ flight' = flight \ {o}
  /\ Decide(w, "failed", "no")
  /\ UNCHANGED <<storeVars, jobKept, job, sent, disturbed>>
GivesUpAsFailed(w) ==   \* faulty variant: a timeout is a refusal
  /\ worker[w].pc = "wait"
  /\ Decide(w, "failed", "no")
  /\ Disturb
  /\ UNCHANGED <<storeVars, jobKept, provider, sent>>
SubmitGivesUp(w) ==
  /\ worker[w].pc = "wait"
  /\ Decide(w, "unknown", "no")
  /\ Disturb
  /\ UNCHANGED <<storeVars, jobKept, provider, sent>>
-----------------------------------------------------------------------------
(* The save that ends each of the three: it releases what the stage says.   *)
Saved(w) == [stage |-> worker[w].stage, slot |-> record[worker[w].op].slot,
             rev |-> worker[w].rev + 1, due |-> FALSE]
Release(w) == worker[w].stage \in Refused

Save1(w) ==
  LET o == worker[w].op IN
  /\ CanSave(o, Saved(w), worker[w].rev, Release(w))
  /\ SaveWrite(o, Saved(w), Release(w))
  /\ jobKept' = IF worker[w].kept = "yes" THEN jobKept \union {o} ELSE jobKept

SaveResult(w) ==
  /\ worker[w].pc = "save"
  /\ \/ Save1(w) /\ Undisturbed
     \/ Save1(w) /\ Disturb
     \/ ~CanSave(worker[w].op, Saved(w), worker[w].rev, Release(w))
        /\ UNCHANGED <<storeVars, jobKept, disturbed>>
  /\ End(w)
  /\ UNCHANGED <<provider, sent>>
-----------------------------------------------------------------------------
(* status: a pending record that is due is leased to one poll.              *)
PollRead(w, o) ==
  /\ worker[w].pc = "idle"
  /\ record[o].stage = "pending" /\ record[o].due
  /\ record[o].rev < MaxRev - 1
  /\ worker' = [worker EXCEPT ![w] =
       [IdleWorker EXCEPT !.pc = "lease", !.op = o, !.rev = record[o].rev, !.kept = "yes"]]
  /\ UNCHANGED <<storeVars, jobKept, provider, sent, disturbed>>

Leased(w) == [stage |-> "pending", slot |-> record[worker[w].op].slot,
              rev |-> worker[w].rev + 1, due |-> FALSE]
PollLease(w) ==
  LET o == worker[w].op IN
  /\ worker[w].pc = "lease"
  /\ IF CanSave(o, Leased(w), worker[w].rev, FALSE)
     THEN /\ SaveWrite(o, Leased(w), FALSE)
          /\ worker' = [worker EXCEPT ![w].pc = "ask", ![w].rev = @ + 1]
     ELSE End(w) /\ UNCHANGED storeVars
  /\ UNCHANGED <<jobKept, provider, sent, disturbed>>

PollAsk(w) ==
  /\ worker[w].pc = "ask"
  /\ \E stage \in Report(worker[w].op) : Decide(w, stage, "yes")
  /\ UNCHANGED <<storeVars, jobKept, provider, sent, disturbed>>

(* reconcile_booking, run by an operator on an unknown operation with a job.  *)
ReconcileRead(w, o) ==
  /\ worker[w].pc = "idle"
  /\ record[o].stage = "unknown" /\ o \in jobKept
  /\ record[o].rev < MaxRev
  /\ worker' = [worker EXCEPT ![w] =
       [IdleWorker EXCEPT !.pc = "examine", !.op = o, !.rev = record[o].rev, !.kept = "yes"]]
  /\ UNCHANGED <<storeVars, jobKept, provider, sent, disturbed>>

ReleaseAnyFailure(w) ==   \* faulty variant: every failed job is released
  /\ worker[w].pc = "examine"
  /\ Report(worker[w].op) \subseteq {"slot_unavailable", "unknown"}
  /\ Decide(w, "slot_unavailable", "yes")
  /\ UNCHANGED <<storeVars, jobKept, provider, sent, disturbed>>
ReconcileAsk(w) ==
  /\ worker[w].pc = "examine"
  /\ \/ "slot_unavailable" \in Report(worker[w].op) /\ Decide(w, "slot_unavailable", "yes")
     \/ Report(worker[w].op) # {"slot_unavailable"} /\ End(w)
  /\ UNCHANGED <<storeVars, jobKept, provider, sent, disturbed>>

\* An error answer, the invocation's 28 seconds, or a crash.
EndsEarly(w) ==
  /\ worker[w].pc # "idle"
  /\ End(w)
  /\ Disturb
  /\ UNCHANGED <<storeVars, jobKept, provider, sent>>
-----------------------------------------------------------------------------
(* The provider takes a submission when it arrives, and runs its job.       *)
ProviderTakes(o) ==
  /\ o \in flight
  /\ flight' = flight \ {o}
  /\ job' = [job EXCEPT ![o] = "queued"]
  /\ UNCHANGED <<storeVars, jobKept, worker, sent, disturbed>>

ProviderRuns(o) ==
  /\ job[o] = "queued"
  /\ \E end \in Jobs \ {"none", "queued"} : job' = [job EXCEPT ![o] = end]
  /\ UNCHANGED <<storeVars, jobKept, worker, flight, sent, disturbed>>

(* Time.  The days from a slot's start to the end of its guard are one      *)
(* step, which no invocation (28 seconds at most) waits out.                *)
PollDue(o) == BecomeDue(o) /\ UNCHANGED <<jobKept, worker, provider, sent, disturbed>>

SlotPasses(s) ==
  /\ \A w \in Workers : worker[w].pc = "begin" => worker[w].slot # s
  /\ SlotEnds(s)
  /\ UNCHANGED <<jobKept, worker, provider, sent, disturbed>>

SlotGuardExpires(k) ==
  GuardExpires(k) /\ UNCHANGED <<jobKept, worker, provider, sent, disturbed>>

Step(w) ==
  \/ SubmitBegin(w) \/ SubmitSend(w) \/ SubmitInvalid(w)
  \/ SubmitAccepted(w) \/ SubmitRejected(w) \/ SaveResult(w)
  \/ PollLease(w) \/ PollAsk(w) \/ ReconcileAsk(w)

Next ==
  \/ \E w \in Workers : Step(w)
  \/ \E w \in Workers : SubmitBeginLost(w) \/ SubmitGivesUp(w) \/ EndsEarly(w)
  \/ \E w \in Workers, o \in Ops :
       (\E s \in Slots : SubmitRead(w, o, s)) \/ PollRead(w, o) \/ ReconcileRead(w, o)
  \/ \E o \in Ops : ProviderTakes(o) \/ ProviderRuns(o) \/ PollDue(o)
  \/ \E s \in Slots : SlotPasses(s)
  \/ \E k \in PairSlots : SlotGuardExpires(k)

Spec == Init /\ [][Next]_vars
-----------------------------------------------------------------------------
\* Every state is of its type, the operation a worker works on exists once its
\* claim is made, and only a claimed operation reaches the provider.
TypeOK ==
  /\ StoreTypeOK
  /\ jobKept \subseteq Ops
  /\ worker \in [Workers -> Worker]
  /\ flight \subseteq Ops
  /\ job \in [Ops -> Jobs]
  /\ sent \in [Ops -> Nat]
  /\ disturbed \in 0..MaxDisturbed
  /\ \A w \in Workers : worker[w].pc \notin {"idle", "begin"} => Exists(worker[w].op)
  /\ \A o \in Ops : o \in flight \/ job[o] # "none" => Exists(o)

\* "No request may reclaim this write" (submit, booking_api.rs): whatever the
\* retries of an operation id and the answers that are lost, the provider is
\* sent at most one submission for it.
SubmittedAtMostOnce == \A o \in Ops : sent[o] <= 1

\* An operation the service calls failed or slot_unavailable, which frees its
\* agents and its slot for another, has made no appointment and cannot make
\* one later: nothing of it is under way and its job did not book.  (Every
\* failure but the one that comes before a slot is selected stays unknown.)
RefusedHasNoAppointment ==
  \A o \in Ops : record[o].stage \in Refused => o \notin flight /\ job[o] \in {"none", "refused"}

\* The provider makes at most one appointment of a pair at a slot, whatever
\* its failed jobs did and although the guard of the pair at the slot expires
\* while operations are still unresolved.
PairAppointedOnce ==
  \A o, p \in Ops :
    /\ o # p /\ Parties(o) = Parties(p)
    /\ job[o] \in Appointed /\ job[p] \in Appointed
    => record[o].slot # record[p].slot
-----------------------------------------------------------------------------
\* The promise of MeetingPromise: an appointment is a meeting that the service
\* never sees accepted, so it calls no operation booked.
Promise == INSTANCE MeetingPromise
             WITH outcome <- [o \in Ops |-> Outcome(o)],
                  meeting <- [o \in Ops |-> IF job[o] \in Appointed THEN "live" ELSE "none"],
                  agreed <- {}
KeepsPromise == Promise!PromiseSpec
=============================================================================
