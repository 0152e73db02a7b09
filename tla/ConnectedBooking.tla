-------------------------- MODULE ConnectedBooking --------------------------
(***************************************************************************)
(* Booking between two connected calendars (src/src/connected.rs): the     *)
(* confirm invocations of the guest's side, the commit_booking handler of  *)
(* the host's side that they reach over A2A, and the Google calendars.     *)
(*                                                                         *)
(* A worker is one confirm call.  It and the handler it calls are separate *)
(* invocations: the caller may time out, be cancelled by the HTTP deadline *)
(* or crash while the handler goes on, and a store or Google call may take *)
(* effect although its answer is lost.  Each such disturbance is an action *)
(* of its own, counted in "disturbed" and bounded by MaxDisturbed; MaxRev  *)
(* bounds how often an operation whose event is not live is claimed again. *)
(*                                                                         *)
(* Calendar contents the service did not write are not kept as state: an   *)
(* availability read may always answer "busy", and answers "free" only if  *)
(* no event of the service is in the way.                                  *)
(***************************************************************************)
EXTENDS BookingStore, FiniteSets

CONSTANTS
  Workers,       \* concurrent confirm invocations
  Overlap,       \* the pairs of slots that overlap
  MaxRev, MaxDisturbed

ASSUME OverlapAssumption ==
  /\ Overlap \subseteq Slots \X Slots
  /\ \A s \in Slots : <<s, s>> \in Overlap
  /\ \A s, t \in Slots : <<s, t>> \in Overlap => <<t, s>> \in Overlap

ASSUME BoundAssumption == MaxRev \in Nat /\ MaxDisturbed \in Nat

VARIABLES
  proposal,    \* the "proposal:" rows: the slot offered, or NoSlot
  worker,      \* the confirm invocations
  call,        \* call[w]: the commit_booking handler that w's message reaches
  grant,       \* the workers whose "a2a-grant:" row exists
  event,       \* the event with the operation's deterministic id (host's calendar)
  accepted,    \* the operations whose guest copy is accepted
  declined,    \* the operations whose guest ever withdrew
  agreed,      \* history: ever live with an accepted guest copy
  inserts,     \* history: insert requests sent to Google for the operation
  disturbed

calendarVars == <<event, accepted, declined, agreed, inserts>>
vars == <<storeVars, proposal, worker, call, grant, calendarVars, disturbed>>
-----------------------------------------------------------------------------
WorkerPC == {"idle", "precheck", "begin", "claim", "recheck", "call", "wait",
             "accept", "readback", "finish"}
\* How advance ended: Ok(Booked), Ok(Pending), or the errors confirm tells apart.
Results == {"none", "booked", "pending", "slot_no_longer_available",
            "calendar_preflight_failed", "other_error"}
IdleWorker == [pc |-> "idle", op |-> NoOp, slot |-> NoSlot, stage |-> "absent",
               rev |-> 0, fresh |-> FALSE, result |-> "none"]
Worker == [pc : WorkerPC, op : Ops \union {NoOp}, slot : Slots \union {NoSlot},
           stage : Unresolved \union {"absent"}, rev : Nat, fresh : BOOLEAN,
           result : Results]

CallPC == {"idle", "sent", "authorized", "lookup", "availability", "insert", "replied"}
Replies == {"none", "event_created", "slot_no_longer_available", "error"}
IdleCall == [pc |-> "idle", op |-> NoOp, submit |-> FALSE, reply |-> "none"]
Call == [pc : CallPC, op : Ops \union {NoOp}, submit : BOOLEAN, reply : Replies]

\* An agent's primary calendar shows the events it hosts and those it accepted.
Busy(a, o) ==
  /\ event[o] = "live"
  /\ a = Host[o] \/ (a = Peer[o] /\ o \in accepted)
MayBeFree(a, s) ==
  ~ \E o \in Ops : Busy(a, o) /\ <<record[o].slot, s>> \in Overlap

Goto(w, pc) == worker' = [worker EXCEPT ![w].pc = pc]
Finish(w, result) == worker' = [worker EXCEPT ![w].pc = "finish", ![w].result = result]
Return(w) == worker' = [worker EXCEPT ![w] = IdleWorker]
Disturb == disturbed < MaxDisturbed /\ disturbed' = disturbed + 1
Undisturbed == UNCHANGED disturbed
-----------------------------------------------------------------------------
Init ==
  /\ StoreInit
  /\ proposal = [o \in Ops |-> NoSlot]
  /\ worker = [w \in Workers |-> IdleWorker]
  /\ call = [w \in Workers |-> IdleCall]
  /\ grant = {}
  /\ event = [o \in Ops |-> "none"]
  /\ accepted = {} /\ declined = {} /\ agreed = {}
  /\ inserts = [o \in Ops |-> 0]
  /\ disturbed = 0
-----------------------------------------------------------------------------
(* propose_with_id: a slot both calendars show free is offered; a later    *)
(* proposal with the same id replaces it.  It expires after 15 minutes; a  *)
(* slot that has begun is neither offered nor confirmed.                   *)

Propose(o, s) ==
  /\ ~Exists(o) /\ Ahead(s)
  /\ MayBeFree(Host[o], s) /\ MayBeFree(Peer[o], s)
  /\ proposal' = [proposal EXCEPT ![o] = s]
  /\ UNCHANGED <<storeVars, worker, call, grant, calendarVars>> /\ Undisturbed

ProposalExpires(o) ==
  /\ proposal[o] # NoSlot
  /\ proposal' = [proposal EXCEPT ![o] = NoSlot]
  /\ UNCHANGED <<storeVars, worker, call, grant, calendarVars>> /\ Undisturbed

AttemptPC == {"recheck", "call", "wait", "accept", "readback", "finish"}
Attempts(w, o) == worker[w].op = o /\ worker[w].pc \in AttemptPC

\* A claim lasts 35 seconds, longer than an attempt takes; an attempt that is
\* stalled longer counts as disturbed.
NextPollReached(o) ==
  /\ BecomeDue(o)
  /\ IF \E w \in Workers : Attempts(w, o) THEN Disturb ELSE Undisturbed
  /\ UNCHANGED <<proposal, worker, call, grant, calendarVars>>

\* The days from a slot's start to the end of its guard's life are one step.
\* An invocation looks at the clock before it claims a slot and ends within
\* minutes, so none that is about to claim waits that step out; one that has
\* claimed may find its guard gone.
SlotPasses(s) ==
  /\ \A w \in Workers : worker[w].pc \in {"precheck", "begin"} => worker[w].slot # s
  /\ SlotEnds(s)
  /\ UNCHANGED <<proposal, worker, call, grant, calendarVars>> /\ Undisturbed

SlotGuardExpires(k) ==
  /\ GuardExpires(k)
  /\ UNCHANGED <<proposal, worker, call, grant, calendarVars>> /\ Undisturbed
-----------------------------------------------------------------------------
(* confirm, up to the point where it owns the operation.                   *)

Available(w) == worker[w] = IdleWorker /\ call[w] = IdleCall

ConfirmExistingLeavesUnknown(w, o) ==   \* faulty variant
  /\ Available(w)
  /\ Open(o) /\ record[o].stage # "unknown" /\ record[o].due
  /\ record[o].rev < MaxRev \/ event[o] = "live"
  /\ worker' = [worker EXCEPT ![w] =
                  [pc |-> "claim", op |-> o, slot |-> record[o].slot,
                   stage |-> record[o].stage, rev |-> record[o].rev,
                   fresh |-> FALSE, result |-> "none"]]
  /\ UNCHANGED <<storeVars, proposal, call, grant, calendarVars>> /\ Undisturbed

\* An existing record that is unresolved and due is taken over; any other is
\* only shown.
ConfirmExisting(w, o) ==
  /\ Available(w)
  /\ Open(o) /\ record[o].due
  /\ record[o].rev < MaxRev \/ event[o] = "live"
  /\ worker' = [worker EXCEPT ![w] =
                  [pc |-> "claim", op |-> o, slot |-> record[o].slot,
                   stage |-> record[o].stage, rev |-> record[o].rev,
                   fresh |-> FALSE, result |-> "none"]]
  /\ UNCHANGED <<storeVars, proposal, call, grant, calendarVars>> /\ Undisturbed

ConfirmProposal(w, o) ==
  /\ Available(w)
  /\ ~Exists(o) /\ proposal[o] # NoSlot /\ Ahead(proposal[o])
  /\ worker' = [worker EXCEPT ![w] =
                  [pc |-> "precheck", op |-> o, slot |-> proposal[o],
                   stage |-> "submitting", rev |-> 0, fresh |-> TRUE,
                   result |-> "none"]]
  /\ UNCHANGED <<storeVars, proposal, call, grant, calendarVars>> /\ Undisturbed

\* The guest's availability, before anything is written.
ConfirmPrecheck(w) ==
  /\ worker[w].pc = "precheck"
  /\ \/ MayBeFree(Peer[worker[w].op], worker[w].slot) /\ Goto(w, "begin")
     \/ Return(w)
  /\ UNCHANGED <<storeVars, proposal, call, grant, calendarVars>> /\ Undisturbed

\* begin; when it answers false the record is shown, or the caller is told
\* that a booking is in progress.
ConfirmBegin(w) ==
  LET o == worker[w].op  s == worker[w].slot IN
  /\ worker[w].pc = "begin"
  /\ IF CanBegin(o, s) THEN BeginWrite(o, s) /\ Goto(w, "recheck")
                       ELSE UNCHANGED storeVars /\ Return(w)
  /\ UNCHANGED <<proposal, call, grant, calendarVars>> /\ Undisturbed

ClaimRecordWithoutSlot(w) ==     \* faulty variant
  [stage |-> worker[w].stage, slot |-> NoSlot,
   rev |-> worker[w].rev + 1, due |-> FALSE]

\* The claim of a retry: the revision moves, and next_poll by 35 seconds.
ClaimRecord(w) ==
  [stage |-> worker[w].stage, slot |-> worker[w].slot,
   rev |-> worker[w].rev + 1, due |-> FALSE]

ConfirmClaim(w) ==
  LET o == worker[w].op IN
  /\ worker[w].pc = "claim"
  /\ IF CanSave(o, ClaimRecord(w), worker[w].rev, FALSE)
       THEN /\ SaveWrite(o, ClaimRecord(w), FALSE)
            /\ worker' = [worker EXCEPT ![w].pc = "call", ![w].rev = @ + 1]
       ELSE UNCHANGED storeVars /\ Return(w)
  /\ UNCHANGED <<proposal, call, grant, calendarVars>> /\ Undisturbed
-----------------------------------------------------------------------------
(* advance: the guest's calendar once more, the host's handler, the guest's *)
(* acceptance, and its read-back.                                           *)

AdvanceRecheckSkipped(w) ==      \* faulty variant
  /\ worker[w].pc = "recheck"
  /\ Goto(w, "call")
  /\ UNCHANGED <<storeVars, proposal, call, grant, calendarVars>> /\ Undisturbed

AdvanceRecheck(w) ==
  /\ worker[w].pc = "recheck"
  /\ \/ MayBeFree(Peer[worker[w].op], worker[w].slot) /\ Goto(w, "call")
     \/ Finish(w, "slot_no_longer_available")
  /\ UNCHANGED <<storeVars, proposal, call, grant, calendarVars>> /\ Undisturbed

AdvanceRecheckFails(w) ==
  /\ worker[w].pc = "recheck"
  /\ Finish(w, "calendar_preflight_failed")
  /\ Disturb
  /\ UNCHANGED <<storeVars, proposal, call, grant, calendarVars>>

AdvanceCallAlwaysSubmits(w) ==   \* faulty variant
  /\ worker[w].pc = "call"
  /\ Goto(w, "wait")
  /\ grant' = grant \union {w}
  /\ call' = [call EXCEPT ![w] = [pc |-> "sent", op |-> worker[w].op,
                                  submit |-> TRUE, reply |-> "none"]]
  /\ UNCHANGED <<storeVars, proposal, calendarVars>> /\ Undisturbed

\* The grant is stored, the peer resolved and the message sent.
AdvanceCall(w) ==
  /\ worker[w].pc = "call"
  /\ Goto(w, "wait")
  /\ grant' = grant \union {w}
  /\ call' = [call EXCEPT ![w] = [pc |-> "sent", op |-> worker[w].op,
                                  submit |-> worker[w].fresh, reply |-> "none"]]
  /\ UNCHANGED <<storeVars, proposal, calendarVars>> /\ Undisturbed

\* The grant cannot be stored or the peer's chain of trust does not verify:
\* nothing is sent.
AdvanceCallFails(w) ==
  /\ worker[w].pc = "call"
  /\ Finish(w, "other_error")
  /\ Disturb
  /\ UNCHANGED <<storeVars, proposal, call, grant, calendarVars>>

AdvanceTimeoutRefuses(w) ==      \* faulty variant
  /\ worker[w].pc = "wait"
  /\ Finish(w, "slot_no_longer_available")
  /\ grant' = grant \ {w}
  /\ Disturb
  /\ UNCHANGED <<storeVars, proposal, call, calendarVars>>

\* No answer within the client's timeout; the grant row is deleted, but a
\* handler that passed it goes on.
AdvanceTimeout(w) ==
  /\ worker[w].pc = "wait"
  /\ Finish(w, "other_error")
  /\ grant' = grant \ {w}
  /\ Disturb
  /\ UNCHANGED <<storeVars, proposal, call, calendarVars>>

AdvanceReply(w) ==
  /\ worker[w].pc = "wait" /\ call[w].pc = "replied"
  /\ CASE call[w].reply = "event_created" -> Goto(w, "accept")
       [] call[w].reply = "slot_no_longer_available" ->
            Finish(w, "slot_no_longer_available")
       [] OTHER -> Finish(w, "other_error")
  /\ grant' = grant \ {w}
  /\ call' = [call EXCEPT ![w] = IdleCall]
  /\ UNCHANGED <<storeVars, proposal, calendarVars>> /\ Undisturbed

SetAccepted(o) ==
  /\ accepted' = accepted \union {o}
  /\ agreed' = agreed \union {o}
  /\ UNCHANGED <<event, declined, inserts>>

\* accept_with_token: an accepted copy needs nothing; an unchanged one gets
\* the RSVP, under its etag; a changed one is an error.
AdvanceAccept(w) ==
  LET o == worker[w].op IN
  /\ worker[w].pc = "accept"
  /\ \/ /\ event[o] = "live" /\ o \in accepted
        /\ Finish(w, "booked") /\ UNCHANGED calendarVars
     \/ /\ event[o] = "live" /\ o \notin accepted
        /\ Goto(w, "readback") /\ SetAccepted(o)
     \/ /\ event[o] # "live"
        /\ Finish(w, "other_error") /\ UNCHANGED calendarVars
  /\ UNCHANGED <<storeVars, proposal, call, grant>> /\ Undisturbed

AdvanceAcceptHiddenBooks(w) ==   \* faulty variant
  /\ worker[w].pc = "accept"
  /\ Finish(w, "booked")
  /\ Disturb
  /\ UNCHANGED <<storeVars, proposal, call, grant, calendarVars>>

\* The copy is hidden from the guest or its etag is stale (404, 412): pending.
AdvanceAcceptHidden(w) ==
  /\ worker[w].pc = "accept"
  /\ Finish(w, "pending")
  /\ Disturb
  /\ UNCHANGED <<storeVars, proposal, call, grant, calendarVars>>

\* Google fails, before the RSVP or after it.
AdvanceAcceptFails(w) ==
  LET o == worker[w].op IN
  /\ worker[w].pc = "accept"
  /\ Finish(w, "other_error")
  /\ Disturb
  /\ \/ UNCHANGED calendarVars
     \/ event[o] = "live" /\ SetAccepted(o)
  /\ UNCHANGED <<storeVars, proposal, call, grant>>

AdvanceReadback(w) ==
  LET o == worker[w].op IN
  /\ worker[w].pc = "readback"
  /\ Finish(w, IF event[o] # "live" THEN "other_error"
               ELSE IF o \in accepted THEN "booked" ELSE "pending")
  /\ UNCHANGED <<storeVars, proposal, call, grant, calendarVars>> /\ Undisturbed

AdvanceReadbackFails(w) ==
  /\ worker[w].pc = "readback"
  /\ \E result \in {"pending", "other_error"} : Finish(w, result)
  /\ Disturb
  /\ UNCHANGED <<storeVars, proposal, call, grant, calendarVars>>
-----------------------------------------------------------------------------
(* confirm, from advance's result to the save.                              *)

ResultStageFailsOnError(w) ==    \* faulty variant
  LET result == worker[w].result IN
  CASE result \in {"booked", "pending"} -> result
    [] result = "slot_no_longer_available" /\ worker[w].fresh -> "slot_unavailable"
    [] OTHER -> IF worker[w].fresh THEN "failed" ELSE "unknown"

ResultStage(w) ==
  LET result == worker[w].result IN
  CASE result \in {"booked", "pending"} -> result
    [] result = "calendar_preflight_failed" /\ worker[w].fresh -> "failed"
    [] result = "slot_no_longer_available" /\ worker[w].fresh -> "slot_unavailable"
    [] OTHER -> IF worker[w].stage = "pending" THEN "pending" ELSE "unknown"

ResultRecord(w) ==
  [stage |-> ResultStage(w), slot |-> worker[w].slot,
   rev |-> worker[w].rev + 1, due |-> FALSE]

ReleaseWhenPending(w) == ResultStage(w) \in Terminal \union {"pending"} \* faulty variant
Release(w) == ResultStage(w) \in Terminal

ConfirmFinish(w) ==
  LET o == worker[w].op IN
  /\ worker[w].pc = "finish"
  /\ IF CanSave(o, ResultRecord(w), worker[w].rev, Release(w))
       THEN SaveWrite(o, ResultRecord(w), Release(w))
       ELSE UNCHANGED storeVars
  /\ Return(w)
  /\ UNCHANGED <<proposal, call, grant, calendarVars>> /\ Undisturbed

\* The answer of a write that took effect is lost, and with it the worker.
ConfirmAnswerLost(w) ==
  LET o == worker[w].op IN
  /\ \/ /\ worker[w].pc = "begin" /\ CanBegin(o, worker[w].slot)
        /\ BeginWrite(o, worker[w].slot)
     \/ /\ worker[w].pc = "claim"
        /\ CanSave(o, ClaimRecord(w), worker[w].rev, FALSE)
        /\ SaveWrite(o, ClaimRecord(w), FALSE)
  /\ Return(w)
  /\ Disturb
  /\ UNCHANGED <<proposal, call, grant, calendarVars>>

\* The worker ends where it is: a failed read or write, the 22-second HTTP
\* deadline, the job's timeout or the end of the process.
ConfirmAbandoned(w) ==
  /\ worker[w].pc # "idle"
  /\ Return(w)
  /\ Disturb
  /\ UNCHANGED <<storeVars, proposal, call, grant, calendarVars>>
-----------------------------------------------------------------------------
(* handle, commit_booking: an invocation of its own on the host's side.     *)

Reply(w, reply) == call' = [call EXCEPT ![w].pc = "replied", ![w].reply = reply]
Handling(w, pc) == call[w].pc = pc /\ UNCHANGED <<storeVars, proposal, worker, grant>>

HandleAuthorize(w) ==
  /\ Handling(w, "sent")
  /\ IF w \in grant THEN call' = [call EXCEPT ![w].pc = "authorized"]
                    ELSE Reply(w, "error")
  /\ UNCHANGED calendarVars /\ Undisturbed

HandleRead(w) ==
  LET o == call[w].op IN
  /\ Handling(w, "authorized")
  /\ IF Exists(o) /\ record[o].stage \notin Refused
       THEN call' = [call EXCEPT ![w].pc = "lookup"]
       ELSE Reply(w, "error")
  /\ UNCHANGED calendarVars /\ Undisturbed

\* The deterministic event id answers for a request already carried out; only
\* the first confirm submits.
HandleLookup(w) ==
  LET o == call[w].op IN
  /\ Handling(w, "lookup")
  /\ CASE event[o] = "live" -> Reply(w, "event_created")
       [] event[o] = "none" /\ call[w].submit ->
            call' = [call EXCEPT ![w].pc = "availability"]
       [] OTHER -> Reply(w, "error")
  /\ UNCHANGED calendarVars /\ Undisturbed

HandleAvailabilitySkipped(w) ==  \* faulty variant
  /\ Handling(w, "availability")
  /\ call' = [call EXCEPT ![w].pc = "insert"]
  /\ UNCHANGED calendarVars /\ Undisturbed

HandleAvailability(w) ==
  LET o == call[w].op IN
  /\ Handling(w, "availability")
  /\ \/ /\ MayBeFree(Host[o], record[o].slot)
        /\ call' = [call EXCEPT ![w].pc = "insert"]
     \/ Reply(w, "slot_no_longer_available")
  /\ UNCHANGED calendarVars /\ Undisturbed

\* Google keeps the first event of an id; a second insert answers 409 and the
\* existing event is read.
InsertEvent(o) ==
  /\ event' = [event EXCEPT ![o] = IF @ = "none" THEN "live" ELSE @]
  /\ inserts' = [inserts EXCEPT ![o] = @ + 1]
  /\ UNCHANGED <<accepted, declined, agreed>>

HandleInsert(w) ==
  LET o == call[w].op IN
  /\ Handling(w, "insert")
  /\ InsertEvent(o)
  /\ Reply(w, IF event[o] = "changed" THEN "error" ELSE "event_created")
  /\ Undisturbed

\* The insert or its answer is lost: it may have taken effect.
HandleInsertLost(w) ==
  LET o == call[w].op IN
  /\ Handling(w, "insert")
  /\ \/ InsertEvent(o)
     \/ /\ inserts' = [inserts EXCEPT ![o] = @ + 1]
        /\ UNCHANGED <<event, accepted, declined, agreed>>
  /\ Reply(w, "error")
  /\ Disturb

HandleFails(w) ==
  /\ \E pc \in {"sent", "authorized", "lookup", "availability"} : Handling(w, pc)
  /\ Reply(w, "error")
  /\ Disturb
  /\ UNCHANGED calendarVars

\* The answer finds nobody waiting.
HandleUnheard(w) ==
  /\ Handling(w, "replied") /\ worker[w].pc # "wait"
  /\ call' = [call EXCEPT ![w] = IdleCall]
  /\ UNCHANGED calendarVars /\ Undisturbed

\* A grant its caller did not live to delete expires after 90 seconds, later
\* than any caller waits.
GrantExpires(w) ==
  /\ w \in grant /\ worker[w].pc # "wait"
  /\ grant' = grant \ {w}
  /\ UNCHANGED <<storeVars, proposal, worker, call, calendarVars>> /\ Undisturbed
-----------------------------------------------------------------------------
(* The owners of the calendars.                                             *)

HostChangesEvent(o) ==
  /\ event[o] = "live"
  /\ event' = [event EXCEPT ![o] = "changed"]
  /\ UNCHANGED <<accepted, declined, agreed, inserts>>
  /\ UNCHANGED <<storeVars, proposal, worker, call, grant>> /\ Undisturbed

GuestWithdraws(o) ==
  /\ event[o] = "live"
  /\ accepted' = accepted \ {o} /\ declined' = declined \union {o}
  /\ UNCHANGED <<event, agreed, inserts>>
  /\ Disturb
  /\ UNCHANGED <<storeVars, proposal, worker, call, grant>>
-----------------------------------------------------------------------------
ConfirmStep(w) ==
  \/ ConfirmPrecheck(w) \/ ConfirmBegin(w) \/ ConfirmClaim(w) \/ ConfirmFinish(w)
  \/ AdvanceRecheck(w) \/ AdvanceCall(w) \/ AdvanceReply(w)
  \/ AdvanceAccept(w) \/ AdvanceReadback(w)

HandleStep(w) ==
  \/ HandleAuthorize(w) \/ HandleRead(w) \/ HandleLookup(w)
  \/ HandleAvailability(w) \/ HandleInsert(w) \/ HandleUnheard(w)

Disturbance(w) ==
  \/ AdvanceRecheckFails(w) \/ AdvanceCallFails(w) \/ AdvanceTimeout(w)
  \/ AdvanceAcceptHidden(w) \/ AdvanceAcceptFails(w) \/ AdvanceReadbackFails(w)
  \/ ConfirmAnswerLost(w) \/ ConfirmAbandoned(w)
  \/ HandleInsertLost(w) \/ HandleFails(w)

Next ==
  \/ \E w \in Workers : \/ \E o \in Ops : ConfirmExisting(w, o) \/ ConfirmProposal(w, o)
                        \/ ConfirmStep(w) \/ HandleStep(w) \/ Disturbance(w)
                        \/ GrantExpires(w)
  \/ \E o \in Ops : \/ \E s \in Slots : Propose(o, s)
                    \/ ProposalExpires(o) \/ NextPollReached(o)
                    \/ HostChangesEvent(o) \/ GuestWithdraws(o)
  \/ \E s \in Slots : SlotPasses(s)
  \/ \E k \in PairSlots : SlotGuardExpires(k)

Spec == Init /\ [][Next]_vars
-----------------------------------------------------------------------------
TypeOK ==
  /\ StoreTypeOK
  /\ proposal \in [Ops -> Slots \union {NoSlot}]
  /\ worker \in [Workers -> Worker]
  /\ call \in [Workers -> Call]
  /\ grant \subseteq Workers
  /\ event \in [Ops -> {"none", "live", "changed"}]
  /\ accepted \subseteq Ops /\ declined \subseteq Ops /\ agreed \subseteq Ops
  /\ inserts \in [Ops -> Nat]
  /\ disturbed \in 0..MaxDisturbed

\* What a worker remembers of its record stays true until another worker moves
\* the revision on: so a save that passes the revision check was computed from
\* the record it replaces.
Knows(k) ==
  /\ k.pc # "idle" => k.op \in Ops /\ k.slot \in Slots /\ k.stage \in Unresolved
  /\ k.pc \in {"precheck", "begin"} => k.stage = "submitting" /\ k.rev = 0
  /\ k.pc \in {"claim"} \union AttemptPC =>
       /\ Exists(k.op) /\ record[k.op].slot = k.slot /\ k.rev <= record[k.op].rev
       /\ record[k.op].rev = k.rev => record[k.op].stage = k.stage

WorkersKnowTheirRecords ==
  \A w \in Workers : Knows(worker[w]) /\ (call[w].pc # "idle" => call[w].op \in Ops)

\* An agent whose booking was released as refused has no event for it, now or
\* later: a late or repeated handler never inserts for a refused operation.
RefusedHasNoEvent ==
  \A o \in Ops : record[o].stage \in Refused =>
    /\ event[o] = "none"
    /\ \A w \in Workers : call[w].op = o => call[w].pc # "insert"

\* No agent ends up in two live meetings of the service that overlap, as host
\* or as a guest who did not withdraw: a calendar is read again under the lock
\* of its agent, and the lock is kept while an insert may still be under way.
NoDoubleBooking ==
  \A o, p \in Ops : \A a \in Agents :
    LET Attends(q) == /\ event[q] = "live"
                      /\ a = Host[q] \/ (a = Peer[q] /\ q \notin declined)
    IN  o # p /\ Attends(o) /\ Attends(p) =>
          <<record[o].slot, record[p].slot>> \notin Overlap

\* "booked means the host event and accepted guest copy were verified".
BookedWasAgreed ==
  \A o \in Ops : record[o].stage = "booked" => event[o] # "none" /\ o \in agreed

\* "A duplicate request or lost response reconciles this event, without
\* another event insertion": at most one insert request is ever sent.
InsertedAtMostOnce == \A o \in Ops : inserts[o] <= 1

\* A meeting of a pair at a slot is created once, even after the first one was
\* moved away or cancelled, the roles are exchanged and the guard has expired.
PairMeetsOnceAtASlot ==
  \A o, p \in Ops :
    o # p /\ Parties(o) = Parties(p) /\ event[o] # "none" /\ event[p] # "none"
      => record[o].slot # record[p].slot
-----------------------------------------------------------------------------
\* The promise of MeetingPromise, kept through the store, the messages and the
\* retries.
Promise == INSTANCE MeetingPromise
             WITH outcome <- [o \in Ops |-> Outcome(o)], meeting <- event
KeepsPromise == Promise!PromiseSpec
-----------------------------------------------------------------------------
(* A worker and a handler that run take their steps, time passes, and the   *)
(* guest (or the job queue) goes on checking an unresolved booking.         *)
Fairness ==
  /\ \A w \in Workers : WF_vars(ConfirmStep(w)) /\ WF_vars(HandleStep(w))
  /\ \A o \in Ops : /\ WF_vars(NextPollReached(o))
                    /\ WF_vars(\E w \in Workers : ConfirmExisting(w, o))

FairSpec == Spec /\ Fairness

\* A meeting the host leaves alone ends as a booked one: whatever the crash,
\* the lost answer or the timeout, checking again finds the event, obtains the
\* acceptance and gives the locks back.
LiveMeetingIsBooked ==
  \A o \in Ops :
    event[o] = "live" ~> record[o].stage = "booked" \/ event[o] = "changed"
=============================================================================
