------------------------ MODULE ExternalBookingProofs ------------------------
(***************************************************************************)
(* Bookings through the external provider, for any agents, operations,     *)
(* slots, invocations and disturbances, although the guard of a pair at a  *)
(* slot expires while operations are unresolved.                           *)
(*                                                                         *)
(* The idea: an operation has one submitter, the invocation that made its  *)
(* claim, and nobody else saves its record while that lives; an operation  *)
(* is closed when nothing of it is under way and its job did not book, and *)
(* only a closed one is refused.                                           *)
(*                                                                         *)
(* At the end, what an operation promises (MeetingPromise) is kept: the    *)
(* locks of agents never expire, no invocation calls an operation booked   *)
(* whose job did not book, and an appointment appears only from a queued   *)
(* job, whose operation is still open.                                     *)
(***************************************************************************)
EXTENDS ExternalBooking, TLAPS

LEMMA PartiesAreAgents ==
  ASSUME NEW o \in Ops
  PROVE  /\ Parties(o) \subseteq Agents
         /\ Host[o] \in Parties(o)
         /\ Peer[o] \in Parties(o)
         /\ \A s \in Slots : PairSlot(o, s) \in PairSlots
  BY PartiesAssumption DEF Parties, PairSlots, PairSlot

LEMMA RecordOfBegin ==
  ASSUME NEW s \in Slots
  PROVE  [stage |-> "submitting", slot |-> s, rev |-> 0, due |-> FALSE] \in Record
  BY DEF Record, Stages, Unresolved

LEMMA BeginTypes ==
  ASSUME StoreTypeOK, NEW o \in Ops, NEW s \in Slots, Begin(o, s)
  PROVE  StoreTypeOK'
<1> USE DEF StoreTypeOK
<1>1. record' \in [Ops -> Record]
  BY RecordOfBegin DEF Begin, BeginWrite
<1>2. agentLock' \in [Agents -> Ops \union {NoOp}]
  BY DEF Begin, BeginWrite
<1>3. slotLock' \in [PairSlots -> Ops \union {NoOp}]
  BY PartiesAreAgents DEF Begin, BeginWrite
<1>4. \A p \in Ops : Exists(p)' => record'[p].slot \in Slots
  BY DEF Begin, BeginWrite, Exists
<1>5. over' \subseteq Slots
  BY DEF Begin, BeginWrite
<1> QED BY <1>1, <1>2, <1>3, <1>4, <1>5

Held == {"send", "wait", "save", "lease", "ask", "examine"}

Submitting(w) == \/ worker[w].pc \in {"send", "wait"}
                 \/ worker[w].pc = "save" /\ worker[w].rev = 0

Closed(o) == o \notin flight /\ job[o] \in {"none", "refused"}

\* What an invocation knows: its copy of a record is right as long as the
\* revision stands, and what it has decided is true.
Begins(w) ==
  /\ worker[w].pc # "idle" => worker[w].op \in Ops
  /\ worker[w].pc = "begin" => worker[w].slot \in Slots \ over
  /\ worker[w].pc = "lease" => worker[w].rev < MaxRev
Copy(w) ==
  /\ worker[w].pc \in {"begin", "send", "wait"} => worker[w].rev = 0
  /\ worker[w].pc \in {"lease", "ask", "examine"} => worker[w].rev > 0
  /\ worker[w].pc \in Held =>
       /\ Exists(worker[w].op) /\ worker[w].rev <= record[worker[w].op].rev
       /\ worker[w].rev = record[worker[w].op].rev => Open(worker[w].op)
  /\ Submitting(w) => record[worker[w].op].rev = 0
Decision(w) ==
  /\ worker[w].pc = "send" => sent[worker[w].op] = 0
  /\ worker[w].pc = "save" =>
       /\ worker[w].stage \in Stages \ {"submitting"}
       /\ worker[w].stage \in Refused => Closed(worker[w].op)
WorkerOK(w) == Begins(w) /\ Copy(w) /\ Decision(w)

OneSubmitter ==
  \A v, w \in Workers :
    Submitting(v) /\ Submitting(w) /\ worker[v].op = worker[w].op => v = w

\* An operation, its record and what the provider has of it.
Sending(o) ==
  /\ sent[o] <= 1
  /\ ~Exists(o) => sent[o] = 0
  /\ sent[o] = 0 => o \notin flight /\ job[o] = "none"
  /\ o \in flight => job[o] = "none"
Recorded(o) ==
  /\ Exists(o) => (record[o].rev = 0 <=> record[o].stage = "submitting")
  /\ record[o].stage \in Refused => Closed(o)

\* The guard of a pair at a slot that is not over, and what it has prevented.
Guarded(o) ==
  Exists(o) /\ record[o].stage \notin Refused /\ record[o].slot \notin over
    => slotLock[PairSlot(o, record[o].slot)] = o
OnePerPair ==
  \A o, p \in Ops :
    /\ o # p /\ Parties(o) = Parties(p)
    /\ Exists(o) /\ Exists(p) /\ record[o].slot = record[p].slot
    => record[o].stage \in Refused \/ record[p].stage \in Refused

Typed ==
  /\ StoreTypeOK
  /\ jobKept \subseteq Ops
  /\ worker \in [Workers -> Worker]
  /\ flight \subseteq Ops
  /\ job \in [Ops -> Jobs]
  /\ sent \in [Ops -> Nat]
  /\ disturbed \in 0..MaxDisturbed

Operations == \A o \in Ops : Sending(o) /\ Recorded(o) /\ Guarded(o)
IInv == Typed /\ (\A w \in Workers : WorkerOK(w)) /\ OneSubmitter /\ Operations /\ OnePerPair

LEMMA IdleIsTyped == IdleWorker \in Worker
BY ExternalAssumption DEF IdleWorker, Worker, PC

LEMMA EndIsOK ==
  ASSUME NEW w \in Workers, worker \in [Workers -> Worker], End(w)
  PROVE  /\ worker' \in [Workers -> Worker]
         /\ worker'[w].pc = "idle"
         /\ \A v \in Workers : v # w => worker'[v] = worker[v]
         /\ WorkerOK(w)' /\ ~Submitting(w)'
<1>1. /\ worker' \in [Workers -> Worker] /\ worker'[w].pc = "idle"
      /\ \A v \in Workers : v # w => worker'[v] = worker[v]
  <2> DEFINE k == IdleWorker
  <2>1. k \in Worker /\ k.pc = "idle"
    BY IdleIsTyped DEF IdleWorker
  <2> QED BY <2>1 DEF End
<1> QED BY <1>1 DEF WorkerOK, Begins, Copy, Decision, Submitting, Held
-----------------------------------------------------------------------------
(* Steps that move one worker and nothing it shares.                        *)
Shared == <<storeVars, provider, sent>>

LEMMA WorkerKept ==
  ASSUME NEW v \in Workers, WorkerOK(v), worker'[v] = worker[v], UNCHANGED Shared
  PROVE  WorkerOK(v)' /\ (Submitting(v)' <=> Submitting(v))
BY DEF WorkerOK, Begins, Copy, Decision, Submitting, Shared, storeVars, provider, Exists,
   Open, Closed

LEMMA OneWorkerMoves ==
  ASSUME IInv, UNCHANGED Shared, jobKept' \subseteq Ops, disturbed' \in 0..MaxDisturbed,
         NEW w \in Workers, worker' \in [Workers -> Worker],
         \A v \in Workers : v # w => worker'[v] = worker[v],
         WorkerOK(w)',
         Submitting(w)' => Submitting(w) /\ worker'[w].op = worker[w].op
  PROVE  IInv'
<1>1. Typed'
  BY DEF IInv, Typed, Shared, storeVars, provider, StoreTypeOK, Exists
<1>2. \A v \in Workers : WorkerOK(v)'
  BY WorkerKept DEF IInv
<1>3. OneSubmitter'
  <2> SUFFICES ASSUME NEW u \in Workers, NEW v \in Workers, Submitting(u)', Submitting(v)',
                      worker'[u].op = worker'[v].op
               PROVE  u = v
    BY DEF OneSubmitter
  <2>1. \A x \in {u, v} : Submitting(x) /\ worker'[x].op = worker[x].op
    BY WorkerKept DEF IInv
  <2> QED BY <2>1 DEF IInv, OneSubmitter
<1>4. Operations' /\ OnePerPair'
  BY DEF IInv, Operations, Sending, Recorded, Guarded, OnePerPair, Shared, storeVars, provider,
     Exists, Closed
<1> QED BY <1>1, <1>2, <1>3, <1>4 DEF IInv

LEMMA EndKeeps ==
  ASSUME IInv, UNCHANGED Shared, jobKept' = jobKept, disturbed' \in 0..MaxDisturbed,
         NEW w \in Workers, End(w)
  PROVE  IInv'
BY EndIsOK, OneWorkerMoves DEF IInv, Typed

LEMMA DecideIs ==
  ASSUME NEW w \in Workers, worker \in [Workers -> Worker],
         NEW stage \in Stages, NEW kept \in {"no", "yes"}, Decide(w, stage, kept)
  PROVE  /\ worker' \in [Workers -> Worker]
         /\ \A v \in Workers : v # w => worker'[v] = worker[v]
         /\ worker'[w].pc = "save" /\ worker'[w].stage = stage
         /\ worker'[w].op = worker[w].op /\ worker'[w].rev = worker[w].rev
<1> DEFINE k == [worker[w] EXCEPT !.pc = "save", !.stage = stage, !.kept = kept]
<1>1. worker[w] \in Worker
  OBVIOUS
<1>2. k \in Worker
  BY <1>1 DEF Worker, PC
<1>3. k.pc = "save" /\ k.stage = stage /\ k.op = worker[w].op /\ k.rev = worker[w].rev
  BY <1>1 DEF Worker
<1>4. worker' = [worker EXCEPT ![w] = k]
  BY <1>1 DEF Decide, Worker
<1> HIDE DEF k
<1> QED BY <1>2, <1>3, <1>4

\* Whoever has asked the provider decides on what it answered.
LEMMA DecideKeeps ==
  ASSUME IInv, UNCHANGED Shared, jobKept' = jobKept, disturbed' \in 0..MaxDisturbed,
         NEW w \in Workers, worker[w].pc \in {"send", "wait", "ask", "examine"},
         NEW stage \in Stages, NEW kept \in {"no", "yes"}, Decide(w, stage, kept),
         stage # "submitting",
         stage \in Refused => Closed(worker[w].op)
  PROVE  IInv'
<1>1. /\ worker' \in [Workers -> Worker]
      /\ \A v \in Workers : v # w => worker'[v] = worker[v]
      /\ worker'[w].pc = "save" /\ worker'[w].stage = stage
      /\ worker'[w].op = worker[w].op /\ worker'[w].rev = worker[w].rev
  BY DecideIs DEF IInv, Typed
<1>2. worker[w] \in Worker /\ WorkerOK(w) /\ worker[w].op \in Ops
  BY DEF IInv, Typed, WorkerOK, Begins
<1>3. Submitting(w)' => Submitting(w)
  BY <1>1, <1>2 DEF Submitting, WorkerOK, Copy, Worker
<1>4. UNCHANGED <<record, flight, job>>
  BY DEF Shared, storeVars, provider
<1>5. WorkerOK(w)'
  <2>1. Begins(w)'
    BY <1>1, <1>2 DEF Begins
  <2>2. Copy(w)'
    BY <1>1, <1>2, <1>3, <1>4 DEF WorkerOK, Copy, Held, Exists, Open
  <2>3. Decision(w)'
    BY <1>1, <1>2, <1>4 DEF Decision, Closed
  <2> QED BY <2>1, <2>2, <2>3 DEF WorkerOK
<1> QED BY <1>1, <1>3, <1>5, OneWorkerMoves DEF IInv, Typed

\* An invocation that begins has only looked at a record.
LEMMA LooksAtARecord ==
  ASSUME IInv, UNCHANGED Shared, jobKept' = jobKept, disturbed' = disturbed,
         NEW w \in Workers, NEW k \in Worker, worker' = [worker EXCEPT ![w] = k],
         k.op \in Ops,
         \/ k.pc = "begin" /\ k.rev = 0 /\ k.slot \in Slots \ over
         \/ /\ k.pc \in {"lease", "examine"}
            /\ Open(k.op) /\ record[k.op].stage # "submitting"
            /\ k.rev = record[k.op].rev /\ k.rev < MaxRev
  PROVE  IInv'
<1>1. worker' \in [Workers -> Worker] /\ worker'[w] = k
      /\ \A v \in Workers : v # w => worker'[v] = worker[v]
  BY DEF IInv, Typed
<1>2. ~Submitting(w)'
  BY <1>1 DEF Submitting
<1>3. UNCHANGED <<record, over>> /\ record[k.op] \in Record
  BY DEF Shared, storeVars, IInv, Typed, StoreTypeOK
<1>4. k.pc # "begin" => Exists(k.op) /\ k.rev > 0
  <2>1. Recorded(k.op)
    BY DEF IInv, Operations
  <2>2. Open(k.op) => Exists(k.op)
    BY DEF Open, Exists, Unresolved
  <2> QED BY <1>3, <2>1, <2>2 DEF Recorded, Record
<1>5. WorkerOK(w)'
  <2>1. Begins(w)'
    BY <1>1, <1>3 DEF Begins
  <2>2. Copy(w)'
    BY <1>1, <1>2, <1>3, <1>4 DEF Copy, Held, Exists, Open, Record
  <2>3. Decision(w)'
    BY <1>1 DEF Decision
  <2> QED BY <2>1, <2>2, <2>3 DEF WorkerOK
<1> QED BY <1>1, <1>2, <1>5, OneWorkerMoves DEF IInv, Typed

LEMMA ReadsKeep ==
  ASSUME IInv, NEW w \in Workers, NEW o \in Ops,
         \/ \E s \in Slots : SubmitRead(w, o, s)
         \/ PollRead(w, o) \/ ReconcileRead(w, o)
  PROVE  IInv'
<1>0. IdleWorker \in Worker /\ MaxRev \in Nat /\ record[o] \in Record
  BY IdleIsTyped, ExternalAssumption DEF IInv, Typed, StoreTypeOK
<1>1. ASSUME NEW s \in Slots, SubmitRead(w, o, s) PROVE IInv'
  <2> DEFINE k == [IdleWorker EXCEPT !.pc = "begin", !.op = o, !.slot = s]
  <2>1. k \in Worker /\ k.op = o /\ k.pc = "begin" /\ k.rev = 0 /\ k.slot = s
    BY <1>0 DEF Worker, IdleWorker, PC
  <2>2. worker' = [worker EXCEPT ![w] = k] /\ UNCHANGED Shared /\ s \notin over
        /\ jobKept' = jobKept /\ disturbed' = disturbed
    BY <1>1 DEF SubmitRead, Shared, Ahead
  <2> HIDE DEF k
  <2> QED BY <2>1, <2>2, LooksAtARecord
<1>2. ASSUME PollRead(w, o) PROVE IInv'
  <2> DEFINE k == [IdleWorker EXCEPT !.pc = "lease", !.op = o, !.rev = record[o].rev,
                                     !.kept = "yes"]
  <2>1. record[o].rev \in 0..MaxRev /\ record[o].rev < MaxRev
    BY <1>0, <1>2 DEF PollRead, Record
  <2>2. k \in Worker /\ k.op = o /\ k.pc = "lease" /\ k.rev = record[o].rev
    BY <1>0, <2>1 DEF Worker, IdleWorker, PC
  <2>3. Open(o) /\ record[o].stage # "submitting"
    BY <1>2 DEF PollRead, Open, Unresolved
  <2>4. worker' = [worker EXCEPT ![w] = k] /\ UNCHANGED Shared
        /\ jobKept' = jobKept /\ disturbed' = disturbed
    BY <1>2 DEF PollRead, Shared
  <2> HIDE DEF k
  <2> QED BY <2>1, <2>2, <2>3, <2>4, LooksAtARecord
<1>3. ASSUME ReconcileRead(w, o) PROVE IInv'
  <2> DEFINE k == [IdleWorker EXCEPT !.pc = "examine", !.op = o, !.rev = record[o].rev,
                                     !.kept = "yes"]
  <2>1. record[o].rev \in 0..MaxRev /\ record[o].rev < MaxRev
    BY <1>0, <1>3 DEF ReconcileRead, Record
  <2>2. k \in Worker /\ k.op = o /\ k.pc = "examine" /\ k.rev = record[o].rev
    BY <1>0, <2>1 DEF Worker, IdleWorker, PC
  <2>3. Open(o) /\ record[o].stage # "submitting"
    BY <1>3 DEF ReconcileRead, Open, Unresolved
  <2>4. worker' = [worker EXCEPT ![w] = k] /\ UNCHANGED Shared
        /\ jobKept' = jobKept /\ disturbed' = disturbed
    BY <1>3 DEF ReconcileRead, Shared
  <2> HIDE DEF k
  <2> QED BY <2>1, <2>2, <2>3, <2>4, LooksAtARecord
<1> QED BY <1>1, <1>2, <1>3

LEMMA DecisionsKeep ==
  ASSUME IInv, NEW w \in Workers,
         \/ SubmitInvalid(w) \/ SubmitAccepted(w) \/ SubmitGivesUp(w)
         \/ PollAsk(w) \/ ReconcileAsk(w) \/ EndsEarly(w)
  PROVE  IInv'
<1> DEFINE o == worker[w].op
<1>0. disturbed \in 0..MaxDisturbed /\ MaxDisturbed \in Nat /\ WorkerOK(w)
  BY ExternalAssumption DEF IInv, Typed
<1>1. worker[w].pc # "idle" => o \in Ops /\ Sending(o) /\ job[o] \in Jobs
  BY <1>0 DEF WorkerOK, Begins, IInv, Operations, Typed
<1>2. {"failed", "pending", "unknown", "slot_unavailable", "confirmation_required"} \subseteq Stages
  BY DEF Stages, Terminal, Refused, Unresolved
<1>3. CASE SubmitInvalid(w)
  <2>1. Closed(o)
    BY <1>0, <1>1, <1>3 DEF SubmitInvalid, WorkerOK, Decision, Sending, Closed
  <2> QED BY <1>0, <1>2, <1>3, <2>1, DecideKeeps DEF SubmitInvalid, Shared
<1>4. CASE SubmitAccepted(w)
  BY <1>0, <1>2, <1>4, DecideKeeps DEF SubmitAccepted, Shared, Refused
<1>5. CASE SubmitGivesUp(w)
  BY <1>0, <1>2, <1>5, DecideKeeps DEF SubmitGivesUp, Shared, Refused, Disturb
<1>6. ASSUME worker[w].pc # "idle", "slot_unavailable" \in Report(o) PROVE Closed(o)
  BY <1>1, <1>6 DEF Report, Closed, Sending, Jobs
<1>7. CASE PollAsk(w)
  <2>1. PICK stage \in Report(o) : Decide(w, stage, "yes")
    BY <1>7 DEF PollAsk
  <2>2. stage \in {"pending", "confirmation_required", "slot_unavailable", "unknown"}
    BY <1>1, <1>7 DEF PollAsk, Report, Jobs
  <2> QED BY <1>0, <1>2, <1>6, <1>7, <2>1, <2>2, DecideKeeps DEF PollAsk, Shared, Refused
<1>8. CASE ReconcileAsk(w)
  BY <1>0, <1>2, <1>6, <1>8, DecideKeeps, EndKeeps DEF ReconcileAsk, Shared
<1>9. CASE EndsEarly(w)
  BY <1>0, <1>9, EndKeeps DEF EndsEarly, Shared, Disturb
<1> QED BY <1>3, <1>4, <1>5, <1>7, <1>8, <1>9
-----------------------------------------------------------------------------
(* Steps at the provider.                                                   *)
LEMMA ProviderMoves ==
  ASSUME IInv, UNCHANGED <<storeVars, jobKept, disturbed>>, NEW o \in Ops,
         flight' \subseteq Ops, job' \in [Ops -> Jobs], sent' \in [Ops -> Nat],
         \A p \in Ops \ {o} : /\ p \in flight' <=> p \in flight
                              /\ job'[p] = job[p] /\ sent'[p] = sent[p],
         Sending(o)',
         record[o].stage \in Refused => Closed(o)',
         worker' \in [Workers -> Worker],
         \A v \in Workers :
           \/ worker'[v] = worker[v] /\ (worker[v].op = o => Decision(v)')
           \/ WorkerOK(v)' /\ (Submitting(v)' => Submitting(v) /\ worker'[v].op = worker[v].op)
  PROVE  IInv'
<1>0. UNCHANGED <<record, agentLock, slotLock, over>>
  BY DEF storeVars
<1>1. Typed'
  BY <1>0 DEF IInv, Typed, StoreTypeOK, Exists
<1>2. \A v \in Workers : /\ WorkerOK(v)'
                         /\ Submitting(v)' => Submitting(v) /\ worker'[v].op = worker[v].op
  <2> SUFFICES ASSUME NEW v \in Workers, worker'[v] = worker[v],
                      worker[v].op = o => Decision(v)'
               PROVE  WorkerOK(v)' /\ (Submitting(v)' => Submitting(v))
    OBVIOUS
  <2>1. WorkerOK(v)
    BY DEF IInv
  <2>2. Begins(v)' /\ Copy(v)' /\ (Submitting(v)' => Submitting(v))
    BY <1>0, <2>1 DEF WorkerOK, Begins, Copy, Submitting, Exists, Open
  <2>3. ASSUME worker[v].op # o PROVE Decision(v)'
    <3>1. worker[v].pc \in {"send", "save"} => worker[v].op \in Ops \ {o}
      BY <2>1, <2>3 DEF WorkerOK, Begins
    <3> QED BY <2>1, <3>1 DEF WorkerOK, Decision, Closed
  <2> QED BY <2>2, <2>3 DEF WorkerOK
<1>3. OneSubmitter'
  BY <1>2 DEF IInv, OneSubmitter
<1>4. ASSUME NEW p \in Ops
      PROVE  Sending(p)' /\ Recorded(p)' /\ Guarded(p)'
  <2>1. Sending(p) /\ Recorded(p) /\ Guarded(p)
    BY DEF IInv, Operations
  <2>2. Guarded(p)'
    BY <1>0, <2>1 DEF Guarded, Exists
  <2>3. CASE p = o
    BY <1>0, <2>1, <2>2, <2>3 DEF Recorded, Exists
  <2>4. CASE p # o
    BY <1>0, <2>1, <2>2, <2>4 DEF Sending, Recorded, Exists, Closed
  <2> QED BY <2>3, <2>4
<1>5. OnePerPair'
  BY <1>0 DEF IInv, OnePerPair, Exists
<1> QED BY <1>1, <1>2, <1>3, <1>4, <1>5 DEF IInv, Operations

\* While its submitter lives an operation is not refused, and nobody else has
\* decided on it.
LEMMA SubmitterIsAlone ==
  ASSUME IInv, NEW w \in Workers, Submitting(w), NEW v \in Workers, v # w,
         worker[v].op = worker[w].op
  PROVE  worker[v].pc \notin Held
<1>1. worker[v] \in Worker /\ WorkerOK(v) /\ WorkerOK(w) /\ ~Submitting(v)
  BY DEF IInv, Typed, OneSubmitter
<1>2. record[worker[w].op].rev = 0 /\ Exists(worker[w].op)
  BY <1>1 DEF WorkerOK, Copy, Submitting, Held
<1>3. worker[v].rev \in Nat
  BY <1>1, ExternalAssumption DEF Worker
<1> QED BY <1>1, <1>2, <1>3 DEF WorkerOK, Copy, Submitting, Held

LEMMA SubmitterIsFirst ==
  ASSUME IInv, NEW w \in Workers, Submitting(w)
  PROVE  /\ worker[w].op \in Ops /\ Exists(worker[w].op)
         /\ record[worker[w].op].stage = "submitting"
<1>1. WorkerOK(w)
  BY DEF IInv
<1>2. worker[w].op \in Ops /\ Exists(worker[w].op) /\ record[worker[w].op].rev = 0
  BY <1>1 DEF WorkerOK, Begins, Copy, Submitting, Held
<1> QED BY <1>2 DEF IInv, Operations, Recorded

LEMMA SubmitSendKeeps ==
  ASSUME IInv, NEW w \in Workers, SubmitSend(w) PROVE IInv'
<1>0. Submitting(w) /\ worker[w] \in Worker /\ WorkerOK(w)
  BY DEF SubmitSend, Submitting, IInv, Typed
<1>1. PICK o \in Ops : o = worker[w].op /\ Exists(o) /\ record[o].stage = "submitting"
  BY <1>0, SubmitterIsFirst
<1>2. sent[o] = 0 /\ job[o] = "none"
  BY <1>0, <1>1 DEF SubmitSend, WorkerOK, Decision, IInv, Operations, Sending
<1>3. /\ worker' \in [Workers -> Worker]
      /\ worker'[w].pc = "wait" /\ worker'[w].op = o /\ worker'[w].rev = worker[w].rev
      /\ \A v \in Workers : v # w => worker'[v] = worker[v]
  <2> DEFINE k == [worker[w] EXCEPT !.pc = "wait"]
  <2>1. k \in Worker /\ k.pc = "wait" /\ k.op = o /\ k.rev = worker[w].rev
    BY <1>0, <1>1 DEF Worker, PC
  <2>2. worker' = [worker EXCEPT ![w] = k]
    BY <1>0 DEF SubmitSend, Worker
  <2> HIDE DEF k
  <2> QED BY <2>1, <2>2 DEF IInv, Typed
<1>4. UNCHANGED <<storeVars, record, jobKept, disturbed, job>>
  BY DEF SubmitSend, storeVars
<1>5. /\ flight' \subseteq Ops /\ job' \in [Ops -> Jobs] /\ sent' \in [Ops -> Nat]
      /\ sent'[o] = 1
      /\ \A p \in Ops \ {o} : /\ p \in flight' <=> p \in flight
                              /\ job'[p] = job[p] /\ sent'[p] = sent[p]
  BY <1>1, <1>2, <1>4 DEF SubmitSend, IInv, Typed
<1>6. Sending(o)'
  BY <1>1, <1>2, <1>4, <1>5 DEF Sending, Exists
<1>7. record[o].stage \notin Refused
  BY <1>1 DEF Refused
<1>8. WorkerOK(w)' /\ Submitting(w)'
  BY <1>0, <1>1, <1>3, <1>4 DEF SubmitSend, WorkerOK, Begins, Copy, Decision, Submitting, Held,
     Exists, Open
<1>9. ASSUME NEW v \in Workers, v # w, worker[v].op = o PROVE Decision(v)'
  BY <1>0, <1>1, <1>3, <1>9, SubmitterIsAlone DEF Decision, Held
<1> QED BY <1>0, <1>1, <1>3, <1>4, <1>5, <1>6, <1>7, <1>8, <1>9, ProviderMoves

LEMMA SubmitRejectedKeeps ==
  ASSUME IInv, NEW w \in Workers, SubmitRejected(w) PROVE IInv'
<1>0. Submitting(w) /\ worker[w] \in Worker /\ WorkerOK(w) /\ "failed" \in Stages
  BY DEF SubmitRejected, Submitting, IInv, Typed, Stages, Terminal, Refused
<1>1. PICK o \in Ops : o = worker[w].op /\ Exists(o) /\ record[o].stage = "submitting"
  BY <1>0, SubmitterIsFirst
<1>2. job[o] = "none" /\ Sending(o)
  BY <1>1 DEF SubmitRejected, IInv, Operations, Sending
<1>3. /\ worker' \in [Workers -> Worker]
      /\ worker'[w].pc = "save" /\ worker'[w].stage = "failed"
      /\ worker'[w].op = o /\ worker'[w].rev = worker[w].rev
      /\ \A v \in Workers : v # w => worker'[v] = worker[v]
  BY <1>0, <1>1, DecideIs DEF SubmitRejected, IInv, Typed
<1>4. UNCHANGED <<storeVars, record, jobKept, disturbed, job, sent>>
  BY DEF SubmitRejected, storeVars
<1>5. /\ flight' \subseteq Ops /\ job' \in [Ops -> Jobs] /\ sent' \in [Ops -> Nat]
      /\ o \notin flight'
      /\ \A p \in Ops \ {o} : /\ p \in flight' <=> p \in flight
                              /\ job'[p] = job[p] /\ sent'[p] = sent[p]
  BY <1>1, <1>4 DEF SubmitRejected, IInv, Typed
<1>6. Sending(o)' /\ Closed(o)'
  BY <1>2, <1>4, <1>5 DEF Sending, Exists, Closed
<1>7. WorkerOK(w)' /\ Submitting(w)'
  <2>1. Begins(w)'
    BY <1>1, <1>3 DEF Begins
  <2>2. Copy(w)' /\ Submitting(w)'
    BY <1>0, <1>1, <1>3, <1>4 DEF SubmitRejected, WorkerOK, Copy, Submitting, Held, Exists, Open
  <2>3. Decision(w)'
    BY <1>0, <1>3, <1>6 DEF Decision
  <2> QED BY <2>1, <2>2, <2>3 DEF WorkerOK
<1>8. ASSUME NEW v \in Workers, v # w, worker[v].op = o PROVE Decision(v)'
  BY <1>0, <1>1, <1>3, <1>8, SubmitterIsAlone DEF Decision, Held
<1> QED BY <1>0, <1>1, <1>3, <1>4, <1>5, <1>6, <1>7, <1>8, ProviderMoves

LEMMA ProviderKeeps ==
  ASSUME IInv, NEW o \in Ops, ProviderTakes(o) \/ ProviderRuns(o) PROVE IInv'
<1>1. Sending(o) /\ Recorded(o)
  BY DEF IInv, Operations
<1>2. UNCHANGED <<storeVars, record, jobKept, disturbed, sent, worker>>
  BY DEF ProviderTakes, ProviderRuns, storeVars
<1>3. /\ flight' \subseteq Ops /\ job' \in [Ops -> Jobs] /\ sent' \in [Ops -> Nat]
      /\ \A p \in Ops \ {o} : /\ p \in flight' <=> p \in flight
                              /\ job'[p] = job[p] /\ sent'[p] = sent[p]
      /\ o \notin flight' /\ ~Closed(o)
  BY <1>1, <1>2 DEF ProviderTakes, ProviderRuns, IInv, Typed, Jobs, Closed, Sending
<1>4. sent[o] # 0
  BY <1>1 DEF ProviderTakes, ProviderRuns, Sending
<1>5. Sending(o)'
  BY <1>1, <1>2, <1>3, <1>4 DEF Sending, Exists
<1>6. ASSUME NEW v \in Workers, worker[v].op = o PROVE Decision(v)'
  <2>1. WorkerOK(v)
    BY DEF IInv
  <2> QED BY <1>2, <1>3, <1>4, <1>6, <2>1 DEF WorkerOK, Decision
<1> QED BY <1>1, <1>2, <1>3, <1>5, <1>6, ProviderMoves DEF Recorded, IInv, Typed
-----------------------------------------------------------------------------
(* Time.                                                                    *)
LEMMA TimeKeeps ==
  ASSUME IInv,
         \/ \E o \in Ops : PollDue(o)
         \/ \E s \in Slots : SlotPasses(s)
         \/ \E k \in PairSlots : SlotGuardExpires(k)
  PROVE  IInv'
<1>0. Typed /\ record \in [Ops -> Record]
  BY DEF IInv, Typed, StoreTypeOK
<1>1. ASSUME NEW o \in Ops, PollDue(o) PROVE IInv'
  <2>1. /\ record' \in [Ops -> Record]
        /\ \A p \in Ops : /\ record'[p].stage = record[p].stage
                          /\ record'[p].slot = record[p].slot
                          /\ record'[p].rev = record[p].rev
    BY <1>0, <1>1 DEF PollDue, BecomeDue, Record
  <2>2. UNCHANGED <<agentLock, slotLock, jobKept, worker, flight, job, over, sent, disturbed>>
    BY <1>1 DEF PollDue, BecomeDue, provider
  <2>3. Typed'
    BY <1>0, <2>1, <2>2 DEF Typed, StoreTypeOK, Exists
  <2>4. ASSUME NEW w \in Workers PROVE WorkerOK(w)' /\ (Submitting(w)' <=> Submitting(w))
    <3>1. WorkerOK(w) /\ (worker[w].pc \in Held => worker[w].op \in Ops)
      BY DEF IInv, WorkerOK, Begins, Held
    <3>2. Submitting(w)' <=> Submitting(w)
      BY <2>2 DEF Submitting
    <3>3. Begins(w)' /\ Decision(w)'
      BY <2>2, <3>1 DEF WorkerOK, Begins, Decision, Closed
    <3>4. Submitting(w) => worker[w].pc \in Held
      BY DEF Submitting, Held
    <3>5. Copy(w)'
      BY <2>1, <2>2, <3>1, <3>2, <3>4 DEF WorkerOK, Copy, Exists, Open
    <3> QED BY <3>2, <3>3, <3>5 DEF WorkerOK
  <2>5. OneSubmitter'
    BY <2>2, <2>4 DEF IInv, OneSubmitter
  <2>6. ASSUME NEW p \in Ops PROVE Sending(p)' /\ Recorded(p)' /\ Guarded(p)'
    BY <2>1, <2>2 DEF IInv, Operations, Sending, Recorded, Guarded, Exists, Closed
  <2>7. OnePerPair'
    BY <2>1 DEF IInv, OnePerPair, Exists
  <2> QED BY <2>3, <2>4, <2>5, <2>6, <2>7 DEF IInv, Operations
<1>2. ASSUME NEW s \in Slots, SlotPasses(s) PROVE IInv'
  <2>1. UNCHANGED <<record, agentLock, slotLock, jobKept, worker, flight, job, sent, disturbed>>
        /\ over' = over \union {s}
    BY <1>2 DEF SlotPasses, SlotEnds, provider
  <2>2. Typed'
    BY <1>0, <2>1 DEF Typed, StoreTypeOK, Exists
  <2>3. ASSUME NEW w \in Workers PROVE WorkerOK(w)' /\ (Submitting(w)' <=> Submitting(w))
    <3>1. WorkerOK(w) /\ (worker[w].pc = "begin" => worker[w].slot # s)
      BY <1>2 DEF SlotPasses, IInv
    <3> QED BY <2>1, <3>1 DEF WorkerOK, Begins, Copy, Decision, Submitting, Exists, Open, Closed
  <2>4. OneSubmitter'
    BY <2>1, <2>3 DEF IInv, OneSubmitter
  <2>5. ASSUME NEW p \in Ops PROVE Sending(p)' /\ Recorded(p)' /\ Guarded(p)'
    BY <2>1 DEF IInv, Operations, Sending, Recorded, Guarded, Exists, Closed
  <2>6. OnePerPair'
    BY <2>1 DEF IInv, OnePerPair, Exists
  <2> QED BY <2>2, <2>3, <2>4, <2>5, <2>6 DEF IInv, Operations
<1>3. ASSUME NEW k \in PairSlots, SlotGuardExpires(k) PROVE IInv'
  <2>1. UNCHANGED <<record, agentLock, jobKept, worker, flight, job, over, sent, disturbed>>
        /\ slotLock' = [slotLock EXCEPT ![k] = NoOp] /\ k[2] \in over
    BY <1>3 DEF SlotGuardExpires, GuardExpires, Ahead, provider
  <2>2. Typed'
    BY <1>0, <2>1 DEF Typed, StoreTypeOK, Exists
  <2>3. ASSUME NEW w \in Workers PROVE WorkerOK(w)' /\ (Submitting(w)' <=> Submitting(w))
    <3>1. WorkerOK(w)
      BY DEF IInv
    <3> QED BY <2>1, <3>1 DEF WorkerOK, Begins, Copy, Decision, Submitting, Exists, Open, Closed
  <2>4. OneSubmitter'
    BY <2>1, <2>3 DEF IInv, OneSubmitter
  <2>5. ASSUME NEW p \in Ops PROVE Sending(p)' /\ Recorded(p)' /\ Guarded(p)'
    <3>1. Sending(p)' /\ Recorded(p)'
      BY <2>1 DEF IInv, Operations, Sending, Recorded, Exists, Closed
    <3>2. ASSUME record[p].slot \notin over PROVE k # PairSlot(p, record[p].slot)
      BY <2>1, <3>2 DEF PairSlot
    <3>3. Guarded(p)'
      BY <1>0, <2>1, <3>2 DEF IInv, Operations, Guarded, Exists, Typed, StoreTypeOK
    <3> QED BY <3>1, <3>3
  <2>6. OnePerPair'
    BY <2>1 DEF IInv, OnePerPair, Exists
  <2> QED BY <2>2, <2>3, <2>4, <2>5, <2>6 DEF IInv, Operations
<1> QED BY <1>1, <1>2, <1>3
-----------------------------------------------------------------------------
(* Steps that write the table.                                              *)
\* A claim finds the pair's slot free: what the pair had there was refused.
LEMMA BeginGuards ==
  ASSUME IInv, over' = over, NEW o \in Ops, NEW s \in Slots \ over,
         CanBegin(o, s), BeginWrite(o, s)
  PROVE  StoreTypeOK' /\ OnePerPair' /\ \A p \in Ops : Guarded(p)'
<1>0. StoreTypeOK /\ (\A p \in Ops : Guarded(p)) /\ OnePerPair /\ ~Exists(o)
  BY DEF IInv, Typed, Operations, CanBegin
<1>1. StoreTypeOK'
  BY <1>0, BeginTypes DEF Begin, Ahead
<1>2. /\ record'[o].stage = "submitting" /\ record'[o].slot = s
      /\ \A p \in Ops \ {o} : record'[p] = record[p]
  BY <1>0 DEF BeginWrite, StoreTypeOK
<1>3. /\ slotLock' = [slotLock EXCEPT ![PairSlot(o, s)] = o]
      /\ slotLock[PairSlot(o, s)] = NoOp /\ PairSlot(o, s) \in PairSlots
  BY PartiesAreAgents DEF CanBegin, BeginWrite
<1>4. ASSUME NEW p \in Ops PROVE Guarded(p)'
  <2>1. CASE p = o
    BY <1>0, <1>2, <1>3, <2>1 DEF Guarded, StoreTypeOK
  <2>2. CASE p # o
    <3>1. p # NoOp /\ Guarded(p) /\ record'[p] = record[p]
      BY <1>0, <1>2, <2>2, NullAssumption
    <3>2. CASE PairSlot(p, record[p].slot) = PairSlot(o, s)
      BY <1>3, <3>1, <3>2 DEF Guarded, Exists
    <3>3. CASE PairSlot(p, record[p].slot) # PairSlot(o, s)
      BY <1>0, <1>3, <3>1, <3>3 DEF Guarded, Exists, StoreTypeOK
    <3> QED BY <3>2, <3>3
  <2> QED BY <2>1, <2>2
<1>5. ASSUME NEW p \in Ops \ {o}, Parties(p) = Parties(o), Exists(p), record[p].slot = s
      PROVE  record[p].stage \in Refused
  <2>1. slotLock[PairSlot(p, s)] # p
    BY <1>3, <1>5, NullAssumption DEF PairSlot
  <2> QED BY <1>0, <1>5, <2>1 DEF Guarded
<1>6. OnePerPair'
  <2> SUFFICES ASSUME NEW p \in Ops, NEW q \in Ops, p # q, Parties(p) = Parties(q),
                      Exists(p)', Exists(q)', record'[p].slot = record'[q].slot
               PROVE  record'[p].stage \in Refused \/ record'[q].stage \in Refused
    BY DEF OnePerPair
  <2>1. CASE p # o /\ q # o
    BY <1>0, <1>2, <2>1 DEF OnePerPair, Exists
  <2>2. CASE p = o
    BY <1>2, <1>5, <2>2 DEF Exists
  <2>3. CASE q = o
    BY <1>2, <1>5, <2>3 DEF Exists
  <2> QED BY <2>1, <2>2, <2>3
<1> QED BY <1>1, <1>4, <1>6

\* A save frees the pair's slot exactly when it refuses.
LEMMA SaveGuards ==
  ASSUME IInv, over' = over, NEW o \in Ops, NEW r \in Record,
         r.stage # "absent", r.slot = record[o].slot, Open(o),
         CanSave(o, r, record[o].rev, r.stage \in Refused),
         SaveWrite(o, r, r.stage \in Refused)
  PROVE  StoreTypeOK' /\ OnePerPair' /\ \A p \in Ops : Guarded(p)'
<1> DEFINE k == PairSlot(o, r.slot)
<1>0. /\ StoreTypeOK /\ (\A p \in Ops : Guarded(p)) /\ OnePerPair
      /\ Exists(o) /\ record[o].stage \notin Refused
  BY DEF IInv, Typed, Operations, CanSave, Open, Unresolved, Refused
<1>1. /\ record' \in [Ops -> Record] /\ record'[o] = r
      /\ \A p \in Ops \ {o} : record'[p] = record[p]
  BY <1>0 DEF SaveWrite, StoreTypeOK
<1>2. k \in PairSlots
  BY <1>0, PartiesAreAgents DEF StoreTypeOK
<1>3. \A j \in PairSlots :
        slotLock'[j] = IF r.stage \in Refused /\ j = k THEN NoOp ELSE slotLock[j]
  BY <1>0 DEF SaveWrite, StoreTypeOK
<1>4. StoreTypeOK'
  <2>1. agentLock' \in [Agents -> Ops \union {NoOp}]
    BY <1>0 DEF SaveWrite, StoreTypeOK
  <2>2. slotLock' \in [PairSlots -> Ops \union {NoOp}]
    BY <1>0 DEF SaveWrite, StoreTypeOK
  <2>3. \A p \in Ops : Exists(p)' => record'[p].slot \in Slots
    BY <1>0, <1>1 DEF StoreTypeOK, Exists
  <2> QED BY <1>0, <1>1, <2>1, <2>2, <2>3 DEF StoreTypeOK
<1>5. ASSUME NEW p \in Ops PROVE Guarded(p)'
  <2>1. CASE p = o
    BY <1>0, <1>1, <1>2, <1>3, <2>1 DEF Guarded
  <2>2. CASE p # o
    <3> DEFINE j == PairSlot(p, record[p].slot)
    <3>1. Guarded(p) /\ record'[p] = record[p] /\ (Exists(p) => j \in PairSlots)
      BY <1>0, <1>1, <2>2, PartiesAreAgents DEF StoreTypeOK
    <3>2. r.stage \in Refused => slotLock[k] = o
      BY DEF CanSave
    <3> QED BY <1>3, <2>2, <3>1, <3>2 DEF Guarded, Exists
  <2> QED BY <2>1, <2>2
<1>6. OnePerPair'
  <2>1. \A p \in Ops : /\ Exists(p)' <=> Exists(p)
                       /\ record'[p].slot = record[p].slot
                       /\ record[p].stage \in Refused => record'[p].stage \in Refused
    BY <1>0, <1>1 DEF Exists
  <2> QED BY <1>0, <2>1 DEF OnePerPair
<1> QED BY <1>4, <1>5, <1>6

\* One worker moves and writes the record of one operation, which has no other
\* submitter.
LEMMA RecordMoves ==
  ASSUME IInv, UNCHANGED <<provider, over, sent>>, StoreTypeOK', OnePerPair',
         \A p \in Ops : Guarded(p)',
         jobKept' \subseteq Ops, disturbed' \in 0..MaxDisturbed,
         NEW o \in Ops, NEW r \in Record, record' = [record EXCEPT ![o] = r],
         r.stage # "absent", r.rev = 0 <=> r.stage = "submitting",
         r.stage \in Refused => Closed(o),
         Exists(o) => record[o].rev < r.rev,
         NEW w \in Workers, worker' \in [Workers -> Worker],
         \A v \in Workers : v # w =>
           worker'[v] = worker[v] /\ (worker[v].op = o => ~Submitting(v)),
         WorkerOK(w)', Submitting(w)' => worker'[w].op = o
  PROVE  IInv'
<1>0. /\ UNCHANGED <<flight, job, over, sent>>
      /\ record'[o] = r /\ \A p \in Ops : p # o => record'[p] = record[p]
  BY DEF provider, IInv, Typed, StoreTypeOK
<1>1. Typed'
  BY <1>0 DEF IInv, Typed
<1>2. ASSUME NEW v \in Workers, v # w
      PROVE  WorkerOK(v)' /\ (Submitting(v)' <=> Submitting(v))
  <2>1. WorkerOK(v) /\ worker'[v] = worker[v] /\ worker[v] \in Worker
    BY <1>2 DEF IInv, Typed
  <2>2. Submitting(v)' <=> Submitting(v)
    BY <2>1 DEF Submitting
  <2>3. Begins(v)' /\ Decision(v)'
    BY <1>0, <2>1 DEF WorkerOK, Begins, Decision, Closed
  <2>4. Copy(v)'
    <3>1. CASE worker[v].pc \notin Held
      BY <2>1, <2>2, <3>1 DEF WorkerOK, Copy, Held, Submitting
    <3>2. CASE worker[v].pc \in Held /\ worker[v].op # o
      <4>1. worker[v].op \in Ops /\ record'[worker[v].op] = record[worker[v].op]
        BY <1>0, <2>1, <3>2 DEF WorkerOK, Begins, Held
      <4> QED BY <2>1, <2>2, <3>2, <4>1 DEF WorkerOK, Copy, Exists, Open
    <3>3. CASE worker[v].pc \in Held /\ worker[v].op = o
      <4>1. Exists(o) /\ worker[v].rev <= record[o].rev /\ record[o].rev < r.rev /\ ~Submitting(v)
        BY <1>2, <2>1, <3>3 DEF WorkerOK, Copy
      <4>2. worker[v].rev \in Nat /\ record[o].rev \in Nat /\ r.rev \in Nat
        BY <2>1, ExternalAssumption DEF Worker, Record, IInv, Typed, StoreTypeOK
      <4>3. Exists(o)' /\ worker[v].rev < record'[o].rev
        BY <1>0, <4>1, <4>2 DEF Exists
      <4> QED BY <2>1, <2>2, <3>3, <4>1, <4>2, <4>3, <1>0 DEF WorkerOK, Copy
    <3> QED BY <3>1, <3>2, <3>3
  <2> QED BY <2>2, <2>3, <2>4 DEF WorkerOK
<1>3. OneSubmitter'
  <2> SUFFICES ASSUME NEW u \in Workers, NEW v \in Workers, u # v, Submitting(u)', Submitting(v)',
                      worker'[u].op = worker'[v].op
               PROVE  FALSE
    BY DEF OneSubmitter
  <2>1. CASE u # w /\ v # w
    BY <1>2, <2>1 DEF IInv, OneSubmitter
  <2>2. CASE u = w
    BY <1>2, <2>2
  <2>3. CASE v = w
    BY <1>2, <2>3
  <2> QED BY <2>1, <2>2, <2>3
<1>4. ASSUME NEW p \in Ops PROVE Sending(p)' /\ Recorded(p)'
  <2>1. Sending(p) /\ Recorded(p)
    BY DEF IInv, Operations
  <2>2. CASE p = o
    BY <1>0, <2>1, <2>2 DEF Sending, Recorded, Exists, Closed
  <2>3. CASE p # o
    BY <1>0, <2>1, <2>3 DEF Sending, Recorded, Exists, Closed
  <2> QED BY <2>2, <2>3
<1> QED BY <1>1, <1>2, <1>3, <1>4 DEF IInv, Operations

LEMMA BeginKeeps ==
  ASSUME IInv, NEW w \in Workers, SubmitBegin(w) \/ SubmitBeginLost(w)
  PROVE  IInv'
<1>0. worker[w] \in Worker /\ WorkerOK(w) /\ worker[w].pc = "begin"
      /\ disturbed \in 0..MaxDisturbed /\ MaxDisturbed \in Nat
      /\ worker \in [Workers -> Worker] /\ jobKept \subseteq Ops
  BY ExternalAssumption DEF SubmitBegin, SubmitBeginLost, IInv, Typed
<1>1. PICK o \in Ops : o = worker[w].op
  BY <1>0 DEF WorkerOK, Begins
<1>2. PICK s \in Slots \ over : s = worker[w].slot
  BY <1>0 DEF WorkerOK, Begins
<1>3. CASE ~CanBegin(o, s)
  <2>1. SubmitBegin(w) /\ End(w) /\ UNCHANGED Shared /\ jobKept' = jobKept
        /\ disturbed' = disturbed
    BY <1>1, <1>2, <1>3 DEF SubmitBegin, SubmitBeginLost, Undisturbed, Shared
  <2> QED BY <1>0, <2>1, EndKeeps
<1>4. CASE CanBegin(o, s)
  <2> DEFINE r == [stage |-> "submitting", slot |-> s, rev |-> 0, due |-> FALSE]
  <2>1. /\ BeginWrite(o, s) /\ ~Exists(o)
        /\ UNCHANGED <<provider, over, sent>>
        /\ jobKept' \subseteq Ops /\ disturbed' \in 0..MaxDisturbed
    BY <1>0, <1>1, <1>2, <1>4 DEF SubmitBegin, SubmitBeginLost, Undisturbed, Disturb, CanBegin,
       BeginWrite
  <2>2. r \in Record /\ record' = [record EXCEPT ![o] = r] /\ record'[o] = r
        /\ r.stage = "submitting" /\ r.rev = 0
    BY <2>1, RecordOfBegin DEF BeginWrite, IInv, Typed, StoreTypeOK
  <2> HIDE DEF r
  <2>3. StoreTypeOK' /\ OnePerPair' /\ \A p \in Ops : Guarded(p)'
    BY <1>4, <2>1, BeginGuards
  <2>4. \A v \in Workers : worker[v].op = o => ~Submitting(v)
    BY <2>1, SubmitterIsFirst
  <2>5. /\ worker' \in [Workers -> Worker] /\ WorkerOK(w)'
        /\ \A v \in Workers : v # w => worker'[v] = worker[v]
        /\ Submitting(w)' => worker'[w].op = o
    <3>1. CASE End(w)
      BY <1>0, <3>1, EndIsOK
    <3>2. CASE worker' = [worker EXCEPT ![w].pc = "send"]
      <4>1. /\ worker' \in [Workers -> Worker]
            /\ worker'[w].pc = "send" /\ worker'[w].op = o /\ worker'[w].rev = 0
            /\ \A v \in Workers : v # w => worker'[v] = worker[v]
        <5> DEFINE k == [worker[w] EXCEPT !.pc = "send"]
        <5>1. worker[w].rev = 0
          BY <1>0 DEF WorkerOK, Copy
        <5>2. k \in Worker /\ k.pc = "send" /\ k.op = o /\ k.rev = 0
          BY <1>0, <1>1, <5>1 DEF Worker, PC
        <5>3. worker' = [worker EXCEPT ![w] = k]
          BY <1>0, <3>2 DEF Worker
        <5> HIDE DEF k
        <5> QED BY <1>0, <5>2, <5>3
      <4>2. Begins(w)' /\ Copy(w)'
        BY <2>2, <4>1 DEF Begins, Copy, Held, Submitting, Exists, Open, Unresolved
      <4>3. sent'[o] = 0
        BY <2>1 DEF IInv, Operations, Sending
      <4> QED BY <4>1, <4>2, <4>3 DEF WorkerOK, Decision
    <3> QED BY <1>1, <1>2, <1>4, <3>1, <3>2 DEF SubmitBegin, SubmitBeginLost
  <2>6. r.stage # "absent" /\ r.stage \notin Refused
    BY <2>2 DEF Refused
  <2> QED BY <2>1, <2>2, <2>3, <2>4, <2>5, <2>6, RecordMoves
<1> QED BY <1>3, <1>4

\* A worker saves only what its own copy is still the record of, so no other
\* submits: its operation is at a later revision or its own.
LEMMA SaverIsAlone ==
  ASSUME IInv, NEW w \in Workers, worker[w].pc \in {"save", "lease"},
         NEW v \in Workers, v # w, worker[v].op = worker[w].op
  PROVE  ~Submitting(v)
BY SubmitterIsAlone DEF Held

LEMMA SaveKeeps ==
  ASSUME IInv, NEW w \in Workers, SaveResult(w) PROVE IInv'
<1>0. /\ worker[w] \in Worker /\ WorkerOK(w) /\ worker[w].pc = "save" /\ End(w)
      /\ disturbed \in 0..MaxDisturbed /\ MaxDisturbed \in Nat
      /\ worker \in [Workers -> Worker] /\ jobKept \subseteq Ops
      /\ UNCHANGED <<provider, over, sent>>
  BY ExternalAssumption DEF SaveResult, Save1, SaveWrite, storeVars, IInv, Typed
<1>1. PICK o \in Ops : o = worker[w].op
  BY <1>0 DEF WorkerOK, Begins
<1>2. disturbed' \in 0..MaxDisturbed
  BY <1>0 DEF SaveResult, Undisturbed, Disturb
<1>3. CASE ~Save1(w)
  BY <1>0, <1>2, <1>3, EndKeeps DEF SaveResult, Shared
<1>4. CASE Save1(w)
  <2> DEFINE r == Saved(w)
  <2>1. /\ CanSave(o, r, worker[w].rev, r.stage \in Refused)
        /\ SaveWrite(o, r, r.stage \in Refused)
        /\ jobKept' \subseteq Ops
    BY <1>0, <1>1, <1>4 DEF Save1, Saved, Release
  <2>2. record[o] \in Record /\ worker[w].rev \in Nat
    BY <1>0, ExternalAssumption DEF Worker, IInv, Typed, StoreTypeOK
  <2>3. /\ r \in Record /\ r.stage = worker[w].stage /\ r.rev = worker[w].rev + 1
        /\ r.slot = record[o].slot
    BY <1>0, <1>1, <2>2 DEF Saved, Record, WorkerOK, Decision
  <2>4. /\ r.stage \in Stages /\ r.stage # "submitting"
        /\ r.stage \in Refused => Closed(o)
    BY <1>0, <1>1, <2>3 DEF WorkerOK, Decision
  <2>5. record[o].rev = worker[w].rev
    BY <2>1 DEF CanSave
  <2>6. Open(o)
    BY <1>0, <1>1, <2>5 DEF WorkerOK, Copy, Held
  <2>7. PICK x \in Record : x = r
    BY <2>3
  <2> HIDE DEF r
  <2>8. /\ x.stage \in Stages /\ x.stage # "submitting" /\ x.stage # "absent"
        /\ x.stage \in Refused => Closed(o)
        /\ x.rev # 0 /\ record[o].rev < x.rev
    BY <2>2, <2>3, <2>4, <2>5, <2>7 DEF Stages, Terminal, Refused, Unresolved
  <2>9. StoreTypeOK' /\ OnePerPair' /\ \A p \in Ops : Guarded(p)'
    BY <1>0, <2>1, <2>3, <2>5, <2>6, <2>7, <2>8, SaveGuards
  <2>10. record' = [record EXCEPT ![o] = x]
    BY <2>1, <2>7 DEF SaveWrite
  <2>11. /\ worker' \in [Workers -> Worker] /\ WorkerOK(w)' /\ ~Submitting(w)'
         /\ \A v \in Workers : v # w =>
              worker'[v] = worker[v] /\ (worker[v].op = o => ~Submitting(v))
    BY <1>0, <1>1, EndIsOK, SaverIsAlone
  <2>12. /\ x.rev = 0 <=> x.stage = "submitting"
         /\ Exists(o) => record[o].rev < x.rev
    BY <2>8
  <2> QED BY <1>0, <1>2, <2>1, <2>8, <2>9, <2>10, <2>11, <2>12, RecordMoves
<1> QED BY <1>3, <1>4

LEMMA LeaseKeeps ==
  ASSUME IInv, NEW w \in Workers, PollLease(w) PROVE IInv'
<1>0. /\ worker[w] \in Worker /\ WorkerOK(w) /\ worker[w].pc = "lease"
      /\ worker \in [Workers -> Worker] /\ jobKept' = jobKept /\ jobKept' \subseteq Ops
      /\ UNCHANGED <<provider, over, sent>>
      /\ disturbed' = disturbed /\ disturbed' \in 0..MaxDisturbed
  BY DEF PollLease, SaveWrite, storeVars, IInv, Typed
<1>1. PICK o \in Ops : o = worker[w].op
  BY <1>0 DEF WorkerOK, Begins
<1>2. CASE ~CanSave(o, Leased(w), worker[w].rev, FALSE)
  <2>1. End(w) /\ UNCHANGED Shared
    BY <1>1, <1>2 DEF PollLease, Shared
  <2> QED BY <1>0, <2>1, EndKeeps
<1>3. CASE CanSave(o, Leased(w), worker[w].rev, FALSE)
  <2>1. SaveWrite(o, Leased(w), FALSE) /\ worker' = [worker EXCEPT ![w].pc = "ask", ![w].rev = @ + 1]
    BY <1>1, <1>3 DEF PollLease
  <2>2. record[o] \in Record /\ worker[w].rev \in 0..MaxRev /\ MaxRev \in Nat
        /\ worker[w].rev < MaxRev
    BY <1>0, ExternalAssumption DEF Worker, IInv, Typed, StoreTypeOK, WorkerOK, Begins
  <2> DEFINE r == Leased(w)
  <2>3. PICK x \in Record : /\ x = r /\ x.stage = "pending"
                            /\ x.rev = worker[w].rev + 1 /\ x.slot = record[o].slot
    <3>1. /\ r.stage = "pending" /\ r.rev = worker[w].rev + 1 /\ r.slot = record[o].slot
          /\ r \in Record
      BY <1>1, <2>2 DEF Leased, Record, Stages, Unresolved
    <3> HIDE DEF r
    <3> QED BY <3>1
  <2>4. record[o].rev = worker[w].rev /\ Open(o)
    BY <1>0, <1>1, <1>3 DEF CanSave, WorkerOK, Copy, Held
  <2>5. /\ x.stage # "submitting" /\ x.stage # "absent" /\ x.stage \notin Refused
        /\ x.rev # 0 /\ record[o].rev < x.rev
    BY <2>2, <2>3, <2>4 DEF Refused
  <2>6. StoreTypeOK' /\ OnePerPair' /\ \A p \in Ops : Guarded(p)'
    <3>1. CanSave(o, x, record[o].rev, FALSE) /\ SaveWrite(o, x, FALSE)
      BY <1>3, <2>1, <2>3, <2>4
    <3>2. (x.stage \in Refused) = FALSE
      BY <2>5
    <3>3. CanSave(o, x, record[o].rev, x.stage \in Refused) /\ SaveWrite(o, x, x.stage \in Refused)
      BY <3>1, <3>2
    <3> QED BY <1>0, <2>3, <2>4, <2>5, <3>3, SaveGuards
  <2>7. record' = [record EXCEPT ![o] = x] /\ record'[o] = x
    BY <2>1, <2>3 DEF SaveWrite, IInv, Typed, StoreTypeOK
  <2>8. /\ worker' \in [Workers -> Worker]
        /\ worker'[w].pc = "ask" /\ worker'[w].op = o /\ worker'[w].rev = x.rev
        /\ \A v \in Workers : v # w => worker'[v] = worker[v]
    <3> DEFINE m == [worker[w] EXCEPT !.pc = "ask"]
               k == [m EXCEPT !.rev = worker[w].rev + 1]
    <3>0. m \in Worker /\ m.pc = "ask" /\ m.op = o
      BY <1>0, <1>1 DEF Worker, PC
    <3>1. k \in Worker /\ k.pc = "ask" /\ k.op = o /\ k.rev = x.rev
      <4> HIDE DEF m
      <4>1. worker[w].rev + 1 \in 0..MaxRev
        BY <2>2
      <4> QED BY <2>3, <3>0, <4>1 DEF Worker
    <3>2. worker' = [worker EXCEPT ![w] = k]
      BY <1>0, <2>1 DEF Worker
    <3> HIDE DEF k, m
    <3> QED BY <1>0, <3>1, <3>2
  <2>9. WorkerOK(w)' /\ ~Submitting(w)'
    <3>1. Begins(w)' /\ Decision(w)' /\ ~Submitting(w)'
      BY <2>8 DEF Begins, Decision, Submitting
    <3>2. Exists(o)' /\ Open(o)' /\ x.rev \in Nat /\ x.rev > 0
      BY <2>2, <2>3, <2>7 DEF Exists, Open, Unresolved
    <3>3. Copy(w)'
      BY <2>7, <2>8, <3>1, <3>2 DEF Copy
    <3> QED BY <3>1, <3>3 DEF WorkerOK
  <2>10. \A v \in Workers : v # w =>
           worker'[v] = worker[v] /\ (worker[v].op = o => ~Submitting(v))
    BY <1>0, <1>1, <2>8, SaverIsAlone
  <2>11. /\ x.rev = 0 <=> x.stage = "submitting"
         /\ Exists(o) => record[o].rev < x.rev
    BY <2>5
  <2> HIDE DEF r
  <2> QED BY <1>0, <2>5, <2>6, <2>7, <2>8, <2>9, <2>10, <2>11, RecordMoves
<1> QED BY <1>2, <1>3
-----------------------------------------------------------------------------
LEMMA InitHolds == Init => IInv
<1> SUFFICES ASSUME Init PROVE IInv
  OBVIOUS
<1>1. Typed
  <2>1. StoreTypeOK
    BY DEF Init, StoreInit, StoreTypeOK, Record, NoRecord, Exists
  <2>2. worker \in [Workers -> Worker]
    BY IdleIsTyped DEF Init
  <2> QED BY <2>1, <2>2, ExternalAssumption DEF Init, Typed, Jobs
<1>2. \A w \in Workers : worker[w].pc = "idle"
  BY DEF Init, IdleWorker
<1>3. \A w \in Workers : WorkerOK(w) /\ ~Submitting(w)
  BY <1>2 DEF WorkerOK, Begins, Copy, Decision, Submitting, Held
<1>4. \A o \in Ops : record[o].stage = "absent"
  BY DEF Init, StoreInit, NoRecord
<1>5. Operations /\ OnePerPair
  BY <1>4 DEF Init, Operations, OnePerPair, Sending, Recorded, Guarded, Exists, Closed, Refused
<1> QED BY <1>1, <1>3, <1>5 DEF IInv, OneSubmitter

LEMMA NextKeeps == IInv /\ [Next]_vars => IInv'
<1> SUFFICES ASSUME IInv, [Next]_vars PROVE IInv'
  OBVIOUS
<1>1. ASSUME NEW w \in Workers, Step(w) \/ SubmitBeginLost(w) \/ SubmitGivesUp(w) \/ EndsEarly(w)
      PROVE  IInv'
  BY <1>1, BeginKeeps, SubmitSendKeeps, DecisionsKeep, SubmitRejectedKeeps, SaveKeeps, LeaseKeeps
     DEF Step
<1>2. ASSUME NEW w \in Workers, NEW o \in Ops,
             (\E s \in Slots : SubmitRead(w, o, s)) \/ PollRead(w, o) \/ ReconcileRead(w, o)
      PROVE  IInv'
  BY <1>2, ReadsKeep
<1>3. ASSUME NEW o \in Ops, ProviderTakes(o) \/ ProviderRuns(o) PROVE IInv'
  BY <1>3, ProviderKeeps
<1>4. ASSUME \/ \E o \in Ops : PollDue(o)
             \/ \E s \in Slots : SlotPasses(s)
             \/ \E k \in PairSlots : SlotGuardExpires(k)
      PROVE  IInv'
  BY <1>4, TimeKeeps
<1>5. CASE UNCHANGED vars
  <2>1. \A v \in Workers : WorkerOK(v)' /\ (Submitting(v)' <=> Submitting(v))
    BY <1>5, WorkerKept DEF IInv, vars, Shared
  <2>2. UNCHANGED <<record, agentLock, slotLock, jobKept, worker, flight, job, over, sent, disturbed>>
    BY <1>5 DEF vars, storeVars, provider
  <2>3. Typed'
    BY <2>2 DEF IInv, Typed, StoreTypeOK, Exists
  <2>4. Operations' /\ OnePerPair'
    BY <2>2 DEF IInv, Operations, Sending, Recorded, Guarded, OnePerPair, Exists, Closed
  <2> QED BY <2>1, <2>2, <2>3, <2>4 DEF IInv, OneSubmitter
<1> QED BY <1>1, <1>2, <1>3, <1>4, <1>5 DEF Next

LEMMA InvariantHolds == Spec => []IInv
BY InitHolds, NextKeeps, PTL DEF Spec

\* The table, the invocations and the provider keep their types; an invocation
\* that has made its claim works on an operation that exists, and only such an
\* operation reaches the provider.
THEOREM TypeCorrect == Spec => []TypeOK
<1>1. IInv => TypeOK
  BY DEF IInv, Typed, TypeOK, WorkerOK, Copy, Held, Operations, Sending, Worker, PC
<1> QED BY <1>1, InvariantHolds, PTL

\* The claim that begin writes is made once: whatever is repeated or lost, the
\* provider is sent at most one submission for an operation.
THEOREM SubmissionsCorrect == Spec => []SubmittedAtMostOnce
<1>1. IInv => SubmittedAtMostOnce
  BY DEF IInv, Operations, Sending, SubmittedAtMostOnce
<1> QED BY <1>1, InvariantHolds, PTL

\* What the service calls refused has made no appointment and never will,
\* however late the provider takes a submission or reports on its job.
THEOREM RefusalsCorrect == Spec => []RefusedHasNoAppointment
<1>1. IInv => RefusedHasNoAppointment
  BY DEF IInv, Operations, Recorded, Closed, RefusedHasNoAppointment
<1> QED BY <1>1, InvariantHolds, PTL

\* A pair has at most one appointment at a slot, although the guard of the pair
\* expires before the operation that owns it is resolved.
THEOREM PairsCorrect == Spec => []PairAppointedOnce
<1>1. ASSUME IInv PROVE PairAppointedOnce
  <2> SUFFICES ASSUME NEW o \in Ops, NEW p \in Ops, o # p, Parties(o) = Parties(p),
                      job[o] \in Appointed, job[p] \in Appointed,
                      record[o].slot = record[p].slot
               PROVE  FALSE
    BY DEF PairAppointedOnce
  <2>1. \A q \in {o, p} : Exists(q) /\ record[q].stage \notin Refused
    BY <1>1 DEF IInv, Operations, Sending, Recorded, Closed, Appointed
  <2> QED BY <1>1, <2>1 DEF IInv, OnePerPair
<1> QED BY <1>1, InvariantHolds, PTL
-----------------------------------------------------------------------------
(* What the service promises.  Agents' locks never expire, so an agent is   *)
(* locked by exactly the open operation it takes part in, whatever became   *)
(* of the guard of its pair.  No invocation calls an operation booked.      *)
LocksMatch == \A o \in Ops, a \in Agents : agentLock[a] = o <=> Open(o) /\ a \in Parties(o)
NeverBooked ==
  /\ \A w \in Workers : worker[w].stage # "booked"
  /\ \A o \in Ops : record[o].stage # "booked"
PInv == IInv /\ LocksMatch /\ NeverBooked

\* What a step does to the table.
Settles(o, r) ==
  /\ Open(o)
  /\ r.slot = record[o].slot /\ r.rev = record[o].rev + 1
  /\ r.stage \in Unresolved \union Refused
  /\ r.stage \in Refused => Closed(o)
  /\ CanSave(o, r, record[o].rev, r.stage \in Refused)
  /\ SaveWrite(o, r, r.stage \in Refused)
Clock ==
  \/ \E s \in Slots : SlotEnds(s)
  \/ \E k \in PairSlots : GuardExpires(k)
TableMoves ==
  \/ \E o \in Ops, s \in Slots : Begin(o, s)
  \/ \E o \in Ops, r \in Record : Settles(o, r)
  \/ \E o \in Ops : BecomeDue(o)
  \/ Clock

LEMMA SaveSettles ==
  ASSUME PInv, NEW w \in Workers, SaveResult(w), ~UNCHANGED storeVars
  PROVE  \E o \in Ops, r \in Record : Settles(o, r)
<1>0. worker[w] \in Worker /\ WorkerOK(w) /\ worker[w].pc = "save" /\ Save1(w)
      /\ worker[w].stage # "booked"
  BY DEF SaveResult, PInv, IInv, Typed, NeverBooked
<1>1. PICK o \in Ops : o = worker[w].op
  BY <1>0 DEF WorkerOK, Begins
<1>2. record[o] \in Record /\ worker[w].rev \in Nat
  BY <1>0, ExternalAssumption DEF Worker, PInv, IInv, Typed, StoreTypeOK
<1>3. /\ Saved(w) \in Record /\ Saved(w).stage = worker[w].stage
      /\ Saved(w).slot = record[o].slot /\ Saved(w).rev = worker[w].rev + 1
      /\ CanSave(o, Saved(w), worker[w].rev, Saved(w).stage \in Refused)
      /\ SaveWrite(o, Saved(w), Saved(w).stage \in Refused)
  BY <1>0, <1>1, <1>2 DEF Saved, Record, Save1, Release, WorkerOK, Decision
<1>4. record[o].rev = worker[w].rev
  BY <1>3 DEF CanSave
<1>5. Open(o) /\ (Saved(w).stage \in Refused => Closed(o))
  BY <1>0, <1>1, <1>3, <1>4 DEF WorkerOK, Copy, Held, Decision
<1>6. Saved(w).stage \in Unresolved \union Refused
  BY <1>0, <1>3 DEF WorkerOK, Decision, Stages, Terminal
<1> QED BY <1>3, <1>4, <1>5, <1>6 DEF Settles

LEMMA LeaseSettles ==
  ASSUME PInv, NEW w \in Workers, PollLease(w), ~UNCHANGED storeVars
  PROVE  \E o \in Ops, r \in Record : Settles(o, r)
<1>0. worker[w] \in Worker /\ WorkerOK(w) /\ worker[w].pc = "lease"
  BY DEF PollLease, PInv, IInv, Typed
<1>1. PICK o \in Ops : o = worker[w].op
  BY <1>0 DEF WorkerOK, Begins
<1>2. record[o] \in Record /\ worker[w].rev \in Nat
  BY <1>0, ExternalAssumption DEF Worker, PInv, IInv, Typed, StoreTypeOK
<1>3. /\ Leased(w) \in Record /\ Leased(w).stage = "pending"
      /\ Leased(w).slot = record[o].slot /\ Leased(w).rev = worker[w].rev + 1
      /\ CanSave(o, Leased(w), worker[w].rev, FALSE) /\ SaveWrite(o, Leased(w), FALSE)
  <2>1. /\ Leased(w) \in Record /\ Leased(w).stage = "pending"
        /\ Leased(w).slot = record[o].slot /\ Leased(w).rev = worker[w].rev + 1
    BY <1>1, <1>2 DEF Leased, Record, Stages, Unresolved
  <2>2. CanSave(o, Leased(w), worker[w].rev, FALSE) /\ SaveWrite(o, Leased(w), FALSE)
    BY <1>1 DEF PollLease
  <2> QED BY <2>1, <2>2
<1>4. record[o].rev = worker[w].rev
  BY <1>3 DEF CanSave
<1>5. Open(o)
  BY <1>0, <1>1, <1>4 DEF WorkerOK, Copy, Held
<1>6. (Leased(w).stage \in Refused) = FALSE /\ Leased(w).stage \in Unresolved
  BY <1>3 DEF Refused, Unresolved
<1>7. Settles(o, Leased(w))
  BY <1>3, <1>4, <1>5, <1>6 DEF Settles
<1> QED BY <1>3, <1>7

LEMMA TableSteps ==
  ASSUME PInv, [Next]_vars, ~UNCHANGED storeVars
  PROVE  TableMoves /\ UNCHANGED provider
<1>1. ASSUME NEW w \in Workers, Step(w) \/ SubmitBeginLost(w) \/ SubmitGivesUp(w) \/ EndsEarly(w)
      PROVE  TableMoves /\ UNCHANGED provider
  <2>1. CASE SubmitBegin(w) \/ SubmitBeginLost(w)
    <3>1. worker[w].pc = "begin" /\ WorkerOK(w)
      BY <2>1 DEF SubmitBegin, SubmitBeginLost, PInv, IInv
    <3>2. worker[w].op \in Ops /\ worker[w].slot \in Slots /\ Ahead(worker[w].slot)
      BY <3>1 DEF WorkerOK, Begins, Ahead
    <3> QED BY <2>1, <3>2 DEF SubmitBegin, SubmitBeginLost, TableMoves, Begin
  <2>2. CASE SaveResult(w)
    BY <2>2, SaveSettles DEF TableMoves, SaveResult
  <2>3. CASE PollLease(w)
    BY <2>3, LeaseSettles DEF TableMoves, PollLease
  <2> QED BY <1>1, <2>1, <2>2, <2>3 DEF Step, SubmitSend, SubmitInvalid, SubmitAccepted,
            SubmitRejected, PollAsk, ReconcileAsk, SubmitGivesUp, EndsEarly
<1>2. ASSUME NEW w \in Workers, NEW o \in Ops,
             (\E s \in Slots : SubmitRead(w, o, s)) \/ PollRead(w, o) \/ ReconcileRead(w, o)
      PROVE  FALSE
  BY <1>2 DEF SubmitRead, PollRead, ReconcileRead
<1>3. ASSUME NEW o \in Ops, ProviderTakes(o) \/ ProviderRuns(o) PROVE FALSE
  BY <1>3 DEF ProviderTakes, ProviderRuns
<1>4. ASSUME \/ \E o \in Ops : PollDue(o)
             \/ \E s \in Slots : SlotPasses(s)
             \/ \E k \in PairSlots : SlotGuardExpires(k)
      PROVE  TableMoves /\ UNCHANGED provider
  BY <1>4 DEF PollDue, SlotPasses, SlotGuardExpires, Clock, TableMoves
<1>5. ~UNCHANGED vars
  BY DEF vars
<1> QED BY <1>1, <1>2, <1>3, <1>4, <1>5 DEF Next

LEMMA WorkersNeverBook ==
  ASSUME PInv, [Next]_vars
  PROVE  \A w \in Workers : worker'[w].stage # "booked"
<1>0. /\ worker \in [Workers -> Worker] /\ \A w \in Workers : worker[w].stage # "booked"
      /\ NoStage # "booked"
  BY ExternalAssumption DEF PInv, NeverBooked, IInv, Typed, Stages, Terminal
<1>1. ASSUME NEW w \in Workers, NEW k \in Worker, k.stage # "booked",
             worker' = [worker EXCEPT ![w] = k]
      PROVE  \A v \in Workers : worker'[v].stage # "booked"
  BY <1>0, <1>1
<1>2. ASSUME NEW w \in Workers, End(w)
      PROVE  \A v \in Workers : worker'[v].stage # "booked"
  BY <1>0, <1>2 DEF End, IdleWorker
<1>3. ASSUME NEW w \in Workers, NEW stage, NEW kept, stage # "booked", Decide(w, stage, kept)
      PROVE  \A v \in Workers : worker'[v].stage # "booked"
  BY <1>0, <1>3 DEF Decide, Worker
<1>4. \A o \in Ops : \A stage \in Report(o) : stage # "booked"
  BY DEF Report
<1>5. ASSUME NEW w \in Workers, Step(w) \/ SubmitBeginLost(w) \/ SubmitGivesUp(w) \/ EndsEarly(w)
      PROVE  \A v \in Workers : worker'[v].stage # "booked"
  <2>1. CASE SubmitBegin(w) \/ SubmitSend(w)
    BY <1>0, <1>2, <2>1 DEF SubmitBegin, SubmitSend, Worker
  <2>2. CASE SubmitBeginLost(w) \/ EndsEarly(w) \/ SaveResult(w)
    BY <1>2, <2>2 DEF SubmitBeginLost, EndsEarly, SaveResult
  <2>3. CASE SubmitInvalid(w) \/ SubmitAccepted(w) \/ SubmitRejected(w) \/ SubmitGivesUp(w)
    BY <1>3, <2>3 DEF SubmitInvalid, SubmitAccepted, SubmitRejected, SubmitGivesUp
  <2>4. CASE PollLease(w)
    BY <1>0, <1>2, <2>4 DEF PollLease, Worker
  <2>5. CASE PollAsk(w) \/ ReconcileAsk(w)
    <3>1. worker[w].op \in Ops
      BY <2>5 DEF PollAsk, ReconcileAsk, PInv, IInv, WorkerOK, Begins
    <3> QED BY <1>2, <1>3, <1>4, <2>5, <3>1 DEF PollAsk, ReconcileAsk
  <2> QED BY <1>5, <2>1, <2>2, <2>3, <2>4, <2>5 DEF Step
<1>6. ASSUME NEW w \in Workers, NEW o \in Ops,
             (\E s \in Slots : SubmitRead(w, o, s)) \/ PollRead(w, o) \/ ReconcileRead(w, o)
      PROVE  \A v \in Workers : worker'[v].stage # "booked"
  <2>1. worker'[w].stage = NoStage /\ \A v \in Workers : v # w => worker'[v] = worker[v]
    <3>1. CASE \E s \in Slots : SubmitRead(w, o, s)
      BY <1>0, <3>1 DEF SubmitRead, IdleWorker
    <3>2. CASE PollRead(w, o)
      BY <1>0, <3>2 DEF PollRead, IdleWorker
    <3>3. CASE ReconcileRead(w, o)
      BY <1>0, <3>3 DEF ReconcileRead, IdleWorker
    <3> QED BY <1>6, <3>1, <3>2, <3>3
  <2> QED BY <1>0, <2>1
<1>7. ASSUME UNCHANGED worker
      PROVE  \A v \in Workers : worker'[v].stage # "booked"
  BY <1>0, <1>7
<1> QED BY <1>5, <1>6, <1>7 DEF Next, ProviderTakes, ProviderRuns, PollDue, SlotPasses,
          SlotGuardExpires, vars

LEMMA LocksStep ==
  ASSUME PInv, [Next]_vars
  PROVE  LocksMatch' /\ \A o \in Ops : record'[o].stage # "booked"
<1>0. /\ record \in [Ops -> Record] /\ agentLock \in [Agents -> Ops \union {NoOp}]
      /\ LocksMatch /\ \A o \in Ops : record[o].stage # "booked"
  BY DEF PInv, NeverBooked, IInv, Typed, StoreTypeOK
<1>1. CASE UNCHANGED storeVars
  BY <1>0, <1>1 DEF storeVars, LocksMatch, Open
<1>2. ASSUME NEW o \in Ops, NEW s \in Slots, Begin(o, s)
      PROVE  LocksMatch' /\ \A p \in Ops : record'[p].stage # "booked"
  <2>1. /\ record'[o].stage = "submitting"
        /\ \A p \in Ops : p # o => record'[p] = record[p]
        /\ \A a \in Agents : agentLock'[a] = IF a \in Parties(o) THEN o ELSE agentLock[a]
        /\ \A a \in Parties(o) : agentLock[a] = NoOp
        /\ ~Open(o)
    BY <1>0, <1>2 DEF Begin, CanBegin, BeginWrite, Exists, Open, Unresolved
  <2>2. \A p \in Ops : Open(p)' <=> (p = o \/ Open(p))
    BY <2>1 DEF Open, Unresolved
  <2>3. LocksMatch'
    BY <1>0, <2>1, <2>2, NullAssumption DEF LocksMatch
  <2> QED BY <1>0, <2>1, <2>3
<1>3. ASSUME NEW o \in Ops, NEW r \in Record, Settles(o, r)
      PROVE  LocksMatch' /\ \A p \in Ops : record'[p].stage # "booked"
  <2>1. /\ record'[o] = r /\ \A p \in Ops : p # o => record'[p] = record[p]
        /\ \A a \in Agents : agentLock'[a] = IF r.stage \in Refused /\ a \in Parties(o)
                                             THEN NoOp ELSE agentLock[a]
        /\ Open(o) /\ r.stage \in Unresolved \union Refused
    BY <1>0, <1>3 DEF Settles, SaveWrite
  <2>2. /\ \A p \in Ops : p # o => (Open(p)' <=> Open(p))
        /\ Open(o)' <=> r.stage \notin Refused
        /\ r.stage # "booked"
    BY <2>1 DEF Open, Unresolved, Refused
  <2>3. LocksMatch'
    BY <1>0, <2>1, <2>2, NullAssumption DEF LocksMatch
  <2> QED BY <1>0, <2>1, <2>2, <2>3
<1>4. ASSUME NEW o \in Ops, BecomeDue(o)
      PROVE  LocksMatch' /\ \A p \in Ops : record'[p].stage # "booked"
  <2>1. \A p \in Ops : record'[p].stage = record[p].stage
    BY <1>0, <1>4 DEF BecomeDue, Record
  <2> QED BY <1>0, <1>4, <2>1 DEF LocksMatch, Open, BecomeDue
<1>5. CASE Clock
  BY <1>0, <1>5 DEF Clock, SlotEnds, GuardExpires, LocksMatch, Open
<1> QED BY <1>1, <1>2, <1>3, <1>4, <1>5, TableSteps DEF TableMoves

LEMMA PromiseInv == Spec => []PInv
<1>1. Init => LocksMatch /\ NeverBooked
  BY NullAssumption, ExternalAssumption
     DEF Init, StoreInit, NoRecord, IdleWorker, LocksMatch, NeverBooked, Open, Unresolved, Stages,
         Terminal
<1>2. PInv /\ [Next]_vars => (LocksMatch /\ NeverBooked)'
  BY WorkersNeverBook, LocksStep DEF NeverBooked
<1> QED BY <1>1, <1>2, InvariantHolds, PTL DEF Spec, PInv

\* Bookings through the provider keep the discipline of the table, too: they
\* claim only slots that lie ahead, save only unresolved records one revision
\* on, and give up the locks exactly with a refusal.
LEMMA TableIsStore ==
  ASSUME PInv, TableMoves
  PROVE  StoreNext
<1>1. ASSUME NEW o \in Ops, NEW r \in Record, Settles(o, r)
      PROVE  r.stage \in Stages /\ r.due \in BOOLEAN /\ Save(o, r.stage, r.due)
  <2>1. r = [stage |-> r.stage, slot |-> record[o].slot, rev |-> record[o].rev + 1,
             due |-> r.due]
    BY <1>1 DEF Settles, Record
  <2>2. /\ r.stage \in Stages /\ r.due \in BOOLEAN
        /\ r.stage \in Terminal <=> r.stage \in Refused
    BY <1>1 DEF Settles, Stages, Terminal, Unresolved, Refused, Record
  <2>3. (r.stage \in Terminal) = (r.stage \in Refused)
    BY <2>2 DEF Terminal
  <2>4. CanSave(o, r, record[o].rev, r.stage \in Terminal) /\ SaveWrite(o, r, r.stage \in Terminal)
    BY <1>1, <2>3 DEF Settles
  <2>5. Open(o)
    BY <1>1 DEF Settles
  <2> QED BY <2>1, <2>2, <2>4, <2>5 DEF Save
<1> QED BY <1>1 DEF TableMoves, Clock, StoreNext

THEOREM ImplementsStore == Spec => StoreSpec
<1>1. Init => StoreInit
  BY DEF Init
<1>2. PInv /\ [Next]_vars => [StoreNext]_storeVars
  BY TableSteps, TableIsStore
<1> QED BY <1>1, <1>2, PromiseInv, PTL DEF Spec, StoreSpec

\* An agent is in one open operation at most, although the guard of its pair
\* at the slot may be gone.
THEOREM ExternalAgentExclusion == Spec => []OneOpenOperationPerAgent
<1>1. PInv => OneOpenOperationPerAgent
  BY PartiesAreAgents DEF PInv, LocksMatch, OneOpenOperationPerAgent
<1> QED BY <1>1, PromiseInv, PTL

\* A refused record is never written again: late polls and reconciliations
\* find another revision.
THEOREM ExternalTerminalFinality == Spec => TerminalIsFinal
<1>1. ASSUME PInv, [Next]_vars
      PROVE  [\A o \in Ops : record[o].stage \in Terminal => record'[o] = record[o]]_storeVars
  <2>0. record \in [Ops -> Record]
    BY <1>1 DEF PInv, IInv, Typed, StoreTypeOK
  <2> SUFFICES ASSUME ~UNCHANGED storeVars, NEW o \in Ops, record[o].stage \in Terminal
               PROVE  record'[o] = record[o]
    OBVIOUS
  <2>1. Exists(o) /\ ~Open(o)
    BY DEF Exists, Open, Terminal, Refused, Unresolved
  <2> QED BY <1>1, <2>0, <2>1, TableSteps
         DEF TableMoves, Begin, CanBegin, BeginWrite, Settles, SaveWrite, BecomeDue, Clock,
             SlotEnds, GuardExpires
<1> QED BY <1>1, PromiseInv, PTL DEF Spec, TerminalIsFinal

outcomes == [o \in Ops |-> Outcome(o)]
meetings == [o \in Ops |-> IF job[o] \in Appointed THEN "live" ELSE "none"]

LEMMA OutcomesAre ==
  ASSUME NEW o \in Ops
  PROVE  /\ outcomes[o] = "absent" <=> ~Exists(o)
         /\ outcomes[o] = "open" <=> Open(o)
BY DEF outcomes, Outcome, Exists, Open, Unresolved

LEMMA OneOutcomeMoves ==
  ASSUME record \in [Ops -> Record], NEW o \in Ops, NEW r \in Record,
         record' = [record EXCEPT ![o] = r]
  PROVE  record'[o] = r /\ outcomes' = [outcomes EXCEPT ![o] = Outcome(o)']
<1>1. record'[o] = r /\ \A p \in Ops : p # o => record'[p] = record[p]
  OBVIOUS
<1>2. \A p \in Ops : p # o => Outcome(p)' = Outcome(p)
  BY <1>1 DEF Outcome, Exists, Open
<1> QED BY <1>1, <1>2 DEF outcomes

\* The table moves, the provider does not.
LEMMA TableKeepsPromise ==
  ASSUME PInv, TableMoves, UNCHANGED provider
  PROVE  [Promise!PromiseNext]_(Promise!promiseVars)
<1>0. record \in [Ops -> Record] /\ meetings' = meetings /\ LocksMatch
  BY DEF PInv, IInv, Typed, StoreTypeOK, provider, meetings
<1>1. ASSUME UNCHANGED outcomes
      PROVE  UNCHANGED Promise!promiseVars
  BY <1>0, <1>1 DEF Promise!promiseVars, outcomes, meetings
<1>2. ASSUME NEW o \in Ops, NEW s \in Slots, Begin(o, s)
      PROVE  Promise!OpenOperation(o)
  <2> DEFINE r == [stage |-> "submitting", slot |-> s, rev |-> 0, due |-> FALSE]
  <2>1. r \in Record /\ record' = [record EXCEPT ![o] = r] /\ r.stage = "submitting"
    BY <1>2, RecordOfBegin DEF Begin, BeginWrite
  <2> HIDE DEF r
  <2>2. record'[o] = r /\ outcomes' = [outcomes EXCEPT ![o] = Outcome(o)']
    BY <1>0, <2>1, OneOutcomeMoves
  <2>3. Outcome(o)' = "open"
    BY <2>1, <2>2 DEF Outcome, Exists, Open, Unresolved
  <2>4. outcomes[o] = "absent"
    BY <1>2, OutcomesAre DEF Begin, CanBegin
  <2>5. ASSUME NEW p \in Ops, outcomes[p] = "open"
        PROVE  Parties(p) \cap Parties(o) = {}
    <3>1. Open(p)
      BY <2>5, OutcomesAre
    <3>2. \A a \in Parties(o) : agentLock[a] = NoOp /\ a \in Agents
      BY <1>2, PartiesAreAgents DEF Begin, CanBegin
    <3> QED BY <1>0, <3>1, <3>2, NullAssumption DEF LocksMatch
  <2> QED BY <1>0, <2>2, <2>3, <2>4, <2>5 DEF Promise!OpenOperation, outcomes, meetings
<1>3. ASSUME NEW o \in Ops, NEW r \in Record, Settles(o, r)
      PROVE  UNCHANGED outcomes \/ Promise!DeclareRefused(o)
  <2>1. record' = [record EXCEPT ![o] = r]
    BY <1>3 DEF Settles, SaveWrite
  <2>2. record'[o] = r /\ outcomes' = [outcomes EXCEPT ![o] = Outcome(o)']
    BY <1>0, <2>1, OneOutcomeMoves
  <2>3. outcomes[o] = "open" /\ outcomes \in [Ops -> {"absent", "open", "booked", "refused"}]
    BY <1>3, OutcomesAre DEF Settles, outcomes, Outcome
  <2>4. CASE r.stage \in Unresolved
    <3>1. Outcome(o)' = "open"
      BY <2>2, <2>4 DEF Outcome, Exists, Open, Unresolved
    <3> QED BY <2>2, <2>3, <3>1
  <2>5. CASE r.stage \in Refused
    <3>1. Outcome(o)' = "refused"
      BY <2>2, <2>5 DEF Outcome, Exists, Open, Unresolved, Refused
    <3>2. meetings[o] = "none"
      BY <1>3, <2>5 DEF Settles, Closed, meetings, Appointed
    <3> QED BY <1>0, <2>2, <2>3, <3>1, <3>2 DEF Promise!DeclareRefused, outcomes, meetings
  <2> QED BY <1>3, <2>4, <2>5 DEF Settles
<1>4. ASSUME NEW o \in Ops, BecomeDue(o)
      PROVE  UNCHANGED outcomes
  <2>1. \A p \in Ops : record'[p].stage = record[p].stage
    BY <1>0, <1>4 DEF BecomeDue, Record
  <2> QED BY <2>1 DEF outcomes, Outcome, Exists, Open
<1>5. CASE Clock
  BY <1>1, <1>5 DEF Clock, SlotEnds, GuardExpires, outcomes, Outcome, Exists, Open
<1> QED BY <1>1, <1>2, <1>3, <1>4, <1>5 DEF TableMoves, Promise!PromiseNext

\* The provider takes a submission or runs a job, the table does not move.
LEMMA ProviderKeepsPromise ==
  ASSUME PInv, [Next]_vars, UNCHANGED storeVars
  PROVE  [Promise!PromiseNext]_(Promise!promiseVars)
<1>1. outcomes' = outcomes /\ job \in [Ops -> Jobs]
  BY DEF outcomes, Outcome, Exists, Open, storeVars, PInv, IInv, Typed
<1>2. ASSUME meetings' = meetings
      PROVE  UNCHANGED Promise!promiseVars
  BY <1>1, <1>2 DEF Promise!promiseVars, outcomes, meetings
<1>3. ASSUME NEW o \in Ops, ProviderTakes(o)
      PROVE  meetings' = meetings
  BY <1>1, <1>3 DEF ProviderTakes, PInv, IInv, Operations, Sending, Appointed, meetings
<1>4. ASSUME NEW o \in Ops, ProviderRuns(o)
      PROVE  meetings' = meetings \/ Promise!MeetingAppears(o)
  <2>1. PICK end \in Jobs : job[o] = "queued" /\ job' = [job EXCEPT ![o] = end]
    BY <1>4 DEF ProviderRuns
  <2>2. Open(o) /\ meetings[o] = "none"
    <3>1. Sending(o) /\ Recorded(o) /\ record[o].stage # "booked" /\ record[o] \in Record
      BY DEF PInv, NeverBooked, IInv, Operations, Typed, StoreTypeOK
    <3> QED BY <2>1, <3>1 DEF Sending, Recorded, Closed, Exists, Open, Record, Stages, Terminal,
              meetings, Appointed
  <2>3. \A p \in Ops : p # o => job'[p] = job[p]
    BY <1>1, <2>1
  <2>4. CASE end \in Appointed
    <3>1. meetings' = [meetings EXCEPT ![o] = "live"]
      BY <1>1, <2>1, <2>3, <2>4 DEF meetings
    <3> QED BY <1>1, <2>2, <3>1, OutcomesAre DEF Promise!MeetingAppears, outcomes, meetings
  <2>5. CASE end \notin Appointed
    BY <1>1, <2>1, <2>2, <2>3, <2>5 DEF meetings
  <2> QED BY <2>4, <2>5
<1>5. job' = job \/ \E o \in Ops : ProviderTakes(o) \/ ProviderRuns(o)
  <2>1. ASSUME NEW w \in Workers, Step(w)
        PROVE  job' = job
    BY <2>1 DEF Step, SubmitBegin, SubmitSend, SubmitInvalid, SubmitAccepted, SubmitRejected,
                SaveResult, PollLease, PollAsk, ReconcileAsk, provider
  <2>2. ASSUME NEW w \in Workers, SubmitBeginLost(w) \/ SubmitGivesUp(w) \/ EndsEarly(w)
        PROVE  job' = job
    BY <2>2 DEF SubmitBeginLost, SubmitGivesUp, EndsEarly, provider
  <2>3. ASSUME NEW w \in Workers, NEW o \in Ops,
               (\E s \in Slots : SubmitRead(w, o, s)) \/ PollRead(w, o) \/ ReconcileRead(w, o)
        PROVE  job' = job
    BY <2>3 DEF SubmitRead, PollRead, ReconcileRead, provider
  <2>4. /\ \A o \in Ops : PollDue(o) => job' = job
        /\ \A s \in Slots : SlotPasses(s) => job' = job
        /\ \A k \in PairSlots : SlotGuardExpires(k) => job' = job
    BY DEF PollDue, SlotPasses, SlotGuardExpires, provider
  <2>5. UNCHANGED vars => job' = job
    BY DEF vars, provider
  <2> QED BY <2>1, <2>2, <2>3, <2>4, <2>5 DEF Next
<1> QED BY <1>1, <1>2, <1>3, <1>4, <1>5 DEF Promise!PromiseNext, meetings

\* Bookings through the provider move only as promised, too.
THEOREM PromiseKept == Spec => KeepsPromise
<1>1. Init => Promise!PromiseInit
  <2> SUFFICES ASSUME Init PROVE Promise!PromiseInit
    OBVIOUS
  <2>1. \A o \in Ops : record[o] = NoRecord /\ job[o] = "none"
    BY DEF Init, StoreInit
  <2>2. \A o \in Ops : ~Exists(o)
    BY <2>1 DEF NoRecord, Exists
  <2>3. \A o \in Ops : Outcome(o) = "absent"
    BY <2>2 DEF Outcome, Exists, Open, Unresolved
  <2> QED BY <2>1, <2>3 DEF Promise!PromiseInit, Appointed
<1>2. PInv /\ [Next]_vars => [Promise!PromiseNext]_(Promise!promiseVars)
  BY TableSteps, TableKeepsPromise, ProviderKeepsPromise
<1> QED BY <1>1, <1>2, PromiseInv, PTL DEF Spec, KeepsPromise, Promise!PromiseSpec
=============================================================================
