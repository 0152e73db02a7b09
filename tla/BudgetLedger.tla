---------------------------- MODULE BudgetLedger ----------------------------
(***************************************************************************)
(* The inference budget (src/src/agent/budget.rs) and the only code that   *)
(* spends it (src/src/agent/model.rs): every analysis reserves its maximum *)
(* cost in one ledger row, by compare-and-swap, before the provider is     *)
(* called, and turns the hold into spending only for a valid answer.       *)
(*                                                                         *)
(* Each call of Model::analyze is an element of Calls with an id of its    *)
(* own, and runs concurrently with all others.  Its clock is right when it *)
(* is read, but the time it read may be old when it is used.  What the     *)
(* provider bills, and when, is external: any call that was sent may be    *)
(* billed at any later time, whether or not anyone waits for the answer.   *)
(***************************************************************************)
EXTENDS Integers, FiniteSets

CONSTANTS
  Calls,       \* the calls of analyze
  Cost,        \* MAX_COST, the reservation of each call
  Limit,       \* OPERATING_LIMIT
  MaxHeld,     \* 2000, the most unanswered holds
  MaxTries,    \* 64, the attempts at a compare-and-swap
  MaxMonth     \* bound on time

ASSUME AmountAssumption ==
  /\ Cost \in Nat \ {0} /\ Limit \in Nat
  /\ MaxHeld \in Nat /\ MaxTries \in Nat \ {0} /\ MaxMonth \in Nat

VARIABLES
  now,         \* the current UTC month
  ledger,      \* the "budget" row
  call,        \* the progress of each analyze
  sent,        \* the calls whose request went to the provider
  billed,      \* the month the provider billed each call in, or Never
  charged      \* history: the ledger month each call was charged to, or Never

vars == <<now, ledger, call, sent, billed, charged>>
-----------------------------------------------------------------------------
Months == 0..MaxMonth
Never == -1
Ledger == [rev : Nat, month : Months, spent : Nat, held : SUBSET Calls]
PC == {"start", "reserve", "reserve_cas", "invoke", "wait", "finish",
       "finish_cas", "done"}

Total(l) == l.spent + Cost * Cardinality(l.held)

\* advance: refuses an invalid ledger and a clock behind it; a new month
\* starts with nothing spent and every hold of the old ones.
CanAdvance(l, at) == Total(l) <= Limit /\ at >= l.month
AdvancedDroppingHolds(l, at) ==  \* faulty variant
  IF at > l.month THEN [l EXCEPT !.month = at, !.spent = 0, !.held = {}] ELSE l
Advanced(l, at) ==
  IF at > l.month THEN [l EXCEPT !.month = at, !.spent = 0] ELSE l

\* Ledger::reserve
CanReserveIgnoringCost(l, c, at) ==  \* faulty variant
  CanAdvance(l, at) /\ c \notin l.held /\ Cardinality(l.held) < MaxHeld
CanReserve(l, c, at) ==
  /\ CanAdvance(l, at)
  /\ c \notin l.held
  /\ Total(Advanced(l, at)) + Cost <= Limit
  /\ Cardinality(l.held) < MaxHeld
Reserved(l, c, at) == [Advanced(l, at) EXCEPT !.held = @ \union {c}]

\* Ledger::finish: a hold is charged once, in the month of its completion.
Finished(l, c, at) ==
  IF c \in l.held THEN [Advanced(l, at) EXCEPT !.held = @ \ {c}, !.spent = @ + Cost]
                  ELSE Advanced(l, at)

\* StateStore::cas of the new ledger l, made from the one c has seen.
CasAllowedAnyRevision(c) == TRUE     \* faulty variant
CasAllowed(c) == ledger.rev = call[c].seen.rev
Write(l) == ledger' = [l EXCEPT !.rev = @ + 1]

RetryOnceTooOften(c, pc) ==      \* faulty variant
  IF call[c].tries + 1 <= MaxTries
    THEN call' = [call EXCEPT ![c].pc = pc, ![c].tries = @ + 1]
    ELSE call' = [call EXCEPT ![c].pc = "done"]

Goto(c, pc) == call' = [call EXCEPT ![c].pc = pc]
Retry(c, pc) ==
  IF call[c].tries + 1 < MaxTries
    THEN call' = [call EXCEPT ![c].pc = pc, ![c].tries = @ + 1]
    ELSE Goto(c, "done")
-----------------------------------------------------------------------------
Init ==
  /\ now = 0
  /\ ledger = [rev |-> 0, month |-> 0, spent |-> 0, held |-> {}]
  /\ call = [c \in Calls |-> [pc |-> "start", at |-> 0, tries |-> 0, seen |-> ledger]]
  /\ sent = {}
  /\ billed = [c \in Calls |-> Never]
  /\ charged = [c \in Calls |-> Never]

NewMonth ==
  /\ now < MaxMonth
  /\ now' = now + 1
  /\ UNCHANGED <<ledger, call, sent, billed, charged>>

\* analyze reads its clock once for the reservation.
Analyze(c) ==
  /\ call[c].pc = "start"
  /\ call' = [call EXCEPT ![c].pc = "reserve", ![c].at = now]
  /\ UNCHANGED <<now, ledger, sent, billed, charged>>

\* A refusal (exhausted, unresolved, a clock that regressed, the id already
\* held after a swap reported as failed) ends the call before it is sent.
ReserveRead(c) ==
  /\ call[c].pc = "reserve"
  /\ IF CanReserve(ledger, c, call[c].at)
       THEN call' = [call EXCEPT ![c].pc = "reserve_cas", ![c].seen = ledger]
       ELSE Goto(c, "done")
  /\ UNCHANGED <<now, ledger, sent, billed, charged>>

ReserveWrite(c) ==
  /\ CasAllowed(c)
  /\ Write(Reserved(call[c].seen, c, call[c].at))

ReserveCas(c) ==
  /\ call[c].pc = "reserve_cas"
  /\ \/ ReserveWrite(c) /\ Goto(c, "invoke")
     \/ ~CasAllowed(c) /\ Retry(c, "reserve") /\ UNCHANGED ledger
  /\ UNCHANGED <<now, sent, billed, charged>>

\* The swap took effect, but the answer is lost, or a retry of the client
\* reports a failed condition.
ReserveCasLost(c) ==
  /\ call[c].pc = "reserve_cas"
  /\ ReserveWrite(c)
  /\ Goto(c, "done") \/ Retry(c, "reserve")
  /\ UNCHANGED <<now, sent, billed, charged>>

\* The request leaves once: the client's retries are disabled.
Invoke(c) ==
  /\ call[c].pc = "invoke"
  /\ Goto(c, "wait")
  /\ sent' = sent \union {c}
  /\ UNCHANGED <<now, ledger, billed, charged>>

ProviderBills(c) ==
  /\ c \in sent /\ billed[c] = Never
  /\ billed' = [billed EXCEPT ![c] = now]
  /\ UNCHANGED <<now, ledger, call, sent, charged>>

\* An answer with valid usage; the clock is read again for the completion.
InvokeAnswered(c) ==
  /\ call[c].pc = "wait" /\ billed[c] # Never
  /\ call' = [call EXCEPT ![c].pc = "finish", ![c].at = now, ![c].tries = 0]
  /\ UNCHANGED <<now, ledger, sent, billed, charged>>

FinishRead(c) ==
  /\ call[c].pc = "finish"
  /\ IF CanAdvance(ledger, call[c].at)
       THEN call' = [call EXCEPT ![c].pc = "finish_cas", ![c].seen = ledger]
       ELSE Goto(c, "done")
  /\ UNCHANGED <<now, ledger, sent, billed, charged>>

FinishWrite(c) ==
  LET l == call[c].seen IN
  /\ CasAllowed(c)
  /\ Write(Finished(l, c, call[c].at))
  /\ charged' = IF c \in l.held THEN [charged EXCEPT ![c] = call[c].at] ELSE charged

FinishCas(c) ==
  /\ call[c].pc = "finish_cas"
  /\ \/ FinishWrite(c) /\ Goto(c, "done")
     \/ ~CasAllowed(c) /\ Retry(c, "finish") /\ UNCHANGED <<ledger, charged>>
  /\ UNCHANGED <<now, sent, billed>>

FinishCasLost(c) ==
  /\ call[c].pc = "finish_cas"
  /\ FinishWrite(c)
  /\ Retry(c, "finish")
  /\ UNCHANGED <<now, sent, billed>>

\* The call ends where it is: an unavailable table, a failed or timed-out or
\* invalid answer of the provider, a cancelled worker, a crash.  A ledger that
\* cannot be read or parsed ends it the same way.
Abandoned(c) ==
  /\ call[c].pc \notin {"start", "done"}
  /\ Goto(c, "done")
  /\ UNCHANGED <<now, ledger, sent, billed, charged>>

Next ==
  \/ NewMonth
  \/ \E c \in Calls :
       \/ Analyze(c) \/ ReserveRead(c) \/ ReserveCas(c) \/ ReserveCasLost(c)
       \/ Invoke(c) \/ ProviderBills(c) \/ InvokeAnswered(c)
       \/ FinishRead(c) \/ FinishCas(c) \/ FinishCasLost(c) \/ Abandoned(c)

Spec == Init /\ [][Next]_vars
-----------------------------------------------------------------------------
TypeOK ==
  /\ now \in Months
  /\ ledger \in Ledger
  /\ call \in [Calls -> [pc : PC, at : Months, tries : 0..(MaxTries - 1), seen : Ledger]]
  /\ sent \subseteq Calls
  /\ billed \in [Calls -> Months \union {Never}]
  /\ charged \in [Calls -> Months \union {Never}]

ChargedIn(m) == {c \in Calls : charged[c] = m}
BilledIn(m) == {c \in Calls : billed[c] = m}

\* The books are right: "spent" is the cost of the calls charged in the ledger's
\* month, no call is charged and held, and the whole is within the operating
\* limit, whatever swap was lost or repeated (Ledger::total, reserve, finish).
BooksBalance ==
  /\ ledger.spent = Cost * Cardinality(ChargedIn(ledger.month))
  /\ \A c \in ledger.held : charged[c] = Never
  /\ Total(ledger) <= Limit

\* What the provider bills in any one month is within the operating limit,
\* although a call may be reserved in one month, sent or billed in the next and
\* completed in a third ("limiting a fresh monthly ledger to 88 such calls").
MonthlyBillWithinLimit ==
  \A m \in Months : Cost * Cardinality(BilledIn(m)) <= Limit

\* "A timeout, cancellation, lost response or invalid usage keeps the hold
\* indefinitely, including in subsequent months": a call that was sent is held
\* until it is charged, once and in no earlier month than its bill; nothing is
\* sent whose hold is not in the ledger, though a swap lost its answer.
SentCallsAreAccountedFor ==
  \A c \in sent : \/ c \in ledger.held
                  \/ billed[c] # Never /\ charged[c] >= billed[c]

\* "there is no refund API": within a month the used allowance never shrinks,
\* and a new month starts with every hold of the last one.
NoRefund ==
  [][/\ ledger'.month >= ledger.month
     /\ ledger'.month = ledger.month => Total(ledger') >= Total(ledger)
     /\ Total(ledger') >= Cost * Cardinality(ledger.held)]_vars
=============================================================================
