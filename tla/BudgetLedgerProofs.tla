-------------------------- MODULE BudgetLedgerProofs --------------------------
(***************************************************************************)
(* The budget holds for any number of calls, any limit and any months.     *)
(* IInv relates the ledger to the calls in flight and to the provider's    *)
(* bills; its two ideas are that a swap that is allowed was computed from  *)
(* the ledger it replaces, and that every call that was sent is held or    *)
(* charged in no earlier month than its bill.                              *)
(***************************************************************************)
EXTENDS BudgetLedger, FiniteSetTheorems, TLAPS

\* Time only moves forward under everything that has read it.
Clocks ==
  /\ ledger.month <= now
  /\ \A c \in Calls : /\ call[c].at <= now
                      /\ billed[c] <= now
                      /\ charged[c] <= ledger.month

\* A copy of the ledger is the ledger while the revision stands.
Copies ==
  \A c \in Calls :
    /\ call[c].seen.rev <= ledger.rev
    /\ call[c].seen.rev = ledger.rev => call[c].seen = ledger
    /\ call[c].pc = "reserve_cas" => CanReserve(call[c].seen, c, call[c].at)
    /\ call[c].pc = "finish_cas" => CanAdvance(call[c].seen, call[c].at)

\* What the progress of a call says of its hold and its bill.
Progress ==
  \A c \in Calls :
    /\ call[c].pc \in {"start", "reserve", "reserve_cas", "invoke"} => c \notin sent
    /\ call[c].pc = "invoke" => c \in ledger.held
    /\ call[c].pc \in {"finish", "finish_cas"} =>
         billed[c] # Never /\ billed[c] <= call[c].at
    /\ billed[c] # Never => c \in sent
    /\ charged[c] # Never => c \in sent

Finite == IsFiniteSet(ledger.held) /\ \A m \in Months : IsFiniteSet(ChargedIn(m))

IInv == /\ TypeOK /\ Finite /\ BooksBalance /\ Clocks /\ Copies /\ Progress
        /\ SentCallsAreAccountedFor

-----------------------------------------------------------------------------
LEMMA CostTimes ==
  ASSUME NEW m \in Nat, NEW n \in Nat
  PROVE  /\ Cost * n \in Nat
         /\ Cost * 0 = 0
         /\ Cost * (n + 1) = Cost * n + Cost
         /\ Cost * (m + n) = Cost * m + Cost * n
         /\ m <= n => Cost * m <= Cost * n
BY AmountAssumption, SMT

LEMMA AdvancedFields ==
  ASSUME NEW l \in Ledger, NEW at \in Months
  PROVE  /\ Advanced(l, at) \in Ledger
         /\ Advanced(l, at).held = l.held /\ Advanced(l, at).rev = l.rev
         /\ Advanced(l, at).month = IF at > l.month THEN at ELSE l.month
         /\ Advanced(l, at).spent = IF at > l.month THEN 0 ELSE l.spent
BY DEF Advanced, Ledger, Months

LEMMA ReservedFields ==
  ASSUME NEW l \in Ledger, NEW at \in Months, NEW c \in Calls
  PROVE  /\ Reserved(l, c, at) \in Ledger
         /\ Reserved(l, c, at).held = l.held \union {c}
         /\ Reserved(l, c, at).rev = l.rev
         /\ Reserved(l, c, at).month = IF at > l.month THEN at ELSE l.month
         /\ Reserved(l, c, at).spent = IF at > l.month THEN 0 ELSE l.spent
BY AdvancedFields DEF Reserved, Ledger

LEMMA FinishedFields ==
  ASSUME NEW l \in Ledger, NEW at \in Months, NEW c \in Calls
  PROVE  /\ Finished(l, c, at) \in Ledger
         /\ Finished(l, c, at).held = l.held \ {c}
         /\ Finished(l, c, at).rev = l.rev
         /\ Finished(l, c, at).month = IF at > l.month THEN at ELSE l.month
         /\ Finished(l, c, at).spent = (IF at > l.month THEN 0 ELSE l.spent)
                                         + (IF c \in l.held THEN Cost ELSE 0)
<1> DEFINE a == Advanced(l, at)
<1>1. /\ a \in Ledger /\ a.held = l.held /\ a.rev = l.rev
      /\ a.month = IF at > l.month THEN at ELSE l.month
      /\ a.spent = IF at > l.month THEN 0 ELSE l.spent
  BY AdvancedFields
<1> HIDE DEF a
<1>2. CASE c \in l.held
  <2>1. Finished(l, c, at) = [a EXCEPT !.held = @ \ {c}, !.spent = @ + Cost]
    BY <1>2 DEF Finished, a
  <2>2. a.spent + Cost \in Nat
    BY <1>1, AmountAssumption DEF Ledger
  <2> QED BY <1>1, <1>2, <2>1, <2>2 DEF Ledger
<1>3. CASE c \notin l.held
  <2>1. Finished(l, c, at) = a
    BY <1>3 DEF Finished, a
  <2>2. l.held = l.held \ {c}
    BY <1>3
  <2>3. a.spent = a.spent + 0
    BY <1>1 DEF Ledger
  <2> QED BY <1>1, <1>3, <2>1, <2>2, <2>3
<1> QED BY <1>2, <1>3

LEMMA WriteFields ==
  ASSUME NEW l \in Ledger, Write(l)
  PROVE  /\ ledger' \in Ledger
         /\ ledger'.held = l.held /\ ledger'.month = l.month
         /\ ledger'.spent = l.spent /\ ledger'.rev = l.rev + 1
BY DEF Write, Ledger
-----------------------------------------------------------------------------
CallType == [pc : PC, at : Months, tries : 0..(MaxTries - 1), seen : Ledger]

\* Only call c moves, from its old copy and clock reading.
Moves(c, pcs) ==
  /\ call' \in [Calls -> CallType]
  /\ call'[c].pc \in pcs /\ call'[c].at = call[c].at /\ call'[c].seen = call[c].seen
  /\ \A d \in Calls \ {c} : call'[d] = call[d]

LEMMA GotoMoves ==
  ASSUME TypeOK, NEW c \in Calls, NEW pc \in PC, Goto(c, pc)
  PROVE  Moves(c, {pc})
BY DEF TypeOK, Goto, Moves, CallType

LEMMA RetryMoves ==
  ASSUME TypeOK, NEW c \in Calls, NEW pc \in PC, Retry(c, pc)
  PROVE  Moves(c, {pc, "done"})
<1>1. CASE call[c].tries + 1 < MaxTries
  <2>1. call' = [call EXCEPT ![c].pc = pc, ![c].tries = @ + 1]
    BY <1>1 DEF Retry
  <2>2. call[c] \in CallType /\ call[c].tries + 1 \in 0..(MaxTries - 1)
    BY <1>1, AmountAssumption DEF TypeOK, CallType
  <2>3. call' = [call EXCEPT ![c] = [call[c] EXCEPT !.pc = pc, !.tries = @ + 1]]
    BY <2>1
  <2>4. [call[c] EXCEPT !.pc = pc, !.tries = @ + 1] \in CallType
    BY <2>2 DEF CallType
  <2> QED BY <2>2, <2>3, <2>4 DEF TypeOK, Moves, CallType
<1>2. CASE ~(call[c].tries + 1 < MaxTries)
  <2>1. Moves(c, {"done"})
    BY <1>2, GotoMoves DEF Retry, PC
  <2> QED BY <2>1 DEF Moves
<1> QED BY <1>1, <1>2

\* A swap that is allowed replaces the ledger it was computed from.
LEMMA ReserveEffect ==
  ASSUME TypeOK, Copies, NEW c \in Calls, call[c].pc = "reserve_cas", ReserveWrite(c)
  PROVE  /\ CanReserve(ledger, c, call[c].at)
         /\ ledger' \in Ledger
         /\ ledger'.held = ledger.held \union {c}
         /\ ledger'.rev = ledger.rev + 1
         /\ ledger'.month = call[c].at
         /\ ledger'.spent = IF call[c].at > ledger.month THEN 0 ELSE ledger.spent
<1>1. call[c].seen = ledger /\ CanReserve(ledger, c, call[c].at)
  BY DEF Copies, ReserveWrite, CasAllowed
<1>2. ledger \in Ledger /\ call[c].at \in Months
  BY DEF TypeOK
<1>3. Write(Reserved(ledger, c, call[c].at))
  BY <1>1 DEF ReserveWrite
<1>4. call[c].at >= ledger.month
  BY <1>1 DEF CanReserve, CanAdvance
<1>5. Reserved(ledger, c, call[c].at) \in Ledger
  BY <1>2, ReservedFields
<1>6. (IF call[c].at > ledger.month THEN call[c].at ELSE ledger.month) = call[c].at
  BY <1>2, <1>4 DEF Ledger, Months
<1> QED BY <1>1, <1>2, <1>3, <1>5, <1>6, ReservedFields, WriteFields

LEMMA FinishEffect ==
  ASSUME TypeOK, Copies, NEW c \in Calls, call[c].pc = "finish_cas", FinishWrite(c)
  PROVE  /\ CanAdvance(ledger, call[c].at)
         /\ ledger' \in Ledger
         /\ ledger'.held = ledger.held \ {c}
         /\ ledger'.rev = ledger.rev + 1
         /\ ledger'.month = call[c].at
         /\ ledger'.spent = (IF call[c].at > ledger.month THEN 0 ELSE ledger.spent)
                              + (IF c \in ledger.held THEN Cost ELSE 0)
         /\ charged' = IF c \in ledger.held THEN [charged EXCEPT ![c] = call[c].at]
                                            ELSE charged
<1>1. call[c].seen = ledger /\ CanAdvance(ledger, call[c].at)
  BY DEF Copies, FinishWrite, CasAllowed
<1>2. ledger \in Ledger /\ call[c].at \in Months
  BY DEF TypeOK
<1>3. /\ Write(Finished(ledger, c, call[c].at))
      /\ charged' = IF c \in ledger.held THEN [charged EXCEPT ![c] = call[c].at]
                                         ELSE charged
  BY <1>1 DEF FinishWrite
<1>4. call[c].at >= ledger.month
  BY <1>1 DEF CanAdvance
<1>5. Finished(ledger, c, call[c].at) \in Ledger
  BY <1>2, FinishedFields
<1>6. (IF call[c].at > ledger.month THEN call[c].at ELSE ledger.month) = call[c].at
  BY <1>2, <1>4 DEF Ledger, Months
<1> QED BY <1>1, <1>2, <1>3, <1>5, <1>6, FinishedFields, WriteFields
-----------------------------------------------------------------------------
(* The steps, by what they do to the ledger. *)

\* Neither the ledger nor the history of charges.
Quiet == UNCHANGED <<ledger, charged>>

\* A reservation takes effect, acknowledged or not.
Reserves(c) ==
  /\ call[c].pc = "reserve_cas" /\ ReserveWrite(c)
  /\ Moves(c, {"invoke", "reserve", "done"})
  /\ UNCHANGED <<now, sent, billed, charged>>

\* A completion takes effect.
Finishes(c) ==
  /\ call[c].pc = "finish_cas" /\ FinishWrite(c)
  /\ Moves(c, {"finish", "done"})
  /\ UNCHANGED <<now, sent, billed>>

LEMMA ReserveSwap ==
  ASSUME TypeOK, NEW c \in Calls, ReserveCas(c) \/ ReserveCasLost(c)
  PROVE  \/ Reserves(c)
         \/ Quiet /\ Moves(c, {"reserve", "done"}) /\ UNCHANGED <<now, sent, billed>>
<1>1. CASE ReserveCas(c) /\ ReserveWrite(c) /\ Goto(c, "invoke")
  <2>1. Moves(c, {"invoke"})
    BY <1>1, GotoMoves DEF PC
  <2> QED BY <1>1, <2>1 DEF Reserves, Moves, ReserveCas
<1>2. CASE ReserveCas(c) /\ Retry(c, "reserve") /\ UNCHANGED ledger
  <2>1. Moves(c, {"reserve", "done"})
    BY <1>2, RetryMoves DEF PC
  <2> QED BY <1>2, <2>1 DEF Quiet, ReserveCas
<1>3. CASE ReserveCasLost(c) /\ Goto(c, "done")
  <2>1. Moves(c, {"done"})
    BY <1>3, GotoMoves DEF PC
  <2> QED BY <1>3, <2>1 DEF Reserves, Moves, ReserveCasLost
<1>4. CASE ReserveCasLost(c) /\ Retry(c, "reserve")
  <2>1. Moves(c, {"reserve", "done"})
    BY <1>4, RetryMoves DEF PC
  <2> QED BY <1>4, <2>1 DEF Reserves, Moves, ReserveCasLost
<1> QED BY <1>1, <1>2, <1>3, <1>4 DEF ReserveCas, ReserveCasLost

LEMMA FinishSwap ==
  ASSUME TypeOK, NEW c \in Calls, FinishCas(c) \/ FinishCasLost(c)
  PROVE  \/ Finishes(c)
         \/ Quiet /\ Moves(c, {"finish", "done"}) /\ UNCHANGED <<now, sent, billed>>
<1>1. CASE FinishCas(c) /\ FinishWrite(c) /\ Goto(c, "done")
  <2>1. Moves(c, {"done"})
    BY <1>1, GotoMoves DEF PC
  <2> QED BY <1>1, <2>1 DEF Finishes, Moves, FinishCas
<1>2. CASE FinishCas(c) /\ Retry(c, "finish") /\ UNCHANGED <<ledger, charged>>
  <2>1. Moves(c, {"finish", "done"})
    BY <1>2, RetryMoves DEF PC
  <2> QED BY <1>2, <2>1 DEF Quiet, FinishCas
<1>3. CASE FinishCasLost(c)
  <2>1. Moves(c, {"finish", "done"})
    BY <1>3, RetryMoves DEF PC, FinishCasLost
  <2> QED BY <1>3, <2>1 DEF Finishes, FinishCasLost
<1> QED BY <1>1, <1>2, <1>3 DEF FinishCas

\* What the other steps of a call do.
Others(c) ==
  \/ Analyze(c) \/ ReserveRead(c) \/ Invoke(c) \/ ProviderBills(c)
  \/ InvokeAnswered(c) \/ FinishRead(c) \/ Abandoned(c)

LEMMA StepCases ==
  ASSUME TypeOK, [Next]_vars
  PROVE  \/ Quiet
         \/ \E c \in Calls : Reserves(c) \/ Finishes(c)
<1>1. CASE UNCHANGED vars
  BY <1>1 DEF vars, Quiet
<1>2. CASE NewMonth
  BY <1>2 DEF NewMonth, Quiet
<1>3. ASSUME NEW c \in Calls, Others(c)  PROVE Quiet
  BY <1>3 DEF Others, Quiet, Analyze, ReserveRead, Invoke, ProviderBills,
              InvokeAnswered, FinishRead, Abandoned
<1>4. ASSUME NEW c \in Calls, ReserveCas(c) \/ ReserveCasLost(c)
      PROVE  Quiet \/ Reserves(c)
  BY <1>4, ReserveSwap
<1>5. ASSUME NEW c \in Calls, FinishCas(c) \/ FinishCasLost(c)
      PROVE  Quiet \/ Finishes(c)
  BY <1>5, FinishSwap
<1> QED BY <1>1, <1>2, <1>3, <1>4, <1>5 DEF Next, Others
-----------------------------------------------------------------------------
LEMMA TypeStep ==
  ASSUME TypeOK, Copies, [Next]_vars
  PROVE  TypeOK'
<1>1. CASE UNCHANGED vars
  BY <1>1 DEF vars, TypeOK
<1>2. CASE NewMonth
  BY <1>2, AmountAssumption DEF NewMonth, TypeOK, Months
<1> SUFFICES ASSUME NEW c \in Calls,
                    \/ Others(c) \/ ReserveCas(c) \/ ReserveCasLost(c)
                    \/ FinishCas(c) \/ FinishCasLost(c)
             PROVE  TypeOK'
  BY <1>1, <1>2 DEF Next, Others
<1>3. ASSUME NEW pcs, Moves(c, pcs), ledger' \in Ledger, UNCHANGED <<now, sent, billed>>,
             charged' \in [Calls -> Months \union {Never}]
      PROVE  TypeOK'
  BY <1>3 DEF TypeOK, Moves, CallType
<1>4. CASE Reserves(c)
  BY <1>3, <1>4, ReserveEffect DEF Reserves, TypeOK
<1>5. CASE Finishes(c)
  <2>1. charged' \in [Calls -> Months \union {Never}]
    BY <1>5, FinishEffect DEF Finishes, TypeOK
  <2> QED BY <1>3, <1>5, <2>1, FinishEffect DEF Finishes
<1>6. CASE Quiet /\ UNCHANGED <<now, sent, billed>> /\ \E pcs \in {{"reserve", "done"}, {"finish", "done"}} : Moves(c, pcs)
  BY <1>3, <1>6 DEF Quiet, TypeOK
<1>7. CASE Others(c)
  <2>1. CASE Analyze(c)
    BY <2>1 DEF Analyze, TypeOK, PC
  <2>2. CASE ReserveRead(c)
    BY <2>2 DEF ReserveRead, Goto, TypeOK, PC
  <2>3. CASE Invoke(c)
    BY <2>3 DEF Invoke, Goto, TypeOK, PC
  <2>4. CASE ProviderBills(c)
    BY <2>4 DEF ProviderBills, TypeOK
  <2>5. CASE InvokeAnswered(c)
    <3>1. call[c] \in CallType /\ now \in Months /\ 0 \in 0..(MaxTries - 1)
      BY AmountAssumption DEF TypeOK, CallType
    <3>2. [call[c] EXCEPT !.pc = "finish", !.at = now, !.tries = 0] \in CallType
      BY <3>1 DEF CallType, PC
    <3>3. call' = [call EXCEPT ![c] =
                     [call[c] EXCEPT !.pc = "finish", !.at = now, !.tries = 0]]
      BY <2>5 DEF InvokeAnswered
    <3>4. call' \in [Calls -> CallType]
      BY <3>2, <3>3 DEF TypeOK, CallType
    <3> QED BY <2>5, <3>4 DEF InvokeAnswered, TypeOK, CallType
  <2>6. CASE FinishRead(c)
    BY <2>6 DEF FinishRead, Goto, TypeOK, PC
  <2>7. CASE Abandoned(c)
    BY <2>7 DEF Abandoned, Goto, TypeOK, PC
  <2> QED BY <1>7, <2>1, <2>2, <2>3, <2>4, <2>5, <2>6, <2>7 DEF Others
<1> QED BY <1>4, <1>5, <1>6, <1>7, ReserveSwap, FinishSwap
-----------------------------------------------------------------------------
(* The books. *)

\* Everything a call could read of time is past.
LEMMA ClocksStep ==
  ASSUME TypeOK, Clocks, Copies, [Next]_vars
  PROVE  Clocks'
<1>1. CASE UNCHANGED vars
  BY <1>1 DEF vars, Clocks
<1>2. CASE NewMonth
  BY <1>2 DEF NewMonth, Clocks, TypeOK, Months, Ledger, Never
<1> SUFFICES ASSUME NEW c \in Calls,
                    \/ Others(c) \/ ReserveCas(c) \/ ReserveCasLost(c)
                    \/ FinishCas(c) \/ FinishCasLost(c)
             PROVE  Clocks'
  BY <1>1, <1>2 DEF Next, Others
<1>3. CASE Reserves(c)
  <2>1. ledger'.month = call[c].at /\ call[c].at >= ledger.month
    BY <1>3, ReserveEffect DEF Reserves, CanReserve, CanAdvance
  <2> QED BY <1>3, <2>1 DEF Reserves, Clocks, Moves, TypeOK, Months, Ledger, Never
<1>4. CASE Finishes(c)
  <2>1. /\ ledger'.month = call[c].at /\ call[c].at >= ledger.month
        /\ charged' = IF c \in ledger.held THEN [charged EXCEPT ![c] = call[c].at]
                                           ELSE charged
    BY <1>4, FinishEffect DEF Finishes, CanAdvance
  <2> QED BY <1>4, <2>1 DEF Finishes, Clocks, Moves, TypeOK, Months, Ledger, Never
<1>5. ASSUME Quiet, UNCHANGED <<now, sent, billed>>, NEW pcs, Moves(c, pcs)
      PROVE  Clocks'
  BY <1>5 DEF Quiet, Clocks, Moves
<1>6. CASE Others(c)
  <2>1. CASE Analyze(c)
    BY <2>1 DEF Analyze, Clocks, TypeOK, Months
  <2>2. CASE ReserveRead(c)
    BY <2>2 DEF ReserveRead, Goto, Clocks, TypeOK
  <2>3. CASE Invoke(c)
    BY <2>3 DEF Invoke, Goto, Clocks, TypeOK
  <2>4. CASE ProviderBills(c)
    BY <2>4 DEF ProviderBills, Clocks, TypeOK, Months
  <2>5. CASE InvokeAnswered(c)
    BY <2>5 DEF InvokeAnswered, Clocks, TypeOK, Months
  <2>6. CASE FinishRead(c)
    BY <2>6 DEF FinishRead, Goto, Clocks, TypeOK
  <2>7. CASE Abandoned(c)
    BY <2>7 DEF Abandoned, Goto, Clocks, TypeOK
  <2> QED BY <1>6, <2>1, <2>2, <2>3, <2>4, <2>5, <2>6, <2>7 DEF Others
<1> QED BY <1>3, <1>4, <1>5, <1>6, ReserveSwap, FinishSwap

LEMMA CopiesStep ==
  ASSUME TypeOK, Copies, [Next]_vars
  PROVE  Copies'
<1>1. CASE UNCHANGED vars
  BY <1>1 DEF vars, Copies
<1>2. CASE NewMonth
  BY <1>2 DEF NewMonth, Copies
<1> SUFFICES ASSUME NEW c \in Calls,
                    \/ Others(c) \/ ReserveCas(c) \/ ReserveCasLost(c)
                    \/ FinishCas(c) \/ FinishCasLost(c)
             PROVE  Copies'
  BY <1>1, <1>2 DEF Next, Others
<1>3. ASSUME ledger'.rev = ledger.rev + 1,
             Moves(c, {"invoke", "reserve", "finish", "done"})
      PROVE  Copies'
  <2> SUFFICES ASSUME NEW d \in Calls
               PROVE  /\ call'[d].seen.rev <= ledger'.rev
                      /\ call'[d].seen.rev # ledger'.rev
                      /\ call'[d].pc = "reserve_cas" =>
                           CanReserve(call'[d].seen, d, call'[d].at)
                      /\ call'[d].pc = "finish_cas" =>
                           CanAdvance(call'[d].seen, call'[d].at)
    BY DEF Copies
  <2>1. call'[d].seen = call[d].seen
    BY <1>3 DEF Moves
  <2>2. call[d].seen.rev \in Nat /\ ledger.rev \in Nat
    BY DEF TypeOK, Ledger
  <2>3. call'[d].seen.rev <= ledger'.rev /\ call'[d].seen.rev # ledger'.rev
    BY <1>3, <2>1, <2>2 DEF Copies
  <2>4. CASE d = c
    BY <1>3, <2>3, <2>4 DEF Moves
  <2>5. CASE d # c
    BY <1>3, <2>3, <2>5 DEF Moves, Copies
  <2> QED BY <2>4, <2>5
<1>4. CASE Reserves(c)
  BY <1>3, <1>4, ReserveEffect DEF Reserves, Moves
<1>5. CASE Finishes(c)
  BY <1>3, <1>5, FinishEffect DEF Finishes, Moves
<1>6. ASSUME Quiet, NEW pcs, Moves(c, pcs), "reserve_cas" \notin pcs, "finish_cas" \notin pcs
      PROVE  Copies'
  BY <1>6 DEF Quiet, Copies, Moves
<1>7. CASE Others(c)
  <2>1. CASE Analyze(c)
    BY <2>1 DEF Analyze, Copies, TypeOK
  <2>2. CASE ReserveRead(c)
    <3>1. CASE CanReserve(ledger, c, call[c].at)
      <4>1. call' = [call EXCEPT ![c].pc = "reserve_cas", ![c].seen = ledger]
        BY <2>2, <3>1 DEF ReserveRead
      <4>2. /\ call'[c].pc = "reserve_cas" /\ call'[c].seen = ledger
            /\ call'[c].at = call[c].at
            /\ \A d \in Calls \ {c} : call'[d] = call[d]
        BY <4>1 DEF TypeOK
      <4> QED BY <2>2, <3>1, <4>2 DEF ReserveRead, Copies, TypeOK, Ledger
    <3>2. CASE ~CanReserve(ledger, c, call[c].at)
      BY <2>2, <3>2 DEF ReserveRead, Goto, Copies, TypeOK
    <3> QED BY <3>1, <3>2
  <2>3. CASE Invoke(c)
    BY <2>3 DEF Invoke, Goto, Copies, TypeOK
  <2>4. CASE ProviderBills(c)
    BY <2>4 DEF ProviderBills, Copies
  <2>5. CASE InvokeAnswered(c)
    BY <2>5 DEF InvokeAnswered, Copies, TypeOK
  <2>6. CASE FinishRead(c)
    <3>1. CASE CanAdvance(ledger, call[c].at)
      <4>1. call' = [call EXCEPT ![c].pc = "finish_cas", ![c].seen = ledger]
        BY <2>6, <3>1 DEF FinishRead
      <4>2. /\ call'[c].pc = "finish_cas" /\ call'[c].seen = ledger
            /\ call'[c].at = call[c].at
            /\ \A d \in Calls \ {c} : call'[d] = call[d]
        BY <4>1 DEF TypeOK
      <4> QED BY <2>6, <3>1, <4>2 DEF FinishRead, Copies, TypeOK, Ledger
    <3>2. CASE ~CanAdvance(ledger, call[c].at)
      BY <2>6, <3>2 DEF FinishRead, Goto, Copies, TypeOK
    <3> QED BY <3>1, <3>2
  <2>7. CASE Abandoned(c)
    BY <2>7 DEF Abandoned, Goto, Copies, TypeOK
  <2> QED BY <1>7, <2>1, <2>2, <2>3, <2>4, <2>5, <2>6, <2>7 DEF Others
<1> QED BY <1>4, <1>5, <1>6, <1>7, ReserveSwap, FinishSwap

\* In a month the ledger has not reached nothing is charged.
LEMMA NothingChargedAhead ==
  ASSUME TypeOK, Clocks, NEW m \in Months, m > ledger.month
  PROVE  ChargedIn(m) = {}
BY DEF TypeOK, Clocks, ChargedIn, Ledger, Months, Never

\* The cost of a reservation is checked, then held.
LEMMA ReserveTotal ==
  ASSUME TypeOK, Finite, Copies, Clocks, BooksBalance, NEW c \in Calls, Reserves(c)
  PROVE  /\ ledger'.spent = Cost * Cardinality(ChargedIn(ledger'.month))
         /\ IsFiniteSet(ledger'.held)
         /\ Total(ledger') = ledger'.spent + Cost * Cardinality(ledger.held) + Cost
         /\ Total(ledger') <= Limit
<1> DEFINE at == call[c].at
           n == Cardinality(ledger.held)
<1>1. /\ CanReserve(ledger, c, at) /\ ledger' \in Ledger
      /\ ledger'.held = ledger.held \union {c} /\ ledger'.month = at
      /\ ledger'.spent = IF at > ledger.month THEN 0 ELSE ledger.spent
  BY ReserveEffect DEF Reserves
<1>2. ledger \in Ledger /\ at \in Months
  BY DEF TypeOK
<1>3. IsFiniteSet(ledger'.held) /\ Cardinality(ledger'.held) = n + 1 /\ n \in Nat
  BY <1>1, FS_AddElement, FS_CardinalityType DEF Finite, CanReserve
<1>4. Cost * (n + 1) = Cost * n + Cost /\ Cost * n \in Nat /\ Cost * 0 = 0
  BY <1>3, CostTimes
<1>5. Total(ledger') = ledger'.spent + Cost * n + Cost
  BY <1>1, <1>3, <1>4, AmountAssumption DEF Total, Ledger
<1>6. Total(Advanced(ledger, at)) = ledger'.spent + Cost * n
  BY <1>1, <1>2, AdvancedFields DEF Total
<1>7. Total(ledger') <= Limit
  BY <1>1, <1>5, <1>6 DEF CanReserve
<1>8. CASE at > ledger.month
  <2>1. ChargedIn(at) = {}
    BY <1>2, <1>8, NothingChargedAhead
  <2>2. ledger'.spent = Cost * Cardinality(ChargedIn(ledger'.month))
    BY <1>1, <1>4, <1>8, <2>1, FS_EmptySet
  <2> QED BY <1>3, <1>5, <1>7, <2>2
<1>9. CASE ~(at > ledger.month)
  <2>1. at = ledger.month
    BY <1>1, <1>2, <1>9 DEF CanReserve, CanAdvance, Ledger, Months
  <2>2. ledger'.spent = Cost * Cardinality(ChargedIn(ledger'.month))
    BY <1>1, <1>9, <2>1 DEF BooksBalance
  <2> QED BY <1>3, <1>5, <1>7, <2>2
<1> QED BY <1>8, <1>9

LEMMA ReserveBooks ==
  ASSUME IInv, NEW c \in Calls, Reserves(c)
  PROVE  Finite' /\ BooksBalance'
<1> USE DEF IInv
<1>1. charged' = charged
  BY DEF Reserves
<1>2. \A m : ChargedIn(m)' = ChargedIn(m)
  BY <1>1 DEF ChargedIn
<1>3. charged[c] = Never
  BY DEF Reserves, Progress
<1>4. ledger'.held = ledger.held \union {c}
  BY ReserveEffect DEF Reserves
<1>5. \A d \in ledger'.held : charged'[d] = Never
  BY <1>1, <1>3, <1>4 DEF BooksBalance
<1>6. ledger'.spent = Cost * Cardinality({d \in Calls : charged'[d] = ledger'.month})
  BY <1>1, ReserveTotal DEF ChargedIn
<1> QED BY <1>2, <1>5, <1>6, ReserveTotal DEF Finite, BooksBalance, ChargedIn, Total

\* A completion moves one hold into the spending of its month.
LEMMA FinishTotal ==
  ASSUME IInv, NEW c \in Calls, Finishes(c)
  PROVE  /\ Finite' /\ BooksBalance'
         /\ Total(ledger') = (IF ledger'.month > ledger.month THEN 0 ELSE ledger.spent)
                               + Cost * Cardinality(ledger.held)
<1> USE DEF IInv
<1> DEFINE at == call[c].at
           n == Cardinality(ledger.held)
           base == IF at > ledger.month THEN 0 ELSE ledger.spent
<1>1. /\ CanAdvance(ledger, at) /\ ledger' \in Ledger
      /\ ledger'.held = ledger.held \ {c} /\ ledger'.month = at
      /\ ledger'.spent = base + (IF c \in ledger.held THEN Cost ELSE 0)
      /\ charged' = IF c \in ledger.held THEN [charged EXCEPT ![c] = at] ELSE charged
  BY FinishEffect DEF Finishes
<1>2. /\ ledger \in Ledger /\ at \in Months /\ base \in Nat
      /\ charged \in [Calls -> Months \union {Never}]
  BY DEF TypeOK, Ledger
<1>3. /\ IsFiniteSet(ledger.held) /\ n \in Nat /\ IsFiniteSet(ledger'.held)
      /\ Cardinality(ledger'.held) = IF c \in ledger.held THEN n - 1 ELSE n
  BY <1>1, FS_RemoveElement, FS_CardinalityType DEF Finite
<1>4. base = Cost * Cardinality(ChargedIn(at)) /\ IsFiniteSet(ChargedIn(at))
  <2>1. CASE at > ledger.month
    BY <1>2, <2>1, NothingChargedAhead, FS_EmptySet, CostTimes
  <2>2. CASE ~(at > ledger.month)
    <3>1. at = ledger.month
      BY <1>1, <1>2, <2>2 DEF CanAdvance, Ledger, Months
    <3> QED BY <1>2, <2>2, <3>1 DEF BooksBalance, Finite
  <2> QED BY <2>1, <2>2
<1>5. base + Cost * n <= Limit /\ Cost * n \in Nat
  <2>1. Cost * n \in Nat
    BY <1>3, CostTimes
  <2>2. base <= ledger.spent /\ ledger.spent \in Nat
    BY <1>2 DEF Ledger
  <2>3. ledger.spent + Cost * n <= Limit
    BY DEF BooksBalance, Total
  <2> QED BY <1>2, <2>1, <2>2, <2>3, AmountAssumption
<1>6. CASE c \in ledger.held
  <2>1. charged[c] = Never
    BY <1>6 DEF BooksBalance
  <2>2. \A m \in Months : {d \in Calls : charged'[d] = m}
                            = IF m = at THEN ChargedIn(m) \union {c} ELSE ChargedIn(m)
    BY <1>1, <1>2, <1>6, <2>1 DEF ChargedIn, Months, Never
  <2>3. c \notin ChargedIn(at)
    BY <1>2, <2>1 DEF ChargedIn, Months, Never
  <2> DEFINE k == Cardinality(ChargedIn(at))
  <2>4. k \in Nat /\ Cardinality(ChargedIn(at) \union {c}) = k + 1
    BY <1>4, <2>3, FS_AddElement, FS_CardinalityType
  <2>5. Cost * (k + 1) = Cost * k + Cost
    BY <2>4, CostTimes
  <2>6. ledger'.spent = Cost * Cardinality({d \in Calls : charged'[d] = ledger'.month})
    BY <1>1, <1>2, <1>4, <1>6, <2>2, <2>4, <2>5
  <2>7. n \in Nat /\ n - 1 \in Nat
    BY <1>3, <1>6, FS_EmptySet
  <2>8. Cost * ((n - 1) + 1) = Cost * (n - 1) + Cost /\ Cost * (n - 1) \in Nat
    BY <2>7, CostTimes
  <2>9. Total(ledger') = base + Cost * n
    <3>1. Total(ledger') = base + Cost + Cost * (n - 1)
      BY <1>1, <1>3, <1>6 DEF Total
    <3>2. (n - 1) + 1 = n
      BY <2>7
    <3>3. Cost * n = Cost * (n - 1) + Cost
      BY <2>8, <3>2
    <3> QED BY <1>2, <2>8, <3>1, <3>3, AmountAssumption
  <2>10. \A d \in ledger'.held : charged'[d] = Never
    BY <1>1, <1>2, <1>6 DEF BooksBalance, Ledger
  <2>11. \A m \in Months : IsFiniteSet({d \in Calls : charged'[d] = m})
    <3> SUFFICES ASSUME NEW m \in Months
                 PROVE  IsFiniteSet({d \in Calls : charged'[d] = m})
      OBVIOUS
    <3>1. IsFiniteSet(ChargedIn(m))
      BY DEF Finite
    <3>2. IsFiniteSet(ChargedIn(m) \union {c})
      BY <3>1, FS_AddElement
    <3> QED BY <2>2, <3>1, <3>2
  <2> QED
    BY <1>1, <1>3, <1>5, <2>6, <2>9, <2>10, <2>11 DEF Finite, BooksBalance, ChargedIn, Total
<1>7. CASE c \notin ledger.held
  <2>1. charged' = charged /\ ledger'.held = ledger.held /\ ledger'.spent = base
    BY <1>1, <1>2, <1>7
  <2>2. ledger'.spent = Cost * Cardinality({d \in Calls : charged'[d] = ledger'.month})
    BY <1>1, <1>4, <2>1 DEF ChargedIn
  <2>3. Total(ledger') = base + Cost * n
    BY <2>1 DEF Total
  <2> QED
    BY <1>1, <1>5, <2>1, <2>2, <2>3 DEF Finite, BooksBalance, ChargedIn, Total
<1> QED BY <1>6, <1>7

LEMMA BooksStep ==
  ASSUME IInv, [Next]_vars
  PROVE  Finite' /\ BooksBalance'
<1>1. CASE Quiet
  BY <1>1 DEF IInv, Quiet, Finite, BooksBalance, ChargedIn, Total
<1> QED BY <1>1, StepCases, ReserveBooks, FinishTotal DEF IInv
-----------------------------------------------------------------------------
(* The calls. *)

LEMMA ProgressStep ==
  ASSUME IInv, [Next]_vars
  PROVE  Progress'
<1> USE DEF IInv
<1>1. CASE UNCHANGED vars
  BY <1>1 DEF vars, Progress
<1>2. CASE NewMonth
  BY <1>2 DEF NewMonth, Progress
<1> SUFFICES ASSUME NEW c \in Calls,
                    \/ Others(c) \/ ReserveCas(c) \/ ReserveCasLost(c)
                    \/ FinishCas(c) \/ FinishCasLost(c)
             PROVE  Progress'
  BY <1>1, <1>2 DEF Next, Others
<1>3. CASE Reserves(c)
  BY <1>3, ReserveEffect DEF Reserves, Moves, Progress
<1>4. CASE Finishes(c)
  <2>1. /\ ledger'.held = ledger.held \ {c}
        /\ charged' = IF c \in ledger.held THEN [charged EXCEPT ![c] = call[c].at]
                                           ELSE charged
    BY <1>4, FinishEffect DEF Finishes
  <2>2. c \in sent
    BY <1>4 DEF Finishes, Progress
  <2>3. \A d \in Calls : charged'[d] # Never => d \in sent
    BY <2>1, <2>2 DEF Progress, TypeOK
  <2>4. \A d \in Calls : call'[d].pc = "invoke" => d \in ledger'.held
    BY <1>4, <2>1 DEF Finishes, Moves, Progress
  <2> QED BY <1>4, <2>3, <2>4 DEF Finishes, Moves, Progress
<1>5. CASE Quiet /\ Moves(c, {"reserve", "done"}) /\ UNCHANGED <<now, sent, billed>>
           /\ call[c].pc = "reserve_cas"
  BY <1>5 DEF Quiet, Moves, Progress
<1>6. CASE Quiet /\ Moves(c, {"finish", "done"}) /\ UNCHANGED <<now, sent, billed>>
           /\ call[c].pc = "finish_cas"
  BY <1>6 DEF Quiet, Moves, Progress
<1>7. CASE Others(c)
  <2>1. CASE Analyze(c)
    BY <2>1 DEF Analyze, Progress, TypeOK
  <2>2. CASE ReserveRead(c)
    BY <2>2 DEF ReserveRead, Goto, Progress, TypeOK
  <2>3. CASE Invoke(c)
    BY <2>3 DEF Invoke, Goto, Progress, TypeOK
  <2>4. CASE ProviderBills(c)
    BY <2>4 DEF ProviderBills, Progress, TypeOK
  <2>5. CASE InvokeAnswered(c)
    BY <2>5 DEF InvokeAnswered, Progress, Clocks, TypeOK
  <2>6. CASE FinishRead(c)
    BY <2>6 DEF FinishRead, Goto, Progress, TypeOK
  <2>7. CASE Abandoned(c)
    BY <2>7 DEF Abandoned, Goto, Progress, TypeOK
  <2> QED BY <1>7, <2>1, <2>2, <2>3, <2>4, <2>5, <2>6, <2>7 DEF Others
<1>8. ReserveCas(c) \/ ReserveCasLost(c) => call[c].pc = "reserve_cas"
  BY DEF ReserveCas, ReserveCasLost
<1>9. FinishCas(c) \/ FinishCasLost(c) => call[c].pc = "finish_cas"
  BY DEF FinishCas, FinishCasLost
<1> QED BY <1>3, <1>4, <1>5, <1>6, <1>7, <1>8, <1>9, ReserveSwap, FinishSwap

\* A hold ends only as a charge of its own call, after its bill.
LEMMA AccountedStep ==
  ASSUME IInv, [Next]_vars
  PROVE  SentCallsAreAccountedFor'
<1> USE DEF IInv
<1>1. CASE \E c \in Calls : Reserves(c)
  <2> PICK c \in Calls : Reserves(c)
    BY <1>1
  <2> QED BY ReserveEffect DEF Reserves, SentCallsAreAccountedFor
<1>2. CASE \E c \in Calls : Finishes(c)
  <2> PICK c \in Calls : Finishes(c)
    BY <1>2
  <2>1. /\ ledger'.held = ledger.held \ {c}
        /\ charged' = IF c \in ledger.held THEN [charged EXCEPT ![c] = call[c].at]
                                           ELSE charged
    BY FinishEffect DEF Finishes
  <2>2. billed[c] # Never /\ call[c].at >= billed[c]
    BY DEF Finishes, Progress, TypeOK, Months, Never
  <2> SUFFICES ASSUME NEW d \in sent
               PROVE  \/ d \in ledger'.held
                      \/ billed[d] # Never /\ charged'[d] >= billed[d]
    BY DEF SentCallsAreAccountedFor, Finishes
  <2>3. CASE d = c /\ c \in ledger.held
    BY <2>1, <2>2, <2>3 DEF TypeOK
  <2>4. CASE d = c /\ c \notin ledger.held
    BY <2>1, <2>4 DEF SentCallsAreAccountedFor
  <2>5. CASE d # c
    BY <2>1, <2>5 DEF SentCallsAreAccountedFor, TypeOK
  <2> QED BY <2>3, <2>4, <2>5
<1>3. CASE Quiet
  <2>1. \A d \in sent' \ sent : d \in ledger.held
    BY <1>3 DEF Quiet, Next, vars, NewMonth, Analyze, ReserveRead, ReserveCas,
      ReserveCasLost, Invoke, ProviderBills, InvokeAnswered, FinishRead, FinishCas,
      FinishCasLost, Abandoned, Progress
  <2>2. \A d \in sent : billed'[d] = billed[d] \/ billed[d] = Never
    BY <1>3 DEF Quiet, Next, vars, NewMonth, Analyze, ReserveRead, ReserveCas,
      ReserveCasLost, Invoke, ProviderBills, InvokeAnswered, FinishRead, FinishCas,
      FinishCasLost, Abandoned, TypeOK
  <2> QED BY <1>3, <2>1, <2>2 DEF Quiet, SentCallsAreAccountedFor, TypeOK
<1> QED BY <1>1, <1>2, <1>3, StepCases
-----------------------------------------------------------------------------
LEMMA InvInit == Init => IInv
<1> SUFFICES ASSUME Init PROVE IInv
  OBVIOUS
<1> USE DEF Init
<1>1. ledger \in Ledger /\ 0 \in Months /\ 0 \in 0..(MaxTries - 1)
  BY AmountAssumption DEF Ledger, Months
<1>2. TypeOK
  BY <1>1 DEF TypeOK, PC
<1>3. \A m \in Months : ChargedIn(m) = {}
  BY DEF ChargedIn, Months, Never
<1>4. Finite
  BY <1>3, FS_EmptySet DEF Finite
<1>5. BooksBalance
  <2>1. Cardinality({}) = 0 /\ Cost * 0 = 0
    BY FS_EmptySet, CostTimes
  <2>2. ledger.month = 0 /\ ledger.spent = 0 /\ ledger.held = {}
    OBVIOUS
  <2>3. ChargedIn(ledger.month) = {}
    BY <1>1, <1>3, <2>2
  <2> HIDE DEF Init
  <2> QED BY <2>1, <2>2, <2>3, AmountAssumption DEF BooksBalance, Total
<1>6. Clocks
  BY <1>1 DEF Clocks, Never
<1>7. Copies
  <2>1. \A c \in Calls : call[c].seen = ledger /\ call[c].pc = "start"
    OBVIOUS
  <2>2. ledger.rev <= ledger.rev
    BY <1>1 DEF Ledger
  <2> QED BY <2>1, <2>2 DEF Copies
<1> QED BY <1>2, <1>4, <1>5, <1>6, <1>7 DEF IInv, Progress, SentCallsAreAccountedFor

LEMMA InvStep == IInv /\ [Next]_vars => IInv'
BY TypeStep, ClocksStep, CopiesStep, BooksStep, ProgressStep, AccountedStep DEF IInv

LEMMA InvCorrect == Spec => []IInv
BY InvInit, InvStep, PTL DEF Spec

\* Every variable keeps its type, through any interleaving of the calls.
THEOREM TypeCorrect == Spec => []TypeOK
<1>1. IInv => TypeOK
  BY DEF IInv
<1> QED BY <1>1, InvCorrect, PTL

\* The books balance whatever swap is lost or repeated: "spent" is what was
\* charged in the ledger's month, and with the holds it is within the limit.
THEOREM BooksCorrect == Spec => []BooksBalance
<1>1. IInv => BooksBalance
  BY DEF IInv
<1> QED BY <1>1, InvCorrect, PTL

\* A call that was sent stays held until it is charged, in no earlier month
\* than the provider's bill.
THEOREM SentAreAccountedFor == Spec => []SentCallsAreAccountedFor
<1>1. IInv => SentCallsAreAccountedFor
  BY DEF IInv
<1> QED BY <1>1, InvCorrect, PTL
-----------------------------------------------------------------------------
\* A call billed in the current month is held, or charged in the ledger's month.
LEMMA BilledNowIsBooked ==
  ASSUME IInv, NEW d \in Calls, billed[d] = now
  PROVE  d \in ledger.held \union ChargedIn(ledger.month)
<1>1. d \in sent
  BY DEF IInv, Progress, TypeOK, Months, Never
<1>2. charged[d] <= ledger.month /\ ledger.month <= now
  BY DEF IInv, Clocks
<1>3. charged[d] >= now => charged[d] = ledger.month
  <2>1. charged[d] \in Int
    BY DEF IInv, TypeOK, Months, Never
  <2>2. ledger.month \in Int /\ now \in Int
    BY DEF IInv, TypeOK, Ledger, Months
  <2> QED BY <1>2, <2>1, <2>2
<1>4. d \in ledger.held \/ charged[d] >= billed[d]
  BY <1>1 DEF IInv, SentCallsAreAccountedFor
<1>5. charged[d] = ledger.month => d \in ChargedIn(ledger.month)
  BY DEF ChargedIn
<1> QED BY <1>3, <1>4, <1>5

LEMMA BookedIsWithinLimit ==
  ASSUME IInv
  PROVE  LET booked == ledger.held \union ChargedIn(ledger.month)
         IN  IsFiniteSet(booked) /\ Cost * Cardinality(booked) <= Limit
<1> DEFINE h == ledger.held  s == ChargedIn(ledger.month)
<1>1. IsFiniteSet(h) /\ IsFiniteSet(s) /\ h \cap s = {}
  BY DEF IInv, Finite, TypeOK, Ledger, BooksBalance, ChargedIn, Months, Never
<1>2. Cardinality(h) \in Nat /\ Cardinality(s) \in Nat
  BY <1>1, FS_CardinalityType
<1>3. IsFiniteSet(h \union s) /\ Cardinality(h \union s) = Cardinality(h) + Cardinality(s)
  BY <1>1, <1>2, FS_Union, FS_EmptySet
<1>4. Cost * (Cardinality(h) + Cardinality(s)) = Cost * Cardinality(h) + Cost * Cardinality(s)
  BY <1>2, CostTimes
<1>5. /\ Cost * Cardinality(h) \in Nat /\ Cost * Cardinality(s) \in Nat
      /\ Cost * Cardinality(s) + Cost * Cardinality(h) <= Limit
  BY <1>2, CostTimes DEF IInv, BooksBalance, Total
<1> QED BY <1>3, <1>4, <1>5

LEMMA BillStep ==
  ASSUME IInv, MonthlyBillWithinLimit, [Next]_vars
  PROVE  MonthlyBillWithinLimit'
<1>1. CASE UNCHANGED billed
  BY <1>1 DEF MonthlyBillWithinLimit, BilledIn
<1>2. CASE \E c \in Calls : ProviderBills(c)
  <2> PICK c \in Calls : ProviderBills(c)
    BY <1>2
  <2>1. c \in ledger.held
    BY DEF ProviderBills, IInv, SentCallsAreAccountedFor
  <2>2. billed' = [billed EXCEPT ![c] = now] /\ billed[c] = Never
    BY DEF ProviderBills
  <2> SUFFICES ASSUME NEW m \in Months
               PROVE  Cost * Cardinality({d \in Calls : billed'[d] = m}) <= Limit
    BY DEF MonthlyBillWithinLimit, BilledIn
  <2>3. CASE m # now
    <3>1. {d \in Calls : billed'[d] = m} = BilledIn(m)
      BY <2>2, <2>3 DEF BilledIn, IInv, TypeOK, Months, Never
    <3> QED BY <3>1 DEF MonthlyBillWithinLimit
  <2>4. CASE m = now
    <3> DEFINE booked == ledger.held \union ChargedIn(ledger.month)
               bill == {d \in Calls : billed'[d] = m}
    <3>1. bill \subseteq booked
      BY <2>1, <2>2, <2>4, BilledNowIsBooked DEF IInv, TypeOK
    <3>2. IsFiniteSet(booked) /\ Cost * Cardinality(booked) <= Limit
      BY BookedIsWithinLimit
    <3>3. IsFiniteSet(bill) /\ Cardinality(bill) <= Cardinality(booked)
      BY <3>1, <3>2, FS_Subset
    <3>4. Cardinality(bill) \in Nat /\ Cardinality(booked) \in Nat
      BY <3>2, <3>3, FS_CardinalityType
    <3>5. /\ Cost * Cardinality(bill) <= Cost * Cardinality(booked)
          /\ Cost * Cardinality(bill) \in Nat /\ Cost * Cardinality(booked) \in Nat
      BY <3>3, <3>4, CostTimes
    <3> QED BY <3>2, <3>5, AmountAssumption
  <2> QED BY <2>3, <2>4
<1> QED
  BY <1>1, <1>2 DEF Next, vars, NewMonth, Analyze, ReserveRead, ReserveCas,
    ReserveCasLost, Invoke, InvokeAnswered, FinishRead, FinishCas, FinishCasLost,
    Abandoned

\* What the provider bills in a month never exceeds the operating limit, for
\* any number of calls, months and lost answers.
THEOREM MonthlyBillCorrect == Spec => []MonthlyBillWithinLimit
<1>1. Init => MonthlyBillWithinLimit
  <2> SUFFICES ASSUME Init, NEW m \in Months
               PROVE  Cost * Cardinality(BilledIn(m)) <= Limit
    BY DEF MonthlyBillWithinLimit
  <2>1. BilledIn(m) = {}
    BY DEF Init, BilledIn, Months, Never
  <2> QED BY <2>1, FS_EmptySet, CostTimes, AmountAssumption
<1>2. IInv /\ MonthlyBillWithinLimit /\ [Next]_vars => MonthlyBillWithinLimit'
  BY BillStep
<1> QED BY <1>1, <1>2, InvCorrect, PTL DEF Spec
-----------------------------------------------------------------------------
LEMMA NoRefundStep ==
  ASSUME IInv, [Next]_vars
  PROVE  /\ ledger'.month >= ledger.month
         /\ ledger'.month = ledger.month => Total(ledger') >= Total(ledger)
         /\ Total(ledger') >= Cost * Cardinality(ledger.held)
<1> USE DEF IInv
<1> DEFINE n == Cardinality(ledger.held)
<1>1. /\ n \in Nat /\ Cost * n \in Nat /\ ledger.spent \in Nat /\ ledger.month \in Months
      /\ Cost \in Nat /\ Total(ledger) = ledger.spent + Cost * n
  BY FS_CardinalityType, CostTimes, AmountAssumption DEF Finite, TypeOK, Ledger, Total
<1>2. CASE Quiet
  BY <1>1, <1>2 DEF Quiet, Total, Months
<1>3. ASSUME NEW c \in Calls, Reserves(c)
      PROVE  /\ ledger'.month >= ledger.month
             /\ ledger'.month = ledger.month => Total(ledger') >= Total(ledger)
             /\ Total(ledger') >= Cost * n
  <2>1. /\ ledger'.month = call[c].at /\ call[c].at >= ledger.month
        /\ ledger'.spent = IF call[c].at > ledger.month THEN 0 ELSE ledger.spent
    BY <1>3, ReserveEffect DEF Reserves, CanReserve, CanAdvance
  <2>2. Total(ledger') = ledger'.spent + Cost * n + Cost
    BY <1>3, ReserveTotal
  <2> QED BY <1>1, <2>1, <2>2 DEF Months
<1>4. ASSUME NEW c \in Calls, Finishes(c)
      PROVE  /\ ledger'.month >= ledger.month
             /\ ledger'.month = ledger.month => Total(ledger') >= Total(ledger)
             /\ Total(ledger') >= Cost * n
  <2>1. ledger'.month = call[c].at /\ call[c].at >= ledger.month
    BY <1>4, FinishEffect DEF Finishes, CanAdvance
  <2>2. Total(ledger') = (IF ledger'.month > ledger.month THEN 0 ELSE ledger.spent)
                          + Cost * n
    BY <1>4, FinishTotal
  <2> QED BY <1>1, <2>1, <2>2 DEF Months
<1> QED BY <1>2, <1>3, <1>4, StepCases

\* The allowance of a month is never given back, and holds outlive the month.
THEOREM NoRefundEver == Spec => NoRefund
<1>1. IInv /\ [Next]_vars =>
        [/\ ledger'.month >= ledger.month
         /\ ledger'.month = ledger.month => Total(ledger') >= Total(ledger)
         /\ Total(ledger') >= Cost * Cardinality(ledger.held)]_vars
  BY NoRefundStep
<1> QED BY <1>1, InvCorrect, PTL DEF Spec, NoRefund
=============================================================================
