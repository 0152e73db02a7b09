------------------------------ MODULE EdgeProofs ------------------------------
(***************************************************************************)
(* The rate limit of Edge, for any requests, limit and length of window,   *)
(* and its log feed, for any processes, sinks and partly failed writes.    *)
(*                                                                         *)
(* The idea: while a window is open, the row either belongs to it and has  *)
(* counted whoever was admitted in time, or nobody was.  The increment may *)
(* meet only a row of its own window, or one whose window it is too late   *)
(* for, since two windows that have both begun and not ended are the same. *)
(*                                                                         *)
(* The feed: an event is numbered by the request that emits it, so when it *)
(* is pushed it is in no place yet; pushes, drains and writes then move it *)
(* from one place to the next and never copy it.  Whoever pushed last in a *)
(* process has yet to flush, so nothing pending is left behind.            *)
(***************************************************************************)
EXTENDS Edge, FiniteSetTheorems, TLAPS

LEMMA DivMod ==
  ASSUME NEW a \in Nat, NEW n \in Nat \ {0}
  PROVE  a = n * (a \div n) + (a % n) /\ a % n \in 0..(n - 1) /\ a \div n \in Nat
OBVIOUS

LEMMA NextMultiple ==
  ASSUME NEW n \in Nat \ {0}, NEW p \in Nat, NEW q \in Nat, p < q
  PROVE  n * p + n <= n * q
<1>1. PICK d \in Nat : q = p + 1 + d
  <2>1. q - p - 1 \in Nat
    OBVIOUS
  <2> QED BY <2>1
<1>2. n * q = n * p + n + n * d /\ n * d >= 0
  BY <1>1
<1> QED BY <1>2

\* Windows are aligned: two that have begun while the other had not ended
\* are one.
LEMMA OneWindow ==
  ASSUME NEW a \in Nat, NEW b \in Nat, WindowEnd(a) > b, WindowEnd(b) > a
  PROVE  WindowEnd(a) = WindowEnd(b)
<1>0. Window \in Nat \ {0}
  BY EdgeAssumption
<1>1. PICK p \in Nat, x \in 0..(Window - 1) : x = a % Window /\ a = Window * p + x
  BY <1>0, DivMod
<1>2. PICK q \in Nat, y \in 0..(Window - 1) : y = b % Window /\ b = Window * q + y
  BY <1>0, DivMod
<1>3. Window * p \in Nat /\ Window * q \in Nat
  BY <1>0
<1>4. ~(p < q) /\ ~(q < p)
  BY <1>0, <1>1, <1>2, <1>3, NextMultiple DEF WindowEnd
<1>5. p = q
  BY <1>4
<1> QED BY <1>0, <1>1, <1>2, <1>3, <1>5 DEF WindowEnd

LEMMA WindowEndIsLater ==
  ASSUME NEW t \in Nat
  PROVE  WindowEnd(t) \in Nat /\ t < WindowEnd(t)
<1>0. Window \in Nat \ {0}
  BY EdgeAssumption
<1>1. PICK p \in Nat, x \in 0..(Window - 1) : x = t % Window /\ t = Window * p + x
  BY <1>0, DivMod
<1>2. Window * p \in Nat
  BY <1>0
<1> QED BY <1>0, <1>1, <1>2 DEF WindowEnd
-----------------------------------------------------------------------------
(* The types, and what each step does to a request.                         *)
Becomes(r, k) == req' = [req EXCEPT ![r] = k]

LEMMA BecomesIs ==
  ASSUME TypeOK, NEW r \in Requests, NEW k \in Request, Becomes(r, k)
  PROVE  /\ req' \in [Requests -> Request] /\ req'[r] = k
         /\ \A q \in Requests : q # r => req'[q] = req[q]
BY DEF Becomes, TypeOK

\* The increment's readings, and its decision.
LEMMA HitIs ==
  ASSUME TypeOK, NEW r \in Requests, Hit(r)
  PROVE  \E k \in Request :
           /\ Becomes(r, k) /\ k.pc = "hit" /\ k.end = WindowEnd(now)
           /\ k.seen = req[r].seen /\ k.admitted = req[r].admitted /\ k.at = req[r].at
<1> DEFINE k == [req[r] EXCEPT !.pc = "hit", !.end = WindowEnd(now)]
<1>0. req[r] \in Request /\ now \in Nat
  BY EdgeAssumption DEF TypeOK
<1>1. req[r] \in Request /\ WindowEnd(now) \in Nat
  BY <1>0, WindowEndIsLater
<1>2. /\ k \in Request /\ k.pc = "hit" /\ k.end = WindowEnd(now)
      /\ k.seen = req[r].seen /\ k.admitted = req[r].admitted /\ k.at = req[r].at
  BY <1>1 DEF Request, PC
<1>3. Becomes(r, k)
  BY <1>1 DEF Hit, Becomes, Request
<1> HIDE DEF k
<1> QED BY <1>2, <1>3

LEMMA ReadIs ==
  ASSUME TypeOK, NEW r \in Requests, Increment(r) \/ WindowIsOpen(r)
  PROVE  \E k \in Request :
           /\ Becomes(r, k) /\ k.end = req[r].end
           /\ k.admitted = req[r].admitted /\ k.at = req[r].at
           /\ \/ Increment(r) /\ k.pc = "open" /\ k.seen = now
              \/ WindowIsOpen(r) /\ k.pc = "add" /\ k.seen = req[r].seen
<1>1. req[r] \in Request /\ now \in Nat
  BY EdgeAssumption DEF TypeOK
<1>2. CASE Increment(r)
  <2> DEFINE k == [req[r] EXCEPT !.pc = "open", !.seen = now]
  <2>1. /\ k \in Request /\ k.pc = "open" /\ k.end = req[r].end
        /\ k.seen = now /\ k.admitted = req[r].admitted /\ k.at = req[r].at
    BY <1>1 DEF Request, PC
  <2>2. Becomes(r, k)
    BY <1>1, <1>2 DEF Increment, Becomes, Request
  <2> HIDE DEF k
  <2> QED BY <1>2, <2>1, <2>2
<1>3. CASE WindowIsOpen(r)
  <2> DEFINE k == [req[r] EXCEPT !.pc = "add"]
  <2>1. /\ k \in Request /\ k.pc = "add" /\ k.end = req[r].end
        /\ k.seen = req[r].seen /\ k.admitted = req[r].admitted /\ k.at = req[r].at
    BY <1>1 DEF Request, PC
  <2>2. Becomes(r, k)
    BY <1>1, <1>3 DEF WindowIsOpen, Becomes, Request
  <2> HIDE DEF k
  <2> QED BY <1>3, <2>1, <2>2
<1> QED BY <1>2, <1>3

LEMMA DecidedIs ==
  ASSUME TypeOK, NEW r \in Requests, NEW count \in Nat, Decided(r, count)
  PROVE  \E k \in Request :
           /\ Becomes(r, k)
           /\ \/ /\ count <= Max /\ k.pc = "handle" /\ k.admitted = TRUE
                 /\ k.at = now /\ k.end = req[r].end
              \/ ~(count <= Max) /\ k.pc = "respond" /\ k.admitted = req[r].admitted
<1>1. req[r] \in Request /\ now \in Nat
  BY EdgeAssumption DEF TypeOK
<1>2. CASE count <= Max
  <2> DEFINE k == [req[r] EXCEPT !.pc = "handle", !.admitted = TRUE, !.at = now, !.seen = 0]
  <2>1. k \in Request /\ k.pc = "handle" /\ k.admitted = TRUE /\ k.at = now /\ k.end = req[r].end
    BY <1>1 DEF Request, PC
  <2>2. Becomes(r, k)
    BY <1>1, <1>2 DEF Decided, Becomes, Request
  <2> HIDE DEF k
  <2> QED BY <1>2, <2>1, <2>2
<1>3. CASE ~(count <= Max)
  <2> DEFINE k == [req[r] EXCEPT !.pc = "respond", !.end = 0, !.seen = 0]
  <2>1. k \in Request /\ k.pc = "respond" /\ k.admitted = req[r].admitted
    BY <1>1 DEF Request, PC
  <2>2. Becomes(r, k)
    BY <1>1, <1>3 DEF Decided, Becomes, Request
  <2> HIDE DEF k
  <2> QED BY <1>3, <2>1, <2>2
<1> QED BY <1>2, <1>3

LEMMA FailsIs ==
  ASSUME TypeOK, NEW r \in Requests, Fails(r)
  PROVE  \E k \in Request : Becomes(r, k) /\ k.pc = "respond" /\ k.admitted = req[r].admitted
<1> DEFINE k == [req[r] EXCEPT !.pc = "respond", !.end = 0, !.seen = 0,
                               !.emitted = req[r].emitted + 1]
           m == [req[r] EXCEPT !.pc = "respond", !.end = 0, !.seen = 0]
<1>1. req[r] \in Request /\ req[r].emitted + 1 \in 0..MaxEvents
  BY EdgeAssumption DEF TypeOK, Request, Fails
<1>2. m \in Request /\ m.pc = "respond" /\ m.admitted = req[r].admitted
  BY <1>1 DEF Request, PC
<1>3. k = [m EXCEPT !.emitted = req[r].emitted + 1]
  OBVIOUS
<1>4. Becomes(r, k)
  BY <1>1 DEF Fails, Becomes, Request
<1> HIDE DEF m, k
<1>5. k \in Request /\ k.pc = "respond" /\ k.admitted = req[r].admitted
  BY <1>1, <1>2, <1>3 DEF Request
<1> QED BY <1>4, <1>5

\* What follows a decision leaves it alone.
After == {"handle", "respond", "write", "done"}
LEMMA AfterIs ==
  ASSUME TypeOK, NEW r \in Requests,
         Emit(r) \/ Respond(r) \/ Drain(r) \/ WriteChunk(r) \/ FlushEnds(r)
  PROVE  \E k \in Request :
           /\ Becomes(r, k) /\ k.pc \in After
           /\ k.end = req[r].end /\ k.admitted = req[r].admitted /\ k.at = req[r].at
<1>0. req \in [Requests -> Request] /\ req[r] \in Request
  BY DEF TypeOK
<1>2. CASE Emit(r)
  <2> DEFINE k == [req[r] EXCEPT !.emitted = req[r].emitted + 1]
  <2>1. req[r].emitted + 1 \in 0..MaxEvents /\ req[r].pc \in After
    BY <1>0, <1>2, EdgeAssumption DEF Request, Emit, After
  <2>2. k \in Request /\ k.pc = req[r].pc /\ k.end = req[r].end
        /\ k.admitted = req[r].admitted /\ k.at = req[r].at
    BY <1>0, <2>1 DEF Request
  <2>3. Becomes(r, k)
    BY <1>0, <1>2 DEF Emit, Becomes, Request
  <2> HIDE DEF k
  <2> QED BY <2>1, <2>2, <2>3
<1>3. CASE Respond(r)
  <2> DEFINE k == [req[r] EXCEPT !.pc = "respond"]
  <2>1. k \in Request /\ k.pc = "respond" /\ k.end = req[r].end
        /\ k.admitted = req[r].admitted /\ k.at = req[r].at
    BY <1>0 DEF Request, PC
  <2>2. Becomes(r, k)
    BY <1>0, <1>3 DEF Respond, Becomes, Request
  <2> HIDE DEF k
  <2> QED BY <2>1, <2>2 DEF After
<1>4. CASE Drain(r)
  <2>1. Batch(Proc[r]) \in Seq(Item)
    <3>1. sink[Proc[r]] \in Seq(Events) /\ Pid[Proc[r]] \in Nat
      BY EdgeAssumption DEF TypeOK
    <3>2. \A i \in 1..Len(sink[Proc[r]]) :
            [event |-> sink[Proc[r]][i], seq |-> i - 1, pid |-> Pid[Proc[r]]] \in Item
      BY <3>1 DEF Item
    <3>3. Len(sink[Proc[r]]) \in Nat
      BY <3>1
    <3> QED BY <3>2, <3>3 DEF Batch
  <2>2. PICK pc \in {"done", "write"}, b \in Seq(Item) :
          req' = [req EXCEPT ![r].pc = pc, ![r].batch = b]
    BY <1>4, <2>1 DEF Drain
  <2> DEFINE k == [req[r] EXCEPT !.pc = pc, !.batch = b]
  <2>3. k \in Request /\ k.pc = pc /\ k.end = req[r].end
        /\ k.admitted = req[r].admitted /\ k.at = req[r].at
    BY <1>0 DEF Request, PC
  <2>4. Becomes(r, k)
    BY <1>0, <2>2 DEF Becomes, Request
  <2> HIDE DEF k
  <2> QED BY <2>3, <2>4 DEF After
<1>5. CASE WriteChunk(r)
  <2> DEFINE c == req[r].batch
             n == IF Chunk < Len(c) THEN Chunk ELSE Len(c)
  <2>1. c \in Seq(Item) /\ n \in Nat /\ n <= Len(c)
    BY <1>0, EdgeAssumption DEF Request
  <2>2. SubSeq(c, n + 1, Len(c)) \in Seq(Item)
    BY <2>1
  <2>3. PICK b \in Seq(Item) : req' = [req EXCEPT ![r].batch = b]
    BY <1>5, <2>2 DEF WriteChunk
  <2> DEFINE k == [req[r] EXCEPT !.batch = b]
  <2>4. k \in Request /\ k.pc = "write" /\ k.end = req[r].end
        /\ k.admitted = req[r].admitted /\ k.at = req[r].at
    BY <1>0, <1>5 DEF Request, WriteChunk
  <2>5. Becomes(r, k)
    BY <1>0, <2>3 DEF Becomes, Request
  <2> HIDE DEF k, n, c
  <2> QED BY <2>4, <2>5 DEF After
<1>6. CASE FlushEnds(r)
  <2>0. PICK b \in Seq(Item) : b = << >>
    <3>1. << >> \in Seq(Item)
      OBVIOUS
    <3> QED BY <3>1, Zenon
  <2> DEFINE k == [req[r] EXCEPT !.pc = "done", !.batch = b]
  <2>1. k \in Request /\ k.pc = "done" /\ k.end = req[r].end
        /\ k.admitted = req[r].admitted /\ k.at = req[r].at
    BY <1>0 DEF Request, PC
  <2>2. Becomes(r, k)
    BY <1>0, <1>6, <2>0 DEF FlushEnds, Becomes, Request
  <2> HIDE DEF k
  <2> QED BY <2>1, <2>2 DEF After
<1> QED BY <1>2, <1>3, <1>4, <1>5, <1>6

LEMMA RequestsAreTyped ==
  ASSUME TypeOK, NEW r \in Requests, Step(r)
  PROVE  req' \in [Requests -> Request]
<1>1. CASE Hit(r) \/ Increment(r) \/ WindowIsOpen(r)
  BY <1>1, HitIs, ReadIs, BecomesIs
<1>2. CASE OpenWindow(r) \/ Add(r)
  <2>1. row.count + 1 \in Nat
    BY DEF TypeOK
  <2>2. PICK n \in Nat : Decided(r, n)
    BY <1>2, <2>1 DEF OpenWindow, Add
  <2> QED BY <2>2, DecidedIs, BecomesIs
<1>3. CASE Fails(r)
  BY <1>3, FailsIs, BecomesIs
<1>4. CASE Emit(r) \/ Respond(r) \/ Drain(r) \/ WriteChunk(r) \/ FlushEnds(r)
  BY <1>4, AfterIs, BecomesIs
<1> QED BY <1>1, <1>2, <1>3, <1>4 DEF Step

LEMMA PushedIsTyped ==
  ASSUME TypeOK, NEW r \in Requests, Pushed(r)
  PROVE  sink' \in [Procs -> Seq(Events)] /\ \A p \in Procs : Len(sink'[p]) <= MaxPending
<1> DEFINE e == [req |-> r, n |-> req[r].emitted, time |-> now]
<1>1. Proc[r] \in Procs /\ sink[Proc[r]] \in Seq(Events) /\ MaxPending \in Nat
  BY EdgeAssumption DEF TypeOK
<1>2. e \in Events
  BY DEF TypeOK, Request, Events
<1>3. sink' = IF Len(sink[Proc[r]]) < MaxPending
              THEN [sink EXCEPT ![Proc[r]] = Append(@, e)] ELSE sink
  BY DEF Pushed
<1> HIDE DEF e
<1>4. /\ Append(sink[Proc[r]], e) \in Seq(Events)
      /\ Len(Append(sink[Proc[r]], e)) = Len(sink[Proc[r]]) + 1
      /\ Len(sink[Proc[r]]) \in Nat
  BY <1>1, <1>2
<1> QED BY <1>1, <1>3, <1>4 DEF TypeOK

LEMMA TypeStep == TypeOK /\ [Next]_vars => TypeOK'
<1> SUFFICES ASSUME TypeOK, [Next]_vars PROVE TypeOK'
  OBVIOUS
<1>0. /\ MaxTime \in Nat /\ row \in [expires : Nat, count : Nat]
      /\ req \in [Requests -> Request] /\ items \subseteq Item
  BY EdgeAssumption DEF TypeOK
<1>1. CASE Tick
  BY <1>0, <1>1 DEF Tick, TypeOK
<1>2. CASE Clean
  BY <1>2 DEF Clean, TypeOK, NoRow
<1>3. ASSUME NEW r \in Requests, Step(r) PROVE TypeOK'
  <2>1. req' \in [Requests -> Request] /\ now' = now
    BY <1>3, RequestsAreTyped DEF Step, Hit, Increment, OpenWindow, WindowIsOpen, Add, Fails, Emit,
       Respond, Drain, WriteChunk, FlushEnds
  <2>2. row' \in [expires : Nat, count : Nat]
    BY <1>0, <1>3 DEF Step, Hit, Increment, OpenWindow, WindowIsOpen, Add, Fails, Emit,
       Respond, Drain, WriteChunk, FlushEnds, Started, Added, Request
  <2>3. sink' \in [Procs -> Seq(Events)] /\ \A p \in Procs : Len(sink'[p]) <= MaxPending
    <3>1. CASE Pushed(r)
      BY <3>1, PushedIsTyped
    <3>2. CASE Drain(r)
      <4>1. /\ sink' = [sink EXCEPT ![Proc[r]] = << >>] /\ Proc[r] \in Procs
            /\ << >> \in Seq(Events) /\ Len(<< >>) = 0 /\ MaxPending \in Nat
        BY <3>2, EdgeAssumption DEF Drain
      <4> QED BY <4>1 DEF TypeOK
    <3>3. CASE UNCHANGED sink
      BY <3>3 DEF TypeOK
    <3> QED BY <1>3, <3>1, <3>2, <3>3 DEF Step, Hit, Increment, OpenWindow, WindowIsOpen, Add,
       Fails, Emit, Respond, WriteChunk, FlushEnds
  <2>4. items' \subseteq Item
    <3>1. CASE WriteChunk(r)
      <4>1. req[r].batch \in Seq(Item) /\ Chunk \in Nat
        BY <1>0, EdgeAssumption DEF Request
      <4> DEFINE n == IF Chunk < Len(req[r].batch) THEN Chunk ELSE Len(req[r].batch)
      <4>2. \A i \in 1..n : req[r].batch[i] \in Item
        BY <4>1
      <4> QED BY <1>0, <3>1, <4>2 DEF WriteChunk, Put
    <3>2. CASE UNCHANGED items
      BY <1>0, <3>2
    <3> QED BY <1>3, <3>1, <3>2 DEF Step, Hit, Increment, OpenWindow, WindowIsOpen, Add,
       Fails, Emit, Respond, Drain, FlushEnds
  <2> QED BY <2>1, <2>2, <2>3, <2>4 DEF TypeOK
<1>4. CASE UNCHANGED vars
  BY <1>4 DEF vars, TypeOK
<1> QED BY <1>1, <1>2, <1>3, <1>4 DEF Next

\* The counter row, the requests, the sinks and the feed keep their types, and
\* no sink outgrows MAX_PENDING.
THEOREM TypeCorrect == Spec => []TypeOK
<1>1. Init => TypeOK
  BY EdgeAssumption DEF Init, TypeOK, NoRow, Arriving, Request, PC
<1> QED BY <1>1, TypeStep, PTL DEF Spec
-----------------------------------------------------------------------------
(* The limit.                                                               *)

\* A window's end comes from a reading of the clock: the row's, and that of a
\* request that is about to be counted, which has read the clock again since.
Begun(e, t) == \E b \in Nat : b <= t /\ e = WindowEnd(b)
RowOK == row = NoRow \/ Begun(row.expires, now)
Reading(r) ==
  /\ req[r].pc \in {"idle", "hit", "open", "add"} => req[r].admitted = FALSE
  /\ req[r].pc = "hit" => Begun(req[r].end, now)
  /\ req[r].pc \in {"open", "add"} => req[r].seen <= now /\ Begun(req[r].end, req[r].seen)

\* While a window is open its row has counted whoever was admitted in time.
Counted(e) ==
  /\ IsFiniteSet(InTime(e)) /\ Cardinality(InTime(e)) <= Max
  /\ now < e => IF row.expires = e THEN Cardinality(InTime(e)) <= row.count
                                   ELSE InTime(e) = {}

LInv == TypeOK /\ RowOK /\ (\A r \in Requests : Reading(r)) /\ \A e \in Nat : Counted(e)

LEMMA TypedFacts ==
  ASSUME TypeOK
  PROVE  /\ now \in Nat /\ row.expires \in Nat /\ row.count \in Nat
         /\ \A r \in Requests : req[r] \in Request /\ req[r].end \in Nat /\ req[r].seen \in Nat
                                /\ req[r].at \in Nat
  BY EdgeAssumption DEF TypeOK, Request

LEMMA InTimeStays ==
  ASSUME NEW e,
         \A r \in Requests : (req'[r].admitted /\ req'[r].end = e /\ req'[r].at < e)
                               <=> (req[r].admitted /\ req[r].end = e /\ req[r].at < e)
  PROVE  InTime(e)' = InTime(e)
  BY DEF InTime

LEMMA BegunLasts ==
  ASSUME NEW e, NEW t \in Nat, NEW u \in Nat, t <= u, Begun(e, t)
  PROVE  Begun(e, u)
BY DEF Begun

\* A row that is there and has not expired is of the window of whoever meets
\* it, unless that window is over.
LEMMA MetRow ==
  ASSUME LInv, NEW r \in Requests, req[r].pc \in {"open", "add"}, ~Expired(r), now < req[r].end
  PROVE  row.expires = req[r].end
<1>1. /\ now \in Nat /\ row.expires \in Nat /\ req[r].seen \in Nat /\ req[r].seen <= now
      /\ row.expires > req[r].seen
  BY TypedFacts DEF LInv, Reading, Expired
<1>2. PICK a \in Nat : a <= req[r].seen /\ req[r].end = WindowEnd(a)
  BY DEF LInv, Reading, Begun
<1>3. row # NoRow
  BY <1>1 DEF NoRow
<1>4. PICK b \in Nat : b <= now /\ row.expires = WindowEnd(b)
  BY <1>3 DEF LInv, RowOK, Begun
<1>5. WindowEnd(a) \in Nat /\ WindowEnd(b) \in Nat
  BY WindowEndIsLater
<1> QED BY <1>1, <1>2, <1>4, <1>5, OneWindow

\* A new row: its window had none, so nobody was admitted to it in time.
LEMMA FreshRow ==
  ASSUME LInv, NEW r \in Requests, req[r].pc = "open", Expired(r), NEW e \in Nat, now < e
  PROVE  InTime(e) = {}
<1>1. row.expires <= now
  BY TypedFacts DEF LInv, Reading, Expired
<1> QED BY <1>1, TypedFacts DEF LInv, Counted

LEMMA Admits ==
  ASSUME LInv, NEW r \in Requests, req[r].pc \in {"open", "add"}, NEW e \in Nat,
         req'[r].admitted = TRUE, req'[r].at = now, req'[r].end = req[r].end,
         \A q \in Requests : q # r => req'[q] = req[q]
  PROVE  /\ r \notin InTime(e)
         /\ InTime(e)' = IF e = req[r].end /\ now < e THEN InTime(e) \union {r} ELSE InTime(e)
BY DEF LInv, Reading, InTime

LEMMA AdmitsNot ==
  ASSUME LInv, NEW r \in Requests, NEW e,
         req[r].admitted = FALSE, req'[r].admitted = FALSE,
         \A q \in Requests : q # r => req'[q] = req[q]
  PROVE  InTime(e)' = InTime(e)
BY DEF InTime

LEMMA InitHolds == Init => LInv
<1> SUFFICES ASSUME Init PROVE LInv
  OBVIOUS
<1>1. TypeOK
  BY EdgeAssumption DEF Init, TypeOK, NoRow, Arriving, Request, PC
<1>2. RowOK /\ \A r \in Requests : Reading(r) /\ req[r].admitted = FALSE
  BY DEF Init, RowOK, Reading, Arriving
<1>3. \A e \in Nat : InTime(e) = {}
  BY <1>2 DEF InTime
<1>4. \A e \in Nat : Counted(e)
  <2>1. /\ row.expires = 0 /\ row.count = 0 /\ now = 0 /\ Max \in Nat
        /\ IsFiniteSet({}) /\ Cardinality({}) = 0
    BY FS_EmptySet, EdgeAssumption DEF Init, NoRow
  <2> QED BY <1>3, <2>1 DEF Counted
<1> QED BY <1>1, <1>2, <1>4 DEF LInv

LEMMA TimeKeeps ==
  ASSUME LInv, Tick \/ Clean PROVE LInv'
<1>0. TypeOK'
  BY TypeStep DEF LInv, Next
<1>1. /\ now \in Nat /\ now' \in Nat /\ now <= now' /\ UNCHANGED req
      /\ row.expires \in Nat /\ row'.expires \in Nat
      /\ row' = row \/ (row' = NoRow /\ now' = now /\ row.expires <= now)
  <2>1. now \in Nat /\ row.expires \in Nat
    BY TypedFacts DEF LInv
  <2>2. now' \in Nat /\ row'.expires \in Nat
    BY <1>0, EdgeAssumption DEF TypeOK
  <2> QED BY <2>1, <2>2 DEF Tick, Clean
<1>2. RowOK'
  BY <1>1, BegunLasts DEF LInv, RowOK
<1>3. ASSUME NEW r \in Requests PROVE Reading(r)'
  <2>1. Reading(r) /\ req[r].seen \in Nat /\ req'[r] = req[r]
    BY <1>1, TypedFacts DEF LInv
  <2> QED BY <1>1, <2>1, BegunLasts DEF Reading
<1>4. ASSUME NEW e \in Nat PROVE Counted(e)'
  <2>1. InTime(e)' = InTime(e) /\ Counted(e)
    BY <1>1, InTimeStays DEF LInv
  <2>2. NoRow.expires = 0
    BY DEF NoRow
  <2>3. now' < e => now < e
    BY <1>1
  <2>4. CASE row' = row
    BY <2>1, <2>3, <2>4 DEF Counted
  <2>5. CASE row' = NoRow /\ now' = now /\ row.expires <= now
    BY <1>1, <2>1, <2>2, <2>5 DEF Counted
  <2> QED BY <1>1, <2>4, <2>5
<1> QED BY <1>0, <1>2, <1>3, <1>4 DEF LInv

\* A step of a request that neither counts nor is counted.
LEMMA QuietKeeps ==
  ASSUME LInv, TypeOK', NEW r \in Requests, UNCHANGED <<now, row>>,
         \A q \in Requests : q # r => req'[q] = req[q],
         Reading(r)',
         \/ /\ req'[r].admitted = req[r].admitted /\ req'[r].end = req[r].end
            /\ req'[r].at = req[r].at
         \/ req[r].admitted = FALSE /\ req'[r].admitted = FALSE
  PROVE  LInv'
<1>1. RowOK'
  BY DEF LInv, RowOK, Begun
<1>2. \A q \in Requests : Reading(q)'
  BY DEF LInv, Reading, Begun
<1>3. ASSUME NEW e \in Nat PROVE Counted(e)'
  <2>1. InTime(e)' = InTime(e)
    BY InTimeStays
  <2>2. Counted(e)
    BY DEF LInv
  <2> QED BY <2>1, <2>2 DEF Counted
<1> QED BY <1>1, <1>2, <1>3 DEF LInv

LEMMA QuietStepsKeep ==
  ASSUME LInv, NEW r \in Requests,
         \/ Hit(r) \/ Increment(r) \/ WindowIsOpen(r)
         \/ Emit(r) \/ Respond(r) \/ Drain(r) \/ WriteChunk(r) \/ FlushEnds(r)
  PROVE  LInv'
<1>0. /\ TypeOK /\ TypeOK' /\ Reading(r) /\ UNCHANGED <<now, row>>
      /\ now \in Nat /\ req[r].seen \in Nat
  BY TypeStep, TypedFacts DEF LInv, Next, Step, Hit, Increment, WindowIsOpen, Emit, Respond, Drain,
     WriteChunk, FlushEnds
<1>1. CASE Hit(r)
  <2>1. PICK k \in Request :
           /\ Becomes(r, k) /\ k.pc = "hit" /\ k.end = WindowEnd(now)
           /\ k.seen = req[r].seen /\ k.admitted = req[r].admitted /\ k.at = req[r].at
    BY <1>0, <1>1, HitIs
  <2>2. req'[r] = k /\ \A q \in Requests : q # r => req'[q] = req[q]
    BY <1>0, <2>1, BecomesIs
  <2>3. req[r].admitted = FALSE
    BY <1>0, <1>1 DEF Hit, Reading
  <2>4. Reading(r)'
    BY <1>0, <2>1, <2>2, <2>3 DEF Reading, Begun
  <2> QED BY <1>0, <2>1, <2>2, <2>3, <2>4, QuietKeeps
<1>2. CASE Increment(r) \/ WindowIsOpen(r)
  <2>1. PICK k \in Request :
           /\ Becomes(r, k) /\ k.end = req[r].end
           /\ k.admitted = req[r].admitted /\ k.at = req[r].at
           /\ \/ Increment(r) /\ k.pc = "open" /\ k.seen = now
              \/ WindowIsOpen(r) /\ k.pc = "add" /\ k.seen = req[r].seen
    BY <1>0, <1>2, ReadIs
  <2>2. req'[r] = k /\ \A q \in Requests : q # r => req'[q] = req[q]
    BY <1>0, <2>1, BecomesIs
  <2>3. Reading(r)'
    BY <1>0, <2>1, <2>2 DEF Increment, WindowIsOpen, Reading
  <2> QED BY <1>0, <2>1, <2>2, <2>3, QuietKeeps
<1>3. CASE Emit(r) \/ Respond(r) \/ Drain(r) \/ WriteChunk(r) \/ FlushEnds(r)
  <2>1. PICK k \in Request :
           /\ Becomes(r, k) /\ k.pc \in After
           /\ k.end = req[r].end /\ k.admitted = req[r].admitted /\ k.at = req[r].at
    BY <1>0, <1>3, AfterIs
  <2>2. req'[r] = k /\ \A q \in Requests : q # r => req'[q] = req[q]
    BY <1>0, <2>1, BecomesIs
  <2>3. Reading(r)'
    BY <2>1, <2>2 DEF Reading, After
  <2> QED BY <1>0, <2>1, <2>2, <2>3, QuietKeeps
<1> QED BY <1>1, <1>2, <1>3

\* An update of the row, by a request that the increment may then admit.
LEMMA RowWrites ==
  ASSUME LInv, NEW r \in Requests, req[r].pc \in {"open", "add"}, now' = now,
         \/ req[r].pc = "open" /\ Expired(r) /\ Started(r)
         \/ req[r].pc = "add" /\ ~Expired(r) /\ Added
  PROVE  /\ RowOK'
         /\ row'.count \in Nat /\ row'.count > 0 /\ row'.expires \in Nat
         /\ \A e \in Nat : now < e =>
              IF row'.expires = e THEN Cardinality(InTime(e)) + 1 <= row'.count
                                  ELSE InTime(e) = {}
         /\ now < req[r].end => row'.expires = req[r].end
<1>0. /\ now \in Nat /\ row.expires \in Nat /\ row.count \in Nat
      /\ req[r].end \in Nat /\ req[r].seen \in Nat /\ req[r].seen <= now
      /\ Begun(req[r].end, req[r].seen)
      /\ row \in [expires : Nat, count : Nat]
  BY TypedFacts DEF LInv, Reading, TypeOK
<1>1. CASE req[r].pc = "open" /\ Expired(r) /\ Started(r)
  <2>1. row'.expires = req[r].end /\ row'.count = 1
    BY <1>1 DEF Started
  <2>2. RowOK'
    BY <1>0, <2>1, BegunLasts DEF RowOK
  <2>3. \A e \in Nat : now < e => InTime(e) = {}
    BY <1>1, FreshRow
  <2>4. Cardinality({}) = 0
    BY FS_EmptySet
  <2>5. \A e \in Nat : now < e => Cardinality(InTime(e)) + 1 <= 1
    BY <2>3, <2>4
  <2> QED BY <1>0, <2>1, <2>2, <2>3, <2>5
<1>2. CASE req[r].pc = "add" /\ ~Expired(r) /\ Added
  <2>1. row'.expires = row.expires /\ row'.count = row.count + 1
    BY <1>0, <1>2 DEF Added
  <2>2. row # NoRow
    BY <1>0, <1>2 DEF NoRow, Expired
  <2>3. RowOK'
    BY <2>1, <2>2 DEF LInv, RowOK, Begun
  <2>4. ASSUME NEW e \in Nat, now < e
        PROVE  IF row'.expires = e THEN Cardinality(InTime(e)) + 1 <= row'.count
                                   ELSE InTime(e) = {}
    <3>1. Counted(e)
      BY DEF LInv
    <3>2. Cardinality(InTime(e)) \in Nat
      BY <3>1, FS_CardinalityType DEF Counted
    <3> QED BY <1>0, <2>1, <2>4, <3>1, <3>2 DEF Counted
  <2>5. now < req[r].end => row'.expires = req[r].end
    BY <1>2, <2>1, MetRow
  <2> QED BY <1>0, <2>1, <2>3, <2>4, <2>5
<1> QED BY <1>1, <1>2

LEMMA FailsKeeps ==
  ASSUME LInv, NEW r \in Requests, Fails(r) PROVE LInv'
<1>0. TypeOK /\ TypeOK' /\ Reading(r) /\ now' = now /\ req[r].pc \in {"open", "add"}
      /\ row.count \in Nat
  BY TypeStep, TypedFacts DEF LInv, Next, Step, Fails
<1>1. PICK k \in Request : Becomes(r, k) /\ k.pc = "respond" /\ k.admitted = req[r].admitted
  BY <1>0, FailsIs
<1>2. req'[r] = k /\ \A q \in Requests : q # r => req'[q] = req[q]
  BY <1>0, <1>1, BecomesIs
<1>3. req[r].admitted = FALSE /\ req'[r].admitted = FALSE /\ Reading(r)'
  BY <1>0, <1>1, <1>2 DEF Reading
<1>4. CASE row' = row
  BY <1>0, <1>2, <1>3, <1>4, QuietKeeps
<1>5. CASE row' # row
  <2>1. /\ RowOK' /\ row'.count \in Nat
        /\ \A e \in Nat : now < e =>
             IF row'.expires = e THEN Cardinality(InTime(e)) + 1 <= row'.count
                                 ELSE InTime(e) = {}
    BY <1>0, <1>5, RowWrites DEF Fails
  <2>2. \A q \in Requests : Reading(q)'
    BY <1>0, <1>2, <1>3 DEF LInv, Reading, Begun
  <2>3. ASSUME NEW e \in Nat PROVE Counted(e)'
    <3>1. InTime(e)' = InTime(e) /\ Counted(e)
      BY <1>2, <1>3, AdmitsNot DEF LInv
    <3>2. Cardinality(InTime(e)) \in Nat
      BY <3>1, FS_CardinalityType DEF Counted
    <3> QED BY <1>0, <2>1, <3>1, <3>2 DEF Counted
  <2> QED BY <1>0, <2>1, <2>2, <2>3 DEF LInv
<1> QED BY <1>4, <1>5

LEMMA DecidesKeeps ==
  ASSUME LInv, NEW r \in Requests, OpenWindow(r) \/ Add(r) PROVE LInv'
<1>0. /\ TypeOK /\ TypeOK' /\ Reading(r) /\ now' = now /\ now \in Nat
      /\ req[r].pc \in {"open", "add"} /\ req[r].end \in Nat
      /\ row \in [expires : Nat, count : Nat] /\ Max \in Nat \ {0}
  BY TypeStep, TypedFacts, EdgeAssumption DEF LInv, Next, Step, OpenWindow, Add, TypeOK
<1>1. /\ RowOK'
      /\ row'.count \in Nat /\ row'.count > 0 /\ row'.expires \in Nat
      /\ \A e \in Nat : now < e =>
           IF row'.expires = e THEN Cardinality(InTime(e)) + 1 <= row'.count
                               ELSE InTime(e) = {}
      /\ now < req[r].end => row'.expires = req[r].end
  BY <1>0, RowWrites DEF OpenWindow, Add
<1>2. Decided(r, row'.count)
  BY <1>0 DEF OpenWindow, Add, Started, Added
<1>3. PICK k \in Request :
         /\ Becomes(r, k)
         /\ \/ /\ row'.count <= Max /\ k.pc = "handle" /\ k.admitted = TRUE
               /\ k.at = now /\ k.end = req[r].end
            \/ ~(row'.count <= Max) /\ k.pc = "respond" /\ k.admitted = req[r].admitted
  <2>1. PICK n \in Nat : n = row'.count
    BY <1>1
  <2>2. Decided(r, n)
    BY <1>2, <2>1
  <2>3. PICK k \in Request :
         /\ Becomes(r, k)
         /\ \/ /\ n <= Max /\ k.pc = "handle" /\ k.admitted = TRUE
               /\ k.at = now /\ k.end = req[r].end
            \/ ~(n <= Max) /\ k.pc = "respond" /\ k.admitted = req[r].admitted
    BY <1>0, <2>2, DecidedIs
  <2> QED BY <2>1, <2>3
<1>4. req'[r] = k /\ \A q \in Requests : q # r => req'[q] = req[q]
  BY <1>0, <1>3, BecomesIs
<1>5. \A q \in Requests : Reading(q)'
  BY <1>0, <1>3, <1>4 DEF LInv, Reading, Begun
<1>6. ASSUME NEW e \in Nat PROVE Counted(e)'
  <2>1. /\ Counted(e) /\ IsFiniteSet(InTime(e)) /\ Cardinality(InTime(e)) \in Nat
        /\ Cardinality(InTime(e)) <= Max
    BY FS_CardinalityType DEF LInv, Counted
  <2>2. CASE k.admitted = TRUE /\ row'.count <= Max /\ k.at = now /\ k.end = req[r].end
    <3>1. /\ r \notin InTime(e)
          /\ InTime(e)' = IF e = req[r].end /\ now < e THEN InTime(e) \union {r} ELSE InTime(e)
      BY <1>0, <1>4, <2>2, Admits
    <3>2. CASE e = req[r].end /\ now < e
      <4>1. /\ InTime(e)' = InTime(e) \union {r} /\ row'.expires = e
            /\ Cardinality(InTime(e)) + 1 <= row'.count
        BY <1>1, <3>1, <3>2
      <4>2. /\ IsFiniteSet(InTime(e) \union {r})
            /\ Cardinality(InTime(e) \union {r}) = Cardinality(InTime(e)) + 1
        BY <2>1, <3>1, FS_AddElement
      <4>3. Cardinality(InTime(e)) + 1 <= Max
        BY <1>0, <1>1, <2>1, <2>2, <4>1
      <4> QED BY <4>1, <4>2, <4>3 DEF Counted
    <3>3. CASE ~(e = req[r].end /\ now < e)
      <4>1. InTime(e)' = InTime(e)
        BY <3>1, <3>3
      <4> QED BY <1>0, <1>1, <2>1, <4>1 DEF Counted
    <3> QED BY <3>2, <3>3
  <2>3. CASE k.pc = "respond" /\ k.admitted = req[r].admitted
    <3>1. InTime(e)' = InTime(e)
      BY <1>0, <1>4, <2>3, AdmitsNot DEF Reading
    <3> QED BY <1>0, <1>1, <2>1, <3>1 DEF Counted
  <2> QED BY <1>3, <2>2, <2>3
<1> QED BY <1>0, <1>1, <1>5, <1>6 DEF LInv

LEMMA LimitStep == LInv /\ [Next]_vars => LInv'
<1> SUFFICES ASSUME LInv, [Next]_vars PROVE LInv'
  OBVIOUS
<1>1. CASE Tick \/ Clean
  BY <1>1, TimeKeeps
<1>2. ASSUME NEW r \in Requests, Step(r) PROVE LInv'
  BY <1>2, QuietStepsKeep, FailsKeeps, DecidesKeeps DEF Step
<1>3. CASE UNCHANGED vars
  <2>1. now' = now /\ row' = row /\ req' = req
    BY <1>3 DEF vars
  <2>2. TypeOK'
    BY TypeStep DEF LInv
  <2>3. \A e \in Nat : InTime(e)' = InTime(e)
    BY <2>1 DEF InTime
  <2> QED BY <2>1, <2>2, <2>3 DEF LInv, RowOK, Reading, Begun, Counted
<1> QED BY <1>1, <1>2, <1>3 DEF Next

\* No window admits more than Limit.max hits before it ends, whatever clock
\* readings, lost answers, cleanings and restarts of the row lie in between.
THEOREM LimitCorrect == Spec => []LimitHolds
<1>1. LInv => LimitHolds
  BY TypedFacts DEF LInv, LimitHolds, Counted
<1> QED BY <1>1, InitHolds, LimitStep, PTL DEF Spec

-----------------------------------------------------------------------------
(* The feed.  An event is numbered by its request, so one that is pushed is *)
(* in no place yet; it is then in one place only: a sink, what is left of a *)
(* batch, or the table.                                                     *)
Batches == [q \in Requests |-> req[q].batch]
Emitted == [q \in Requests |-> req[q].emitted]

InSink(sk, p, i) == p \in Procs /\ i \in 1..Len(sk[p])
InBatch(b, r, i) == r \in Requests /\ i \in 1..Len(b[r])

NoTwins(sk, b, its) ==
  /\ \A p, q, i, j : InSink(sk, p, i) /\ InSink(sk, q, j) /\ sk[p][i] = sk[q][j]
                       => p = q /\ i = j
  /\ \A r, q, i, j : InBatch(b, r, i) /\ InBatch(b, q, j) /\ b[r][i].event = b[q][j].event
                       => r = q /\ i = j
  /\ \A x, y \in its : x.event = y.event => x = y
OnePlace(sk, b, its) ==
  /\ \A p, r, i, j : InSink(sk, p, i) /\ InBatch(b, r, j) => sk[p][i] # b[r][j].event
  /\ \A p, i : \A x \in its : InSink(sk, p, i) => sk[p][i] # x.event
  /\ \A r, i : \A x \in its : InBatch(b, r, i) => b[r][i].event # x.event
Numbered(sk, b, its, em) ==
  /\ \A p, i : InSink(sk, p, i) => sk[p][i].n < em[sk[p][i].req]
  /\ \A r, i : InBatch(b, r, i) => b[r][i].event.n < em[b[r][i].event.req]
  /\ \A x \in its : x.event.n < em[x.event.req]
Whole(sk, b, its, em) ==
  /\ sk \in [Procs -> Seq(Events)] /\ b \in [Requests -> Seq(Item)]
  /\ its \subseteq Item /\ em \in [Requests -> Nat]
  /\ NoTwins(sk, b, its) /\ OnePlace(sk, b, its) /\ Numbered(sk, b, its, em)

\* An event gets the next number of its request; a full sink drops it.
LEMMA CountedOnly ==
  ASSUME NEW sk, NEW b, NEW its, NEW em, NEW em2 \in [Requests -> Nat], Whole(sk, b, its, em),
         \A q \in Requests : em[q] <= em2[q]
  PROVE  Whole(sk, b, its, em2)
<1>10. Numbered(sk, b, its, em)
  BY DEF Whole
<1>1. /\ \A p, i : InSink(sk, p, i) => sk[p][i] \in Events
      /\ \A r, i : InBatch(b, r, i) => b[r][i].event \in Events
      /\ \A x \in its : x.event \in Events
  <2>1. ASSUME NEW p, NEW i, InSink(sk, p, i) PROVE sk[p][i] \in Events
    <3>1. sk[p] \in Seq(Events) /\ i \in 1..Len(sk[p])
      BY <2>1 DEF Whole, InSink
    <3> QED BY <3>1
  <2>2. ASSUME NEW r, NEW i, InBatch(b, r, i) PROVE b[r][i].event \in Events
    <3>1. b[r] \in Seq(Item) /\ i \in 1..Len(b[r])
      BY <2>2 DEF Whole, InBatch
    <3>2. b[r][i] \in Item
      BY <3>1
    <3> QED BY <3>2 DEF Item
  <2> QED BY <2>1, <2>2 DEF Whole, Item
<1>2. \A e \in Events : e.n < em[e.req] => e.n < em2[e.req]
  BY EdgeAssumption DEF Events, Whole
<1>3. Numbered(sk, b, its, em2)
  BY <1>10, <1>1, <1>2 DEF Numbered, Whole
<1> QED BY <1>3 DEF Whole

\* The moves between the places, by what the new places hold.
Pushes(sk, b, its, sk2, p, n, e) ==
  /\ \A q, i : InSink(sk2, q, i) <=> InSink(sk, q, i) \/ (q = p /\ i = n)
  /\ \A q, i : InSink(sk, q, i) => sk2[q][i] = sk[q][i]
  /\ sk2[p][n] = e /\ ~InSink(sk, p, n)
  /\ \A q, i : InSink(sk, q, i) => sk[q][i] # e
  /\ \A q, i : InBatch(b, q, i) => b[q][i].event # e
  /\ \A x \in its : x.event # e
Drains(sk, b, sk2, b2, p, r) ==
  /\ \A q, i : InSink(sk2, q, i) => InSink(sk, q, i) /\ q # p /\ sk2[q][i] = sk[q][i]
  /\ \A q, i : InBatch(b2, q, i) =>
       \/ q = r /\ InSink(sk, p, i) /\ b2[q][i].event = sk[p][i]
       \/ q # r /\ InBatch(b, q, i) /\ b2[q][i] = b[q][i]
Writes(b, its, b2, its2, r, n) ==
  /\ \A q, i : InBatch(b2, q, i) =>
       \/ q # r /\ InBatch(b, q, i) /\ b2[q][i] = b[q][i]
       \/ q = r /\ i \in Nat \ {0} /\ InBatch(b, q, n + i) /\ b2[q][i] = b[q][n + i]
  /\ \A x \in its2 : x \in its \/ \E i \in 1..n : InBatch(b, r, i) /\ x = b[r][i]

LEMMA OneIsPushed ==
  ASSUME NEW sk, NEW b, NEW its, NEW em2, NEW sk2, NEW p, NEW n, NEW e,
         NoTwins(sk, b, its), OnePlace(sk, b, its), Numbered(sk, b, its, em2),
         Pushes(sk, b, its, sk2, p, n, e), e.n < em2[e.req]
  PROVE  NoTwins(sk2, b, its) /\ OnePlace(sk2, b, its) /\ Numbered(sk2, b, its, em2)
<1>1. NoTwins(sk2, b, its)
  BY SMT DEF Pushes, NoTwins
<1>2. OnePlace(sk2, b, its)
  BY SMT DEF Pushes, OnePlace
<1>3. Numbered(sk2, b, its, em2)
  BY SMT DEF Pushes, Numbered
<1> QED BY <1>1, <1>2, <1>3

LEMMA AllAreDrained ==
  ASSUME NEW sk, NEW b, NEW its, NEW em, NEW sk2, NEW b2, NEW p, NEW r,
         NoTwins(sk, b, its), OnePlace(sk, b, its), Numbered(sk, b, its, em),
         Drains(sk, b, sk2, b2, p, r)
  PROVE  NoTwins(sk2, b2, its) /\ OnePlace(sk2, b2, its) /\ Numbered(sk2, b2, its, em)
<1>1. NoTwins(sk2, b2, its)
  BY SMT DEF Drains, NoTwins, OnePlace
<1>2. OnePlace(sk2, b2, its)
  BY SMT DEF Drains, NoTwins, OnePlace
<1>3. Numbered(sk2, b2, its, em)
  BY SMT DEF Drains, Numbered
<1> QED BY <1>1, <1>2, <1>3

LEMMA SomeAreWritten ==
  ASSUME NEW sk, NEW b, NEW its, NEW em, NEW its2, NEW b2, NEW r, NEW n \in Nat,
         NoTwins(sk, b, its), OnePlace(sk, b, its), Numbered(sk, b, its, em),
         Writes(b, its, b2, its2, r, n)
  PROVE  NoTwins(sk, b2, its2) /\ OnePlace(sk, b2, its2) /\ Numbered(sk, b2, its2, em)
<1>1. NoTwins(sk, b2, its2)
  <2>1. \A q1, q2, i, j : InBatch(b2, q1, i) /\ InBatch(b2, q2, j)
                            /\ b2[q1][i].event = b2[q2][j].event => q1 = q2 /\ i = j
    BY SMT DEF Writes, NoTwins
  <2>2. \A x, y \in its2 : x.event = y.event => x = y
    BY SMT DEF Writes, NoTwins, OnePlace
  <2> QED BY <2>1, <2>2 DEF NoTwins
<1>2. OnePlace(sk, b2, its2)
  <2>1. \A p, q, i, j : InSink(sk, p, i) /\ InBatch(b2, q, j) => sk[p][i] # b2[q][j].event
    BY SMT DEF Writes, OnePlace
  <2>2. \A p, i : \A x \in its2 : InSink(sk, p, i) => sk[p][i] # x.event
    BY SMT DEF Writes, OnePlace
  <2>3. \A q, i : \A x \in its2 : InBatch(b2, q, i) => b2[q][i].event # x.event
    BY SMT DEF Writes, NoTwins, OnePlace
  <2> QED BY <2>1, <2>2, <2>3 DEF OnePlace
<1>3. Numbered(sk, b2, its2, em)
  BY SMT DEF Writes, Numbered
<1> QED BY <1>1, <1>2, <1>3

LEMMA PushKeepsWhole ==
  ASSUME NEW sk, NEW b, NEW its, NEW em, NEW em2 \in [Requests -> Nat], Whole(sk, b, its, em),
         NEW r \in Requests, NEW p \in Procs, NEW e \in Events, e.req = r, e.n = em[r],
         em2[r] = em[r] + 1, \A q \in Requests : em[q] <= em2[q],
         NEW sk2, sk2 = [sk EXCEPT ![p] = Append(sk[p], e)]
  PROVE  Whole(sk2, b, its, em2)
<1>0. Whole(sk, b, its, em2)
  BY CountedOnly
<1>10. NoTwins(sk, b, its) /\ OnePlace(sk, b, its) /\ Numbered(sk, b, its, em2)
  BY <1>0 DEF Whole
<1>1. /\ sk \in [Procs -> Seq(Events)] /\ sk[p] \in Seq(Events) /\ Len(sk[p]) \in Nat
      /\ em[r] \in Nat
  BY DEF Whole
<1>2. /\ Append(sk[p], e) \in Seq(Events) /\ Len(Append(sk[p], e)) = Len(sk[p]) + 1
      /\ \A i \in 1..Len(sk[p]) : Append(sk[p], e)[i] = sk[p][i]
      /\ Append(sk[p], e)[Len(sk[p]) + 1] = e
  BY <1>1
<1>3. sk2 \in [Procs -> Seq(Events)] /\ \A q \in Procs : q # p => sk2[q] = sk[q]
  BY <1>1, <1>2
<1>4. \A q, i : InSink(sk2, q, i) <=>
                  InSink(sk, q, i) \/ (q = p /\ i = Len(sk[p]) + 1)
  BY <1>1, <1>2, <1>3 DEF InSink
<1>5. /\ \A q, i : InSink(sk, q, i) => sk2[q][i] = sk[q][i]
      /\ sk2[p][Len(sk[p]) + 1] = e
  BY <1>1, <1>2, <1>3 DEF InSink
<1>6. ~InSink(sk, p, Len(sk[p]) + 1)
  BY <1>1 DEF InSink
\* The event is nowhere yet.
<1>11. Numbered(sk, b, its, em)
  BY DEF Whole
<1>7. /\ \A q, i : InSink(sk, q, i) => sk[q][i] # e
      /\ \A q, i : InBatch(b, q, i) => b[q][i].event # e
      /\ \A x \in its : x.event # e
  BY <1>1, <1>11 DEF Numbered
<1>8. e.n < em2[e.req]
  BY <1>1
<1>9. NoTwins(sk2, b, its) /\ OnePlace(sk2, b, its) /\ Numbered(sk2, b, its, em2)
  <2>1. Pushes(sk, b, its, sk2, p, Len(sk[p]) + 1, e)
    BY <1>4, <1>5, <1>6, <1>7 DEF Pushes
  <2> QED BY <1>8, <1>10, <2>1, OneIsPushed
<1> QED BY <1>0, <1>3, <1>9 DEF Whole

\* A flush moves a whole sink into the batch of its request.
LEMMA DrainKeepsWhole ==
  ASSUME NEW sk, NEW b, NEW its, NEW em, Whole(sk, b, its, em),
         NEW r \in Requests, NEW p \in Procs, NEW bt \in Seq(Item), Len(bt) = Len(sk[p]),
         \A i \in 1..Len(bt) : bt[i].event = sk[p][i],
         NEW sk2, sk2 = [sk EXCEPT ![p] = << >>],
         NEW b2, b2 = [b EXCEPT ![r] = bt]
  PROVE  Whole(sk2, b2, its, em)
<1>10. NoTwins(sk, b, its) /\ OnePlace(sk, b, its) /\ Numbered(sk, b, its, em)
  BY DEF Whole
<1>1. /\ sk \in [Procs -> Seq(Events)] /\ b \in [Requests -> Seq(Item)]
      /\ Len(<< >>) = 0 /\ << >> \in Seq(Events)
  BY DEF Whole
<1>2. /\ sk2 \in [Procs -> Seq(Events)] /\ b2 \in [Requests -> Seq(Item)]
      /\ \A q \in Procs : sk2[q] = IF q = p THEN << >> ELSE sk[q]
      /\ \A q \in Requests : b2[q] = IF q = r THEN bt ELSE b[q]
  BY <1>1
<1>3. /\ \A q, i : InSink(sk2, q, i) => InSink(sk, q, i) /\ q # p /\ sk2[q][i] = sk[q][i]
      /\ \A q, i : InBatch(b2, q, i) =>
           \/ q = r /\ InSink(sk, p, i) /\ b2[q][i].event = sk[p][i]
           \/ q # r /\ InBatch(b, q, i) /\ b2[q][i] = b[q][i]
  BY <1>1, <1>2 DEF InSink, InBatch
<1>4. NoTwins(sk2, b2, its) /\ OnePlace(sk2, b2, its) /\ Numbered(sk2, b2, its, em)
  <2>1. Drains(sk, b, sk2, b2, p, r)
    BY <1>3 DEF Drains
  <2> QED BY <1>10, <2>1, AllAreDrained
<1> QED BY <1>2, <1>4 DEF Whole

\* A batch write stores some of the first items of a batch, which loses them
\* all; a flush that ends early stores none.
LEMMA WriteKeepsWhole ==
  ASSUME NEW sk, NEW b, NEW its, NEW em, Whole(sk, b, its, em),
         NEW r \in Requests, NEW n \in 0..Len(b[r]),
         NEW its2, its2 \subseteq its \union {b[r][i] : i \in 1..n},
         NEW b2, b2 = [b EXCEPT ![r] = SubSeq(b[r], n + 1, Len(b[r]))]
  PROVE  Whole(sk, b2, its2, em)
<1>10. NoTwins(sk, b, its) /\ OnePlace(sk, b, its) /\ Numbered(sk, b, its, em)
  BY DEF Whole
<1>1. b \in [Requests -> Seq(Item)] /\ b[r] \in Seq(Item) /\ Len(b[r]) \in Nat /\ n \in Nat
  BY DEF Whole
<1>2. /\ SubSeq(b[r], n + 1, Len(b[r])) \in Seq(Item)
      /\ Len(SubSeq(b[r], n + 1, Len(b[r]))) = Len(b[r]) - n
      /\ \A i \in 1..(Len(b[r]) - n) : SubSeq(b[r], n + 1, Len(b[r]))[i] = b[r][n + i]
  BY <1>1
<1>3. /\ b2 \in [Requests -> Seq(Item)] /\ \A q \in Requests : q # r => b2[q] = b[q]
      /\ b2[r] = SubSeq(b[r], n + 1, Len(b[r]))
  BY <1>1, <1>2
<1>4. \A q, i : InBatch(b2, q, i) =>
        \/ q # r /\ InBatch(b, q, i) /\ b2[q][i] = b[q][i]
        \/ q = r /\ i \in Nat \ {0} /\ InBatch(b, q, n + i) /\ b2[q][i] = b[q][n + i]
  BY <1>1, <1>2, <1>3 DEF InBatch
<1>5. \A x \in its2 : x \in its \/ \E i \in 1..n : InBatch(b, r, i) /\ x = b[r][i]
  BY <1>1 DEF InBatch
<1>6. NoTwins(sk, b2, its2) /\ OnePlace(sk, b2, its2) /\ Numbered(sk, b2, its2, em)
  <2>1. Writes(b, its, b2, its2, r, n)
    BY <1>4, <1>5 DEF Writes
  <2> QED BY <1>1, <1>10, <2>1, SomeAreWritten
<1>7. its2 \subseteq Item
  <2>1. \A i \in 1..n : b[r][i] \in Item
    BY <1>1
  <2>2. its \subseteq Item
    BY DEF Whole
  <2> QED BY <2>1, <2>2
<1> QED BY <1>3, <1>6, <1>7 DEF Whole

ToFlush == {"handle", "respond"}
FeedInv == TypeOK /\ Whole(sink, Batches, items, Emitted) /\ NothingLeftBehind

\* A step of a request leaves the others alone; what is left is about its own
\* batch, number of events, and whether it is still to flush.
LEMMA QuietKeepsFeed ==
  ASSUME FeedInv, TypeOK', UNCHANGED <<sink, items>>,
         \A q \in Requests : req'[q].batch = req[q].batch /\ req'[q].emitted = req[q].emitted,
         \A q \in Requests : req[q].pc \in ToFlush => req'[q].pc \in ToFlush
  PROVE  FeedInv'
<1>1. Batches' = Batches /\ Emitted' = Emitted
  BY DEF Batches, Emitted
<1>2. Whole(sink, Batches, items, Emitted)'
  BY <1>1 DEF FeedInv
<1>3. NothingLeftBehind'
  BY DEF FeedInv, NothingLeftBehind, ToFlush
<1> QED BY <1>2, <1>3 DEF FeedInv

LEMMA QuietStepsKeepFeed ==
  ASSUME FeedInv, NEW r \in Requests,
         \/ Hit(r) \/ Increment(r) \/ OpenWindow(r) \/ WindowIsOpen(r) \/ Add(r) \/ Respond(r)
  PROVE  FeedInv'
<1>1. /\ TypeOK' /\ req \in [Requests -> Request] /\ UNCHANGED <<sink, items>>
  BY TypeStep DEF FeedInv, Next, Step, TypeOK, Hit, Increment, OpenWindow, WindowIsOpen, Add, Respond
<1>2. /\ \A q \in Requests : req'[q].batch = req[q].batch /\ req'[q].emitted = req[q].emitted
      /\ \A q \in Requests : req[q].pc \in ToFlush => req'[q].pc \in ToFlush
  <2>1. CASE Hit(r)
    BY <1>1, <2>1 DEF Hit, Request, ToFlush
  <2>2. CASE Increment(r)
    BY <1>1, <2>2 DEF Increment, Request, ToFlush
  <2>3. CASE WindowIsOpen(r)
    BY <1>1, <2>3 DEF WindowIsOpen, Request, ToFlush
  <2>4. CASE Respond(r)
    BY <1>1, <2>4 DEF Respond, Request, ToFlush
  <2>5. ASSUME NEW count, Decided(r, count), req[r].pc \in {"open", "add"}
        PROVE  /\ \A q \in Requests : req'[q].batch = req[q].batch /\ req'[q].emitted = req[q].emitted
               /\ \A q \in Requests : req[q].pc \in ToFlush => req'[q].pc \in ToFlush
    <3>1. CASE count <= Max
      <4>1. req' = [req EXCEPT ![r].pc = "handle", ![r].admitted = TRUE, ![r].at = now,
                               ![r].seen = 0]
        BY <2>5, <3>1 DEF Decided
      <4> QED BY <1>1, <4>1 DEF Request, ToFlush
    <3>2. CASE ~(count <= Max)
      <4>1. req' = [req EXCEPT ![r].pc = "respond", ![r].end = 0, ![r].seen = 0]
        BY <2>5, <3>2 DEF Decided
      <4> QED BY <1>1, <4>1 DEF Request, ToFlush
    <3> QED BY <3>1, <3>2
  <2>6. CASE OpenWindow(r) \/ Add(r)
    BY <2>5, <2>6 DEF OpenWindow, Add
  <2> QED BY <2>1, <2>2, <2>3, <2>4, <2>6
<1> QED BY <1>1, <1>2, QuietKeepsFeed

\* An event is pushed by a request that is still to flush its process's sink.
LEMMA PushesKeepFeed ==
  ASSUME FeedInv, NEW r \in Requests, Emit(r) \/ Fails(r)
  PROVE  FeedInv'
<1> DEFINE p == Proc[r]
           e == [req |-> r, n |-> req[r].emitted, time |-> now]
<1>1. /\ TypeOK /\ TypeOK' /\ req \in [Requests -> Request] /\ items' = items /\ Pushed(r)
      /\ p \in Procs /\ e \in Events
  BY TypeStep, EdgeAssumption DEF FeedInv, Next, Step, TypeOK, Emit, Fails, Request, Events
<1>2. /\ \A q \in Requests : req'[q].batch = req[q].batch
      /\ \A q \in Requests : q # r => req'[q] = req[q]
      /\ req'[r].emitted = req[r].emitted + 1 /\ req'[r].pc \in ToFlush
  <2>1. CASE Emit(r)
    BY <1>1, <2>1 DEF Emit, Request, ToFlush
  <2>2. CASE Fails(r)
    BY <1>1, <2>2 DEF Fails, Request, ToFlush
  <2> QED BY <2>1, <2>2
<1>3. /\ Batches' = Batches /\ Emitted' \in [Requests -> Nat]
      /\ Emitted[r] = req[r].emitted /\ Emitted'[r] = req[r].emitted + 1
      /\ \A q \in Requests : Emitted[q] <= Emitted'[q]
  <2>1. \A q \in Requests : req[q].emitted \in Nat /\ req'[q].emitted \in Nat
    <3>1. req' \in [Requests -> Request] /\ req \in [Requests -> Request]
      BY <1>1 DEF TypeOK
    <3>2. \A k \in Request : k.emitted \in Nat
      BY EdgeAssumption DEF Request
    <3> QED BY <3>1, <3>2
  <2> QED BY <1>2, <2>1 DEF Batches, Emitted
<1>4. sink' = [sink EXCEPT ![p] = Append(sink[p], e)] \/ sink' = sink
  BY <1>1 DEF Pushed
<1>5. e.req = r /\ e.n = req[r].emitted
  OBVIOUS
<1> HIDE DEF e, p
<1>6. Whole(sink', Batches, items, Emitted')
  <2>1. Whole(sink, Batches, items, Emitted)
    BY DEF FeedInv
  <2>2. CASE sink' = sink
    BY <1>3, <2>1, <2>2, CountedOnly
  <2>3. CASE sink' = [sink EXCEPT ![p] = Append(sink[p], e)]
    BY <1>1, <1>3, <1>5, <2>1, <2>3, PushKeepsWhole
  <2> QED BY <1>4, <2>2, <2>3
<1>7. NothingLeftBehind'
  <2> SUFFICES ASSUME NEW q \in Procs, sink'[q] # << >>
               PROVE  \E s \in Requests : Proc[s] = q /\ req'[s].pc \in ToFlush
    BY DEF NothingLeftBehind, ToFlush
  <2>1. CASE q = p
    BY <1>2, <2>1 DEF p
  <2>2. CASE q # p
    <3>1. sink'[q] = sink[q]
      BY <1>1, <1>4, <2>2 DEF TypeOK
    <3>2. PICK s \in Requests : Proc[s] = q /\ req[s].pc \in ToFlush
      BY <3>1 DEF FeedInv, NothingLeftBehind, ToFlush
    <3> QED BY <1>2, <2>2, <3>2 DEF p
  <2> QED BY <2>1, <2>2
<1> QED BY <1>1, <1>3, <1>6, <1>7 DEF FeedInv

\* A flush takes the whole sink, so nothing needs whoever else is to flush it.
LEMMA DrainKeepsFeed ==
  ASSUME FeedInv, NEW r \in Requests, Drain(r)
  PROVE  FeedInv'
<1> DEFINE p == Proc[r]
           bt == Batch(p)
<1>1. /\ TypeOK /\ TypeOK' /\ req \in [Requests -> Request] /\ items' = items
      /\ p \in Procs /\ sink[p] \in Seq(Events) /\ Len(sink[p]) \in Nat
      /\ sink' = [sink EXCEPT ![p] = << >>] /\ Pid[p] \in Nat
      /\ sink \in [Procs -> Seq(Events)]
  <2>1. TypeOK /\ TypeOK'
    BY TypeStep DEF FeedInv, Next, Step
  <2>2. p \in Procs /\ Pid[p] \in Nat
    BY EdgeAssumption
  <2>3. req \in [Requests -> Request] /\ sink \in [Procs -> Seq(Events)]
    BY <2>1 DEF TypeOK
  <2>4. items' = items /\ sink' = [sink EXCEPT ![p] = << >>]
    BY DEF Drain
  <2> HIDE DEF p
  <2> QED BY <2>1, <2>2, <2>3, <2>4
<1>2. /\ bt \in Seq(Item) /\ Len(bt) = Len(sink[p])
      /\ \A i \in 1..Len(bt) : bt[i].event = sink[p][i]
  <2>1. \A i \in 1..Len(sink[p]) :
          [event |-> sink[p][i], seq |-> i - 1, pid |-> Pid[p]] \in Item
    BY <1>1 DEF Item
  <2> HIDE DEF p
  <2> QED BY <1>1, <2>1 DEF Batch
<1> HIDE DEF bt
<1>3. /\ \A q \in Requests : req'[q].batch = IF q = r THEN bt ELSE req[q].batch
      /\ \A q \in Requests : req'[q].emitted = req[q].emitted
      /\ \A q \in Requests : q # r => req'[q] = req[q]
  BY <1>1 DEF Drain, Request, bt
<1> HIDE DEF p
<1>4. Batches' = [Batches EXCEPT ![r] = bt] /\ Emitted' = Emitted
  BY <1>3 DEF Batches, Emitted
<1>5. Whole(sink', Batches', items, Emitted)
  <2>1. Whole(sink, Batches, items, Emitted)
    BY DEF FeedInv
  <2> QED BY <1>1, <1>2, <1>4, <2>1, DrainKeepsWhole
<1>6. NothingLeftBehind'
  <2> SUFFICES ASSUME NEW q \in Procs, sink'[q] # << >>
               PROVE  \E s \in Requests : Proc[s] = q /\ req'[s].pc \in ToFlush
    BY DEF NothingLeftBehind, ToFlush
  <2>1. q # p /\ sink'[q] = sink[q]
    BY <1>1
  <2>2. PICK s \in Requests : Proc[s] = q /\ req[s].pc \in ToFlush
    BY <2>1 DEF FeedInv, NothingLeftBehind, ToFlush
  <2> QED BY <1>3, <2>1, <2>2 DEF p
<1> QED BY <1>1, <1>4, <1>5, <1>6 DEF FeedInv

LEMMA WritesKeepFeed ==
  ASSUME FeedInv, NEW r \in Requests, WriteChunk(r) \/ FlushEnds(r)
  PROVE  FeedInv'
<1> DEFINE batch == req[r].batch
<1>1. /\ TypeOK /\ TypeOK' /\ req \in [Requests -> Request] /\ sink' = sink
      /\ req[r].pc = "write"
      /\ batch \in Seq(Item) /\ Len(batch) \in Nat /\ Batches[r] = batch
  <2>1. TypeOK /\ TypeOK'
    BY TypeStep DEF FeedInv, Next, Step
  <2>2. req \in [Requests -> Request] /\ req[r] \in Request
    BY <2>1 DEF TypeOK
  <2>3. batch \in Seq(Item) /\ Batches[r] = batch
    BY <2>2 DEF Request, Batches
  <2>4. sink' = sink /\ req[r].pc = "write"
    BY DEF WriteChunk, FlushEnds
  <2> HIDE DEF batch
  <2> QED BY <2>1, <2>2, <2>3, <2>4
<1>2. PICK n \in 0..Len(batch) :
        /\ items' \subseteq items \union {batch[i] : i \in 1..n}
        /\ \A q \in Requests :
             req'[q].batch = IF q = r THEN SubSeq(batch, n + 1, Len(batch)) ELSE req[q].batch
        /\ \A q \in Requests : req'[q].emitted = req[q].emitted
        /\ \A q \in Requests : q # r => req'[q] = req[q]
  <2>1. CASE WriteChunk(r)
    <3>1. PICK n \in 0..Len(batch) : n = IF Chunk < Len(batch) THEN Chunk ELSE Len(batch)
      BY <1>1, EdgeAssumption
    <3>2. /\ \E written \in SUBSET {batch[i] : i \in 1..n} : Put(written)
          /\ req' = [req EXCEPT ![r].batch = SubSeq(batch, n + 1, Len(batch))]
      BY <2>1, <3>1 DEF WriteChunk
    <3>3. items' \subseteq items \union {batch[i] : i \in 1..n}
      BY <3>2 DEF Put
    <3>4. PICK rest : rest = SubSeq(batch, n + 1, Len(batch))
      OBVIOUS
    <3>5. req' = [req EXCEPT ![r].batch = rest]
      BY <3>2, <3>4
    <3>6. /\ \A q \in Requests : req'[q].batch = IF q = r THEN rest ELSE req[q].batch
          /\ \A q \in Requests : req'[q].emitted = req[q].emitted
          /\ \A q \in Requests : q # r => req'[q] = req[q]
      BY <1>1, <3>5 DEF Request
    <3> QED BY <3>3, <3>4, <3>6
  <2>2. CASE FlushEnds(r)
    <3>1. items' = items /\ Len(batch) \in 0..Len(batch)
      BY <1>1, <2>2 DEF FlushEnds
    <3>2. SubSeq(batch, Len(batch) + 1, Len(batch)) = << >>
      BY <1>1
    <3>3. /\ \A q \in Requests : req'[q].batch = IF q = r THEN << >> ELSE req[q].batch
          /\ \A q \in Requests : req'[q].emitted = req[q].emitted
          /\ \A q \in Requests : q # r => req'[q] = req[q]
      BY <1>1, <2>2 DEF FlushEnds, Request
    <3> QED BY <3>1, <3>2, <3>3
  <2> QED BY <2>1, <2>2
<1> HIDE DEF batch
<1>4. Batches' = [Batches EXCEPT ![r] = SubSeq(batch, n + 1, Len(batch))] /\ Emitted' = Emitted
  <2>1. PICK rest : rest = SubSeq(batch, n + 1, Len(batch))
    OBVIOUS
  <2>2. Batches' = [Batches EXCEPT ![r] = rest]
    BY <1>2, <2>1 DEF Batches
  <2> QED BY <1>2, <2>1, <2>2 DEF Emitted
<1>5. Whole(sink, Batches', items', Emitted)
  <2>1. Whole(sink, Batches, items, Emitted) /\ n \in 0..Len(Batches[r])
    BY <1>1 DEF FeedInv
  <2>2. items' \subseteq items \union {Batches[r][i] : i \in 1..n}
    BY <1>1, <1>2
  <2>3. Batches' = [Batches EXCEPT ![r] = SubSeq(Batches[r], n + 1, Len(Batches[r]))]
    BY <1>1, <1>4
  <2> HIDE DEF Batches
  <2> QED BY <2>1, <2>2, <2>3, WriteKeepsWhole
<1>6. NothingLeftBehind'
  <2> SUFFICES ASSUME NEW q \in Procs, sink[q] # << >>
               PROVE  \E s \in Requests : Proc[s] = q /\ req'[s].pc \in ToFlush
    BY <1>1 DEF NothingLeftBehind, ToFlush
  <2>1. PICK s \in Requests : Proc[s] = q /\ req[s].pc \in ToFlush
    BY DEF FeedInv, NothingLeftBehind, ToFlush
  <2> QED BY <1>1, <1>2, <2>1 DEF ToFlush
<1> QED BY <1>1, <1>4, <1>5, <1>6 DEF FeedInv

LEMMA FeedInit == Init => FeedInv
<1> SUFFICES ASSUME Init PROVE FeedInv
  OBVIOUS
<1>1. TypeOK
  BY InitHolds DEF LInv
<1>2. /\ \A p \in Procs : sink[p] = << >>
      /\ \A r \in Requests : req[r].batch = << >> /\ req[r].emitted = 0
      /\ items = {} /\ Len(<< >>) = 0 /\ << >> \in Seq(Item)
  BY DEF Init, Arriving
<1>3. /\ \A p, i : ~InSink(sink, p, i)
      /\ \A r, i : ~InBatch(Batches, r, i)
  BY <1>2 DEF InSink, InBatch, Batches
<1>4. /\ sink \in [Procs -> Seq(Events)] /\ Batches \in [Requests -> Seq(Item)]
      /\ items \subseteq Item /\ Emitted \in [Requests -> Nat]
  BY <1>1, <1>2 DEF TypeOK, Batches, Emitted
<1>5. NoTwins(sink, Batches, items) /\ OnePlace(sink, Batches, items)
      /\ Numbered(sink, Batches, items, Emitted)
  BY <1>2, <1>3 DEF NoTwins, OnePlace, Numbered
<1>6. NothingLeftBehind
  BY <1>2 DEF NothingLeftBehind
<1> QED BY <1>1, <1>4, <1>5, <1>6 DEF FeedInv, Whole

LEMMA FeedStep == FeedInv /\ [Next]_vars => FeedInv'
<1> SUFFICES ASSUME FeedInv, [Next]_vars PROVE FeedInv'
  OBVIOUS
<1>1. CASE Tick \/ Clean \/ UNCHANGED vars
  <2>1. TypeOK' /\ UNCHANGED <<req, sink, items>>
    BY <1>1, TypeStep DEF FeedInv, Tick, Clean, vars
  <2> QED BY <2>1, QuietKeepsFeed
<1>2. ASSUME NEW r \in Requests, Step(r) PROVE FeedInv'
  BY <1>2, QuietStepsKeepFeed, PushesKeepFeed, DrainKeepsFeed, WritesKeepFeed DEF Step
<1> QED BY <1>1, <1>2 DEF Next

\* Whether an event is in a place, as the property finds it.
HeldInSink(e, h) == \E p, i : InSink(sink, p, i) /\ sink[p][i] = e /\ h = <<"sink", p, i>>
HeldInBatch(e, h) ==
  \E r, i : InBatch(Batches, r, i) /\ Batches[r][i].event = e /\ h = <<"batch", r, i>>
HeldInItem(e, h) == \E x \in items : x.event = e /\ h = <<"item", x.pid, x.seq>>

LEMMA HoldersAre ==
  ASSUME NEW e, NEW h
  PROVE  h \in Holders(e) <=> HeldInSink(e, h) \/ HeldInBatch(e, h) \/ HeldInItem(e, h)
<1> DEFINE Sink(p) == {<<"sink", p, i>> : i \in {j \in 1..Len(sink[p]) : sink[p][j] = e}}
           Lot(r) == {<<"batch", r, i>> : i \in {j \in 1..Len(req[r].batch) : req[r].batch[j].event = e}}
           Stored == {<<"item", i.pid, i.seq>> : i \in {j \in items : j.event = e}}
<1>1. \A r \in Requests : Batches[r] = req[r].batch
  BY DEF Batches
<1>2. (\E p \in Procs : h \in Sink(p)) <=> HeldInSink(e, h)
  <2>1. ASSUME NEW p \in Procs, h \in Sink(p) PROVE HeldInSink(e, h)
    <3>1. PICK i \in 1..Len(sink[p]) : sink[p][i] = e /\ h = <<"sink", p, i>>
      BY <2>1
    <3> QED BY <3>1 DEF HeldInSink, InSink
  <2>2. ASSUME NEW p, NEW i, InSink(sink, p, i), sink[p][i] = e, h = <<"sink", p, i>>
        PROVE  p \in Procs /\ h \in Sink(p)
    BY <2>2 DEF InSink
  <2> QED BY <2>1, <2>2 DEF HeldInSink
<1>3. (\E r \in Requests : h \in Lot(r)) <=> HeldInBatch(e, h)
  <2>1. ASSUME NEW r \in Requests, h \in Lot(r) PROVE HeldInBatch(e, h)
    <3>1. PICK i \in 1..Len(req[r].batch) : req[r].batch[i].event = e /\ h = <<"batch", r, i>>
      BY <2>1
    <3> QED BY <1>1, <3>1 DEF HeldInBatch, InBatch
  <2>2. ASSUME NEW r, NEW i, InBatch(Batches, r, i), Batches[r][i].event = e, h = <<"batch", r, i>>
        PROVE  r \in Requests /\ h \in Lot(r)
    BY <1>1, <2>2 DEF InBatch
  <2> QED BY <2>1, <2>2 DEF HeldInBatch
<1>4. h \in Stored <=> HeldInItem(e, h)
  BY DEF HeldInItem
<1>5. h \in Holders(e) <=> (\E p \in Procs : h \in Sink(p)) \/ (\E r \in Requests : h \in Lot(r))
                           \/ h \in Stored
  <2>1. Holders(e) = (UNION {Sink(p) : p \in Procs}) \union (UNION {Lot(r) : r \in Requests})
                       \union Stored
    BY DEF Holders
  <2>2. h \in UNION {Sink(p) : p \in Procs} <=> \E p \in Procs : h \in Sink(p)
    BY Zenon
  <2>3. h \in UNION {Lot(r) : r \in Requests} <=> \E r \in Requests : h \in Lot(r)
    BY Zenon
  <2>4. h \in Holders(e) <=> h \in UNION {Sink(p) : p \in Procs} \/ h \in UNION {Lot(r) : r \in Requests}
                 \/ h \in Stored
    <3>1. PICK A, B, C : /\ A = UNION {Sink(p) : p \in Procs}
                         /\ B = UNION {Lot(r) : r \in Requests} /\ C = Stored
      OBVIOUS
    <3> HIDE DEF Sink, Lot, Stored
    <3>2. Holders(e) = A \union B \union C
      BY <2>1, <3>1, Zenon
    <3>3. h \in Holders(e) <=> h \in A \/ h \in B \/ h \in C
      BY <3>2
    <3> QED BY <3>1, <3>3
  <2> QED BY <2>2, <2>3, <2>4, Zenon
<1> QED BY <1>2, <1>3, <1>4, <1>5

LEMMA KnownAre ==
  ASSUME NEW e \in Known
  PROVE  \E h : HeldInSink(e, h) \/ HeldInBatch(e, h) \/ HeldInItem(e, h)
<1> DEFINE Sink(p) == {sink[p][i] : i \in 1..Len(sink[p])}
           Lot(r) == {req[r].batch[i].event : i \in 1..Len(req[r].batch)}
           Stored == {i.event : i \in items}
<1>1. (\E p \in Procs : e \in Sink(p)) \/ (\E r \in Requests : e \in Lot(r)) \/ e \in Stored
  <2>1. Known = (UNION {Sink(p) : p \in Procs}) \union (UNION {Lot(r) : r \in Requests}) \union Stored
    BY DEF Known
  <2>2. e \in UNION {Sink(p) : p \in Procs} <=> \E p \in Procs : e \in Sink(p)
    BY Zenon
  <2>3. e \in UNION {Lot(r) : r \in Requests} <=> \E r \in Requests : e \in Lot(r)
    BY Zenon
  <2>4. e \in Known <=> e \in UNION {Sink(p) : p \in Procs} \/ e \in UNION {Lot(r) : r \in Requests}
                 \/ e \in Stored
    <3>1. PICK A, B, C : /\ A = UNION {Sink(p) : p \in Procs}
                         /\ B = UNION {Lot(r) : r \in Requests} /\ C = Stored
      OBVIOUS
    <3> HIDE DEF Sink, Lot, Stored
    <3>2. Known = A \union B \union C
      BY <2>1, <3>1, Zenon
    <3>3. e \in Known <=> e \in A \/ e \in B \/ e \in C
      BY <3>2
    <3> QED BY <3>1, <3>3
  <2> QED BY <2>2, <2>3, <2>4, Zenon
<1>2. ASSUME NEW p \in Procs, e \in Sink(p) PROVE \E h : HeldInSink(e, h)
  <2>1. PICK i \in 1..Len(sink[p]) : sink[p][i] = e
    BY <1>2
  <2>2. HeldInSink(e, <<"sink", p, i>>)
    BY <2>1 DEF HeldInSink, InSink
  <2> QED BY <2>2
<1>3. ASSUME NEW r \in Requests, e \in Lot(r) PROVE \E h : HeldInBatch(e, h)
  <2>1. PICK i \in 1..Len(req[r].batch) : req[r].batch[i].event = e
    BY <1>3
  <2>2. Batches[r] = req[r].batch
    BY DEF Batches
  <2>3. HeldInBatch(e, <<"batch", r, i>>)
    BY <2>1, <2>2 DEF HeldInBatch, InBatch
  <2> QED BY <2>3
<1>4. ASSUME e \in Stored PROVE \E h : HeldInItem(e, h)
  <2>1. PICK x \in items : x.event = e
    BY <1>4
  <2>2. HeldInItem(e, <<"item", x.pid, x.seq>>)
    BY <2>1 DEF HeldInItem
  <2> QED BY <2>2
<1> HIDE DEF Sink, Lot, Stored
<1> QED BY <1>1, <1>2, <1>3, <1>4

\* An event in one place has one holder.
LEMMA OneHolder ==
  ASSUME FeedInv, NEW e \in Known
  PROVE  Cardinality(Holders(e)) = 1
<1>1. NoTwins(sink, Batches, items) /\ OnePlace(sink, Batches, items)
  BY DEF FeedInv, Whole
<1>2. \E h : Holders(e) = {h}
  <2>1. \E h : h \in Holders(e)
    BY HoldersAre, KnownAre
  <2>2. ASSUME NEW h, NEW g, h \in Holders(e), g \in Holders(e)
        PROVE  h = g
    <3>1. /\ HeldInSink(e, h) \/ HeldInBatch(e, h) \/ HeldInItem(e, h)
          /\ HeldInSink(e, g) \/ HeldInBatch(e, g) \/ HeldInItem(e, g)
      BY <2>2, HoldersAre
    <3> QED BY <1>1, <3>1 DEF NoTwins, OnePlace, HeldInSink, HeldInBatch, HeldInItem
  <2> QED BY <2>1, <2>2
<1> QED BY <1>2, FS_Singleton

\* The feed is whole: an event is pending, in what is left of one batch, or in
\* one item, whoever flushes whose events and whatever a batch write leaves out;
\* and what is pending has a request that is still to flush it.
THEOREM FeedCorrect == Spec => []FeedIsWhole
<1>1. FeedInv => FeedIsWhole
  BY OneHolder DEF FeedIsWhole, WrittenOnce, FeedInv
<1> QED BY <1>1, FeedInit, FeedStep, PTL DEF Spec
=============================================================================
