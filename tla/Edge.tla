-------------------------------- MODULE Edge --------------------------------
(***************************************************************************)
(* The edge of a request: the rate limit that admits it (src/src/limits.rs *)
(* over auth_store.rs) and the public log feed that every response flushes *)
(* (public_logs.rs, the flush_after layer of main.rs and lib.rs).          *)
(*                                                                         *)
(* A request makes one hit on one subject's counter row, is handled when   *)
(* it is admitted, and flushes what its process has buffered.  Requests    *)
(* share the row across processes and the sink within one.  The clock is   *)
(* read twice for a hit, once for the end of the window and once by the    *)
(* increment, and the increment is two conditional updates.                *)
(***************************************************************************)
EXTENDS Integers, FiniteSets, Sequences

CONSTANTS
  Requests,
  Procs,
  Proc,         \* the process each request runs in
  Pid,          \* the process ids: instances of the function may share one
  Max,          \* Limit.max
  Window,       \* Limit.window, in ticks
  MaxPending,   \* MAX_PENDING
  Chunk,        \* items in one batch write
  MaxEvents,    \* bound on the events one request emits
  MaxTime       \* bound on the clock

ASSUME EdgeAssumption ==
  /\ Proc \in [Requests -> Procs] /\ Pid \in [Procs -> Nat]
  /\ Max \in Nat \ {0} /\ Window \in Nat \ {0}
  /\ MaxPending \in Nat /\ Chunk \in Nat \ {0} /\ MaxEvents \in Nat /\ MaxTime \in Nat

VARIABLES
  now,
  row,      \* the counter row of the subject; expires = 0 when there is none
  req,      \* where each request stands
  sink,     \* the events each process has pending
  items     \* the feed's table

vars == <<now, row, req, sink, items>>
-----------------------------------------------------------------------------
PC == {"idle", "hit", "open", "add", "handle", "respond", "write", "done"}
Events == [req : Requests, n : 0..MaxEvents, time : 0..MaxTime]
Item == [event : Events, seq : Nat, pid : Nat]
NoRow == [expires |-> 0, count |-> 0]

(* A request: the window's end and the clock its increment has read,        *)
(* whether and when its hit was admitted, the number of events it has       *)
(* emitted, and what is left of the batch that it flushes.                  *)
Request == [pc : PC, end : Nat, seen : Nat,
            admitted : BOOLEAN, at : Nat, emitted : 0..MaxEvents, batch : Seq(Item)]
Arriving == [pc |-> "idle", end |-> 0, seen |-> 0, admitted |-> FALSE, at |-> 0,
             emitted |-> 0, batch |-> << >>]

Init ==
  /\ now = 0
  /\ row = NoRow
  /\ req = [r \in Requests |-> Arriving]
  /\ sink = [p \in Procs |-> << >>]
  /\ items = {}

Tick ==
  /\ now < MaxTime /\ now' = now + 1
  /\ UNCHANGED <<row, req, sink, items>>
-----------------------------------------------------------------------------
(* hit: the end of the window the clock is in.                              *)
WindowEnd(t) == t - (t % Window) + Window
Hit(r) ==
  /\ req[r].pc = "idle"
  /\ req' = [req EXCEPT ![r].pc = "hit", ![r].end = WindowEnd(now)]
  /\ UNCHANGED <<now, row, sink, items>>

Increment(r) ==
  /\ req[r].pc = "hit"
  /\ req' = [req EXCEPT ![r].pc = "open", ![r].seen = now]
  /\ UNCHANGED <<now, row, sink, items>>

(* The count that an update returned decides.  What a request has read and  *)
(* needs no more is forgotten.                                              *)
Decided(r, count) ==
  IF count <= Max
  THEN req' = [req EXCEPT ![r].pc = "handle", ![r].admitted = TRUE, ![r].at = now,
                          ![r].seen = 0]
  ELSE req' = [req EXCEPT ![r].pc = "respond", ![r].end = 0, ![r].seen = 0]

(* The first update starts a window when there is no row or it has expired  *)
(* by the clock that the increment read.                                    *)
ExpiresAtItsEnd(r) == row.expires <= req[r].end   \* faulty variant
Expired(r) == row.expires <= req[r].seen
Started(r) == row' = [expires |-> req[r].end, count |-> 1]
OpenWindow(r) ==
  /\ req[r].pc = "open" /\ Expired(r)
  /\ Started(r) /\ Decided(r, 1)
  /\ UNCHANGED <<now, sink, items>>

WindowIsOpen(r) ==
  /\ req[r].pc = "open" /\ ~Expired(r)
  /\ req' = [req EXCEPT ![r].pc = "add"]
  /\ UNCHANGED <<now, row, sink, items>>

(* The second update adds to the row the first one has met.                 *)
Added == row' = [row EXCEPT !.count = @ + 1]
Add(r) ==
  /\ req[r].pc = "add" /\ ~Expired(r)
  /\ Added /\ Decided(r, row.count + 1)
  /\ UNCHANGED <<now, sink, items>>

(* Sink::push drops what a full sink cannot take.                           *)
PushedOver(r) ==   \* faulty variant: one too many
  LET p == Proc[r]
      e == [req |-> r, n |-> req[r].emitted, time |-> now]
  IN sink' = IF Len(sink[p]) <= MaxPending THEN [sink EXCEPT ![p] = Append(@, e)] ELSE sink
Pushed(r) ==
  LET p == Proc[r]
      e == [req |-> r, n |-> req[r].emitted, time |-> now]
  IN sink' = IF Len(sink[p]) < MaxPending THEN [sink EXCEPT ![p] = Append(@, e)] ELSE sink

(* Any other answer of the store closes the request and is logged as a      *)
(* storage_error: the update may have taken effect (its answer lost), and   *)
(* the second one is refused when the row expired or was cleaned meanwhile. *)
Fails(r) ==
  /\ req[r].pc \in {"open", "add"} /\ req[r].emitted < MaxEvents
  /\ \/ row' = row
     \/ req[r].pc = "open" /\ Expired(r) /\ Started(r)
     \/ req[r].pc = "add" /\ ~Expired(r) /\ Added
  /\ Pushed(r)
  /\ req' = [req EXCEPT ![r].pc = "respond", ![r].end = 0, ![r].seen = 0, ![r].emitted = @ + 1]
  /\ UNCHANGED <<now, items>>

(* The table's TTL removes an expired row some time later.                  *)
Clean ==
  /\ row # NoRow /\ row.expires <= now
  /\ row' = NoRow
  /\ UNCHANGED <<now, req, sink, items>>
-----------------------------------------------------------------------------
(* on_event: the handler's listed events go to the sink of its process.     *)
Emit(r) ==
  /\ req[r].pc = "handle" /\ req[r].emitted < MaxEvents
  /\ Pushed(r)
  /\ req' = [req EXCEPT ![r].emitted = @ + 1]
  /\ UNCHANGED <<now, row, items>>

Respond(r) ==
  /\ req[r].pc = "handle"
  /\ req' = [req EXCEPT ![r].pc = "respond"]
  /\ UNCHANGED <<now, row, sink, items>>

(* flush: takes all that is pending, whichever request emitted it.  The     *)
(* numbers of a batch start from 0.                                         *)
Batch(p) == [i \in 1..Len(sink[p]) |-> [event |-> sink[p][i], seq |-> i - 1, pid |-> Pid[p]]]
CopiesPending(r) ==   \* faulty variant: the sink keeps what it hands out
  /\ req[r].pc = "respond"
  /\ req' = [req EXCEPT ![r].pc = IF sink[Proc[r]] = << >> THEN "done" ELSE "write",
                        ![r].batch = Batch(Proc[r])]
  /\ UNCHANGED <<now, row, sink, items>>
Drain(r) ==
  /\ req[r].pc = "respond"
  /\ req' = [req EXCEPT ![r].pc = IF sink[Proc[r]] = << >> THEN "done" ELSE "write",
                        ![r].batch = Batch(Proc[r])]
  /\ sink' = [sink EXCEPT ![Proc[r]] = << >>]
  /\ UNCHANGED <<now, row, items>>

(* Items are keyed by timestamp, number and process id: a put replaces the  *)
(* item of its key.  A batch write may fail, or leave items unprocessed.    *)
Key(i) == <<i.event.time, i.seq, i.pid>>
Put(new) == items' = {i \in items : \A j \in new : Key(i) # Key(j)} \union new
WriteChunk(r) ==
  LET batch == req[r].batch
      size == IF Chunk < Len(batch) THEN Chunk ELSE Len(batch)
  IN /\ req[r].pc = "write" /\ batch # << >>
     /\ \E written \in SUBSET {batch[i] : i \in 1..size} : Put(written)
     /\ req' = [req EXCEPT ![r].batch = SubSeq(batch, size + 1, Len(batch))]
     /\ UNCHANGED <<now, row, sink>>

(* The response leaves when the batch is written or after 1.5 seconds.      *)
FlushEnds(r) ==
  /\ req[r].pc = "write"
  /\ req' = [req EXCEPT ![r].pc = "done", ![r].batch = << >>]
  /\ UNCHANGED <<now, row, sink, items>>

Step(r) ==
  \/ Hit(r) \/ Increment(r) \/ OpenWindow(r) \/ WindowIsOpen(r) \/ Add(r) \/ Fails(r)
  \/ Emit(r) \/ Respond(r) \/ Drain(r) \/ WriteChunk(r) \/ FlushEnds(r)
Next == Tick \/ Clean \/ \E r \in Requests : Step(r)
Spec == Init /\ [][Next]_vars
-----------------------------------------------------------------------------
(* The state has the shape the code relies on; a sink holds no more than    *)
(* MAX_PENDING events of the requests of its process.                       *)
TypeOK ==
  /\ now \in 0..MaxTime
  /\ row \in [expires : Nat, count : Nat]
  /\ req \in [Requests -> Request]
  /\ sink \in [Procs -> Seq(Events)]
  /\ \A p \in Procs : Len(sink[p]) <= MaxPending
  /\ items \subseteq Item

(* At most Limit.max hits of a window are admitted before it ends (limits.rs *)
(* "at most `max` hits per `window` seconds"), whatever the workers, the     *)
(* lost answers and the cleaning of the table do.  A hit that straddles the  *)
(* boundary (its two clock readings, or its update, on different sides) is   *)
(* not counted: the old window's row may then be started again.              *)
InTime(e) == {r \in Requests : req[r].admitted /\ req[r].end = e /\ req[r].at < e}
LimitHolds == \A e \in {req[r].end : r \in Requests} : Cardinality(InTime(e)) <= Max

(* The feed writes no event twice, although requests of a process flush each *)
(* other's events: an event is pending, in one batch, or under one key.      *)
Holders(e) ==
  (UNION {{<<"sink", p, i>> : i \in {j \in 1..Len(sink[p]) : sink[p][j] = e}} : p \in Procs})
  \union (UNION {{<<"batch", r, i>> : i \in {j \in 1..Len(req[r].batch) : req[r].batch[j].event = e}}
                 : r \in Requests})
  \union {<<"item", i.pid, i.seq>> : i \in {j \in items : j.event = e}}
Known ==
  (UNION {{sink[p][i] : i \in 1..Len(sink[p])} : p \in Procs})
  \union (UNION {{req[r].batch[i].event : i \in 1..Len(req[r].batch)} : r \in Requests})
  \union {i.event : i \in items}
WrittenOnce == \A e \in Known : Cardinality(Holders(e)) = 1

(* Nothing is left to a background task (public_logs.rs module comment): a   *)
(* process with pending events has a request that is still to flush them.    *)
NothingLeftBehind ==
  \A p \in Procs : sink[p] # << >> =>
    \E r \in Requests : Proc[r] = p /\ req[r].pc \in {"handle", "respond"}
FeedIsWhole == WrittenOnce /\ NothingLeftBehind
=============================================================================
