---------------------------- MODULE BookingStore ----------------------------
(***************************************************************************)
(* The bookings table (src/src/booking_store.rs): one record per operation *)
(* and three guard rows, the locks of the two agents and the guard of the  *)
(* (unordered) pair at the slot.  BeginWrite and SaveWrite are the two     *)
(* transactions of the BookingStore trait; the actions Begin and Save, and *)
(* StoreSpec, are the discipline the trait comment demands of its callers: *)
(* "CAS on revision; release agent locks only after a known terminal       *)
(* result".  The modules of the callers EXTEND this one and are shown to   *)
(* implement StoreSpec.                                                    *)
(*                                                                         *)
(* The guard of a pair at a slot carries a TTL, a day after the slot; the  *)
(* agents' locks carry none.  A booked record lives longer than its guard, *)
(* an unresolved one for ever.                                             *)
(***************************************************************************)
EXTENDS Integers

CONSTANTS
  Agents,      \* the accounts' agents
  Ops,         \* operation ids
  Slots,       \* proposed intervals
  Host,        \* Host[o], Peer[o]: the two agents of operation o, fixed by
  Peer,        \*   its proposal
  NoOp,        \* no owner
  NoSlot       \* no slot

ASSUME PartiesAssumption ==
  /\ Host \in [Ops -> Agents]
  /\ Peer \in [Ops -> Agents]
  /\ \A o \in Ops : Host[o] # Peer[o]      \* propose_with_id: same_account

ASSUME NullAssumption == NoOp \notin Ops /\ NoSlot \notin Slots

VARIABLES
  record,      \* the "op:" rows
  agentLock,   \* the owner of each "agent:" row
  slotLock,    \* the owner of each "slot:" row
  over         \* the slots that ended more than a day ago

storeVars == <<record, agentLock, slotLock, over>>
-----------------------------------------------------------------------------
Refused == {"failed", "slot_unavailable"}
Terminal == Refused \union {"booked"}
Unresolved == {"submitting", "pending", "confirmation_required", "unknown"}
Stages == Terminal \union Unresolved

\* A record, with "due" for next_poll <= now; an absent one has stage "absent".
Record == [stage : Stages \union {"absent"}, slot : Slots \union {NoSlot},
           rev : Nat, due : BOOLEAN]
NoRecord == [stage |-> "absent", slot |-> NoSlot, rev |-> 0, due |-> FALSE]

Exists(o) == record[o].stage # "absent"
Open(o) == record[o].stage \in Unresolved

Parties(o) == {Host[o], Peer[o]}
PairSlots == {{a, b} : a, b \in Agents} \X Slots
PairSlot(o, s) == <<Parties(o), s>>

\* The slot has not begun.
Ahead(s) == s \notin over
-----------------------------------------------------------------------------
\* Faulty variants of begin and save, for the sensitivity of the properties.
CanBeginLockingPeerOnly(o, s) ==
  ~Exists(o) /\ agentLock[Peer[o]] = NoOp /\ slotLock[PairSlot(o, s)] = NoOp
SaveWriteKeepingSlotGuard(o, r, release) ==
  /\ record' = [record EXCEPT ![o] = r]
  /\ agentLock' = [a \in Agents |-> IF release /\ a \in Parties(o) THEN NoOp
                                                                   ELSE agentLock[a]]
  /\ UNCHANGED <<slotLock, over>>

\* begin: all four rows are new, or nothing is written.
CanBegin(o, s) ==
  /\ ~Exists(o)
  /\ \A a \in Parties(o) : agentLock[a] = NoOp
  /\ slotLock[PairSlot(o, s)] = NoOp

BeginWrite(o, s) ==
  /\ record' = [record EXCEPT ![o] =
                  [stage |-> "submitting", slot |-> s, rev |-> 0, due |-> FALSE]]
  /\ agentLock' = [a \in Agents |-> IF a \in Parties(o) THEN o ELSE agentLock[a]]
  /\ slotLock' = [slotLock EXCEPT ![PairSlot(o, s)] = o]
  /\ UNCHANGED over

\* save: the revision is the one the caller read and, on a release, the caller
\* still owns every guard its stage gives up: a refusal that comes after its
\* guard expired is not saved.
CanSave(o, r, previous, release) ==
  /\ Exists(o)
  /\ record[o].rev = previous
  /\ release =>
       /\ \A a \in Parties(o) : agentLock[a] = o
       /\ r.stage \in Refused => slotLock[PairSlot(o, r.slot)] = o

\* Refused stages give up all three guards, any other released stage only the
\* agents' locks: the pair's guard of a booked slot stays.
SaveWrite(o, r, release) ==
  /\ record' = [record EXCEPT ![o] = r]
  /\ agentLock' = [a \in Agents |-> IF release /\ a \in Parties(o) THEN NoOp
                                                                   ELSE agentLock[a]]
  /\ slotLock' = IF release /\ r.stage \in Refused
                   THEN [slotLock EXCEPT ![PairSlot(o, r.slot)] = NoOp]
                   ELSE slotLock
  /\ UNCHANGED over
-----------------------------------------------------------------------------
StoreInit ==
  /\ record = [o \in Ops |-> NoRecord]
  /\ agentLock = [a \in Agents |-> NoOp]
  /\ slotLock = [k \in PairSlots |-> NoOp]
  /\ over = {}

\* The discipline: only a slot that has not begun is claimed ...
Begin(o, s) == Ahead(s) /\ CanBegin(o, s) /\ BeginWrite(o, s)

\* ... and only an unresolved record is saved, its revision grows by one, its
\* slot never changes, and the locks go exactly with a terminal stage.
Save(o, stage, due) ==
  LET r == [stage |-> stage, slot |-> record[o].slot,
            rev |-> record[o].rev + 1, due |-> due]
  IN  /\ Open(o)
      /\ CanSave(o, r, record[o].rev, stage \in Terminal)
      /\ SaveWrite(o, r, stage \in Terminal)

\* Time reaches next_poll.
BecomeDue(o) ==
  /\ Open(o) /\ ~record[o].due
  /\ record' = [record EXCEPT ![o].due = TRUE]
  /\ UNCHANGED <<agentLock, slotLock, over>>

\* The days from a slot's start to the end of its guard's life, as one step.
SlotEnds(s) ==
  /\ Ahead(s)
  /\ over' = over \union {s}
  /\ UNCHANGED <<record, agentLock, slotLock>>

GuardExpiresFromClaim(k) ==      \* faulty variant: the day counts from the claim
  /\ slotLock[k] # NoOp
  /\ slotLock' = [slotLock EXCEPT ![k] = NoOp]
  /\ UNCHANGED <<record, agentLock, over>>
\* The TTL of the guard, whatever has become of its operation.
GuardExpires(k) ==
  /\ slotLock[k] # NoOp /\ ~Ahead(k[2])
  /\ slotLock' = [slotLock EXCEPT ![k] = NoOp]
  /\ UNCHANGED <<record, agentLock, over>>

StoreNext ==
  \/ \E o \in Ops : \/ \E s \in Slots : Begin(o, s)
                    \/ \E stage \in Stages, due \in BOOLEAN : Save(o, stage, due)
                    \/ BecomeDue(o)
  \/ \E s \in Slots : SlotEnds(s)
  \/ \E k \in PairSlots : GuardExpires(k)

StoreSpec == StoreInit /\ [][StoreNext]_storeVars
-----------------------------------------------------------------------------
StoreTypeOK ==
  /\ record \in [Ops -> Record]
  /\ agentLock \in [Agents -> Ops \union {NoOp}]
  /\ slotLock \in [PairSlots -> Ops \union {NoOp}]
  /\ over \subseteq Slots
  /\ \A o \in Ops : Exists(o) => record[o].slot \in Slots

\* An operation that is to own the guard of its pair at its slot.
Holds(o, k) ==
  /\ Open(o) \/ record[o].stage = "booked"
  /\ k = PairSlot(o, record[o].slot)

\* The locks and the records agree: an agent is locked by exactly the
\* unresolved operation it takes part in, for however long that is; the guard
\* of a pair at a slot is owned by no other than the unresolved or booked
\* operation of that pair and slot, and until a day after the slot it is owned
\* by that one.  (BookingStore::begin and save must write the rows together
\* for this, and the TTL must not run out before the slot does.)
GuardsMatchRecords ==
  /\ \A a \in Agents : \A o \in Ops :
       agentLock[a] = o <=> (Open(o) /\ a \in Parties(o))
  /\ \A k \in PairSlots : \A o \in Ops :
       /\ slotLock[k] = o => Holds(o, k)
       /\ Holds(o, k) /\ Ahead(k[2]) => slotLock[k] = o

\* An agent takes part in at most one unresolved operation, whatever role it
\* has in each ("atomic exclusion of concurrent agent bookings").
OneOpenOperationPerAgent ==
  \A o, p \in Ops : o # p /\ Open(o) /\ Open(p) => Parties(o) \cap Parties(p) = {}

\* A pair has at most one unresolved or booked operation at a slot, the roles
\* of the two notwithstanding ("persistent pair/slot duplicate guard"), and
\* although the guard is gone a day after the slot and the booking is not.
PairSlotTakenOnce ==
  \A o, p \in Ops :
    /\ o # p /\ Parties(o) = Parties(p)
    /\ Open(o) \/ record[o].stage = "booked"
    /\ Open(p) \/ record[p].stage = "booked"
    => record[o].slot # record[p].slot

\* What is settled stays settled: no step changes a terminal record, whoever
\* takes it and however old the copy it was computed from.
TerminalIsFinal ==
  [][\A o \in Ops : record[o].stage \in Terminal => record'[o] = record[o]]_storeVars

\* What the service says of an operation (MeetingPromise).
Outcome(o) ==
  CASE ~Exists(o) -> "absent"
    [] Open(o) -> "open"
    [] record[o].stage = "booked" -> "booked"
    [] OTHER -> "refused"
=============================================================================
