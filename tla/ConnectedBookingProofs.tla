----------------------- MODULE ConnectedBookingProofs -----------------------
(***************************************************************************)
(* First the bookings table, for every user that keeps StoreSpec and any   *)
(* agents, operations and slots: GuardsMatchRecords is inductive together  *)
(* with the types.  Agents' locks have no TTL, so two open operations of   *)
(* one agent would both own its lock.  The guard of a slot has one, but it *)
(* stands for as long as the slot can still be claimed.                    *)
(*                                                                         *)
(* Then the confirm flow, which implements that discipline, for any        *)
(* workers and bounds; the exclusion theorems therefore hold of it.  The   *)
(* inductive invariant is the types with WorkersKnowTheirRecords and       *)
(* ClaimsAhead: a worker whose revision is still current knows that the    *)
(* record is unresolved, so what it saves is a Save of StoreNext, a worker *)
(* that was overtaken saves nothing, and one that is about to claim a slot *)
(* claims it before the slot begins.                                       *)
(***************************************************************************)
EXTENDS ConnectedBooking, TLAPS

LEMMA PartiesAreAgents ==
  ASSUME NEW o \in Ops
  PROVE  /\ Parties(o) \subseteq Agents
         /\ Host[o] \in Parties(o)
         /\ Peer[o] \in Parties(o)
         /\ \A s \in Slots : PairSlot(o, s) \in PairSlots
  BY PartiesAssumption DEF Parties, PairSlots, PairSlot

LEMMA RecordOfBegin ==
  ASSUME NEW s \in Slots
  PROVE  [stage |-> "submitting", slot |-> s, rev |-> 0, due |-> FALSE] \in Record
  BY DEF Record, Stages, Unresolved

LEMMA StoreTypeStep == StoreTypeOK /\ [StoreNext]_storeVars => StoreTypeOK'
<1> SUFFICES ASSUME StoreTypeOK, [StoreNext]_storeVars PROVE StoreTypeOK'
  OBVIOUS
<1> USE DEF StoreTypeOK
<1>1. ASSUME NEW o \in Ops, NEW s \in Slots, Begin(o, s) PROVE StoreTypeOK'
  <2>1. record' \in [Ops -> Record]
    BY <1>1, RecordOfBegin DEF Begin, BeginWrite
  <2>2. agentLock' \in [Agents -> Ops \union {NoOp}]
    BY <1>1 DEF Begin, BeginWrite
  <2>3. slotLock' \in [PairSlots -> Ops \union {NoOp}]
    BY <1>1, PartiesAreAgents DEF Begin, BeginWrite
  <2>4. \A p \in Ops : Exists(p)' => record'[p].slot \in Slots
    BY <1>1 DEF Begin, BeginWrite, Exists
  <2>5. over' \subseteq Slots
    BY <1>1 DEF Begin, BeginWrite
  <2> QED BY <2>1, <2>2, <2>3, <2>4, <2>5
<1>2. ASSUME NEW o \in Ops, NEW stage \in Stages, NEW due \in BOOLEAN, Save(o, stage, due)
      PROVE  StoreTypeOK'
  <2> DEFINE r == [stage |-> stage, slot |-> record[o].slot,
                   rev |-> record[o].rev + 1, due |-> due]
  <2>1. /\ record[o] \in Record /\ Exists(o)
        /\ SaveWrite(o, r, stage \in Terminal)
    BY <1>2 DEF Save, CanSave
  <2>2. r \in Record /\ r.slot \in Slots
    BY <2>1 DEF Record
  <2>3. record' \in [Ops -> Record] /\ record'[o] = r
    BY <2>1, <2>2 DEF SaveWrite
  <2>4. agentLock' \in [Agents -> Ops \union {NoOp}]
    BY <2>1 DEF SaveWrite
  <2>5. slotLock' \in [PairSlots -> Ops \union {NoOp}]
    BY <2>1, <2>2, PartiesAreAgents DEF SaveWrite
  <2>6. \A p \in Ops : Exists(p)' => record'[p].slot \in Slots
    BY <2>1, <2>2 DEF SaveWrite, Exists
  <2>7. over' \subseteq Slots
    BY <2>1 DEF SaveWrite
  <2> QED BY <2>3, <2>4, <2>5, <2>6, <2>7
<1>3. ASSUME NEW o \in Ops, BecomeDue(o) PROVE StoreTypeOK'
  <2>1. record' \in [Ops -> Record]
    BY <1>3 DEF BecomeDue, Record
  <2>2. \A p \in Ops : Exists(p)' => record'[p].slot \in Slots
    BY <1>3 DEF BecomeDue, Exists, Record
  <2> QED BY <1>3, <2>1, <2>2 DEF BecomeDue
<1>4. ASSUME \/ \E s \in Slots : SlotEnds(s)
             \/ \E k \in PairSlots : GuardExpires(k)
      PROVE  StoreTypeOK'
  BY <1>4 DEF SlotEnds, GuardExpires, Exists
<1>5. CASE UNCHANGED storeVars
  BY <1>5 DEF storeVars, Exists
<1> QED BY <1>1, <1>2, <1>3, <1>4, <1>5 DEF StoreNext

\* The store holds records and owners of the right kind, and an existing
\* record has a slot.
THEOREM StoreTypeCorrect == StoreSpec => []StoreTypeOK
<1>1. StoreInit => StoreTypeOK
  BY DEF StoreInit, StoreTypeOK, Record, NoRecord, Exists
<1> QED BY <1>1, StoreTypeStep, PTL DEF StoreSpec

\* Records persist and keep their slot; when the revision stands still, so does
\* the stage.
LEMMA RecordsMove ==
  ASSUME StoreTypeOK, [StoreNext]_storeVars, NEW o \in Ops, Exists(o)
  PROVE  /\ Exists(o)' /\ record'[o].slot = record[o].slot
         /\ record[o].rev <= record'[o].rev
         /\ record'[o].rev = record[o].rev => record'[o].stage = record[o].stage
<1>0. record[o] \in Record
  BY DEF StoreTypeOK
<1>1. ASSUME NEW p \in Ops, NEW s \in Slots, Begin(p, s) PROVE record'[o] = record[o]
  BY <1>1 DEF Begin, BeginWrite, CanBegin, StoreTypeOK
<1>2. ASSUME NEW p \in Ops, NEW stage \in Stages, NEW due \in BOOLEAN, Save(p, stage, due)
      PROVE  \/ record'[o] = record[o]
             \/ /\ Exists(o)' /\ record'[o].slot = record[o].slot
                /\ record'[o].rev = record[o].rev + 1
  BY <1>2 DEF Save, SaveWrite, StoreTypeOK, Exists, Stages, Terminal, Refused, Unresolved
<1>3. ASSUME NEW p \in Ops, BecomeDue(p)
      PROVE  /\ record'[o].stage = record[o].stage /\ record'[o].slot = record[o].slot
             /\ record'[o].rev = record[o].rev
  BY <1>3 DEF BecomeDue, StoreTypeOK, Record
<1>4. ASSUME UNCHANGED record
      PROVE  record'[o] = record[o]
  BY <1>4
<1> QED BY <1>0, <1>1, <1>2, <1>3, <1>4
        DEF StoreNext, SlotEnds, GuardExpires, storeVars, Exists, Record

\* The inductive step of GuardsMatchRecords: an operation that begins finds
\* its guards without owner, one that is saved gives up exactly the guards its
\* new stage no longer owns, and only the guard of a slot that is over expires.
LEMMA GuardsStep ==
  StoreTypeOK /\ GuardsMatchRecords /\ [StoreNext]_storeVars => GuardsMatchRecords'
<1> SUFFICES ASSUME StoreTypeOK, GuardsMatchRecords, [StoreNext]_storeVars
             PROVE  GuardsMatchRecords'
  OBVIOUS
<1> USE NullAssumption
<1>1. ASSUME NEW o \in Ops, NEW s \in Slots, Begin(o, s) PROVE GuardsMatchRecords'
  <2>1. /\ record'[o].stage = "submitting" /\ record'[o].slot = s
        /\ \A p \in Ops \ {o} : record'[p] = record[p]
    BY <1>1 DEF Begin, BeginWrite, StoreTypeOK
  <2>2. ASSUME NEW a \in Agents, NEW p \in Ops
        PROVE  agentLock'[a] = p <=> (Open(p)' /\ a \in Parties(p))
    <3>1. agentLock'[a] = IF a \in Parties(o) THEN o ELSE agentLock[a]
      BY <1>1 DEF Begin, BeginWrite
    <3>2. agentLock[a] = p <=> (Open(p) /\ a \in Parties(p))
      BY DEF GuardsMatchRecords
    <3>3. a \in Parties(o) => agentLock[a] = NoOp
      BY <1>1 DEF Begin, CanBegin
    <3>4. ~Open(o) /\ Open(o)'
      BY <1>1, <2>1 DEF Begin, CanBegin, Open, Exists, Unresolved
    <3>5. p # o => (Open(p)' <=> Open(p))
      BY <2>1 DEF Open
    <3> QED BY <3>1, <3>2, <3>3, <3>4, <3>5
  <2>3. ASSUME NEW k \in PairSlots, NEW p \in Ops
        PROVE  /\ slotLock'[k] = p => Holds(p, k)'
               /\ Holds(p, k)' /\ Ahead(k[2])' => slotLock'[k] = p
    <3>1. /\ slotLock'[k] = IF k = PairSlot(o, s) THEN o ELSE slotLock[k]
          /\ Ahead(k[2])' <=> Ahead(k[2])
      BY <1>1 DEF Begin, BeginWrite, StoreTypeOK, Ahead
    <3>2. /\ slotLock[k] = p => Holds(p, k)
          /\ Holds(p, k) /\ Ahead(k[2]) => slotLock[k] = p
      BY DEF GuardsMatchRecords
    <3>3. slotLock[PairSlot(o, s)] = NoOp
      BY <1>1 DEF Begin, CanBegin
    <3>4. ~Open(o) /\ record[o].stage # "booked" /\ Open(o)'
      BY <1>1, <2>1 DEF Begin, CanBegin, Open, Exists, Unresolved
    <3>5. p # o => (Holds(p, k)' <=> Holds(p, k))
      BY <2>1 DEF Open, Holds
    <3>6. ~Holds(o, k) /\ (Holds(o, k)' <=> k = PairSlot(o, s))
      BY <2>1, <3>4 DEF Holds
    <3> QED BY <3>1, <3>2, <3>3, <3>5, <3>6
  <2> QED BY <2>2, <2>3 DEF GuardsMatchRecords
<1>2. ASSUME NEW o \in Ops, NEW stage \in Stages, NEW due \in BOOLEAN, Save(o, stage, due)
      PROVE  GuardsMatchRecords'
  <2> DEFINE r == [stage |-> stage, slot |-> record[o].slot,
                   rev |-> record[o].rev + 1, due |-> due]
  <2>1. Open(o) /\ CanSave(o, r, record[o].rev, stage \in Terminal)
                /\ SaveWrite(o, r, stage \in Terminal)
    BY <1>2 DEF Save
  <2>2. /\ record'[o].stage = stage /\ record'[o].slot = record[o].slot
        /\ \A p \in Ops \ {o} : record'[p] = record[p]
    BY <2>1 DEF SaveWrite, StoreTypeOK
  <2>3. Open(o)' <=> stage \notin Terminal
    BY <2>2 DEF Open, Stages, Terminal, Refused, Unresolved
  <2>4. ASSUME NEW a \in Agents, NEW p \in Ops
        PROVE  agentLock'[a] = p <=> (Open(p)' /\ a \in Parties(p))
    <3>1. agentLock'[a] = IF stage \in Terminal /\ a \in Parties(o) THEN NoOp
                                                                ELSE agentLock[a]
      BY <2>1 DEF SaveWrite
    <3>2. /\ agentLock[a] = p <=> (Open(p) /\ a \in Parties(p))
          /\ agentLock[a] = o <=> (Open(o) /\ a \in Parties(o))
      BY DEF GuardsMatchRecords
    <3>3. p # o => (Open(p)' <=> Open(p))
      BY <2>2 DEF Open
    <3> QED BY <2>1, <2>3, <3>1, <3>2, <3>3
  <2>5. ASSUME NEW k \in PairSlots, NEW p \in Ops
        PROVE  /\ slotLock'[k] = p => Holds(p, k)'
               /\ Holds(p, k)' /\ Ahead(k[2])' => slotLock'[k] = p
    <3>1. /\ slotLock'[k] = IF stage \in Refused /\ k = PairSlot(o, record[o].slot)
                              THEN NoOp ELSE slotLock[k]
          /\ Ahead(k[2])' <=> Ahead(k[2])
      BY <2>1 DEF SaveWrite, StoreTypeOK, Terminal, Ahead
    <3>2. /\ slotLock[k] = p => Holds(p, k)
          /\ slotLock[k] = o => Holds(o, k)
          /\ Holds(p, k) /\ Ahead(k[2]) => slotLock[k] = p
      BY DEF GuardsMatchRecords
    <3>3. (Open(o)' \/ record'[o].stage = "booked") <=> stage \notin Refused
      BY <2>2, <2>3 DEF Stages, Terminal, Refused
    <3>4. p # o => (Holds(p, k)' <=> Holds(p, k))
      BY <2>2 DEF Open, Holds
    <3>5. /\ Holds(o, k) <=> k = PairSlot(o, record[o].slot)
          /\ Holds(o, k)' <=> stage \notin Refused /\ k = PairSlot(o, record[o].slot)
      BY <2>1, <2>2, <3>3 DEF Holds
    <3>6. stage \in Refused => slotLock[PairSlot(o, record[o].slot)] = o
      BY <2>1 DEF CanSave, Terminal
    <3> QED BY <3>1, <3>2, <3>4, <3>5, <3>6, NullAssumption
  <2> QED BY <2>4, <2>5 DEF GuardsMatchRecords
<1>3. ASSUME NEW o \in Ops, BecomeDue(o) PROVE GuardsMatchRecords'
  <2>1. \A p \in Ops : record'[p].stage = record[p].stage /\ record'[p].slot = record[p].slot
    BY <1>3 DEF BecomeDue, StoreTypeOK, Record
  <2> QED BY <1>3, <2>1 DEF BecomeDue, GuardsMatchRecords, Open, Holds, Ahead
<1>4. ASSUME NEW s \in Slots, SlotEnds(s) PROVE GuardsMatchRecords'
  BY <1>4 DEF SlotEnds, GuardsMatchRecords, Open, Holds, Ahead
<1>5. ASSUME NEW k \in PairSlots, GuardExpires(k) PROVE GuardsMatchRecords'
  <2>1. \A j \in PairSlots : slotLock'[j] = IF j = k THEN NoOp ELSE slotLock[j]
    BY <1>5 DEF GuardExpires, StoreTypeOK
  <2> QED BY <1>5, <2>1 DEF GuardExpires, GuardsMatchRecords, Open, Holds, Ahead
<1>6. CASE UNCHANGED storeVars
  BY <1>6 DEF storeVars, GuardsMatchRecords, Open, Holds, Ahead
<1> QED BY <1>1, <1>2, <1>3, <1>4, <1>5, <1>6 DEF StoreNext

\* In every reachable state of the table an agent is locked by exactly the
\* unresolved operation it takes part in, the guard of a pair at a slot has no
\* owner but the pair's unresolved or booked operation there, and until its TTL
\* runs out, a day after the slot, that operation owns it.
THEOREM GuardsCorrect == StoreSpec => []GuardsMatchRecords
<1>1. StoreInit => GuardsMatchRecords
  BY NullAssumption DEF StoreInit, GuardsMatchRecords, NoRecord, Open, Holds, Unresolved
<1> QED BY <1>1, StoreTypeCorrect, GuardsStep, PTL DEF StoreSpec

\* An agent is never in two unresolved operations at once: its lock has one
\* owner.
THEOREM AgentExclusion == StoreSpec => []OneOpenOperationPerAgent
<1>1. GuardsMatchRecords => OneOpenOperationPerAgent
  <2> SUFFICES ASSUME GuardsMatchRecords, NEW o \in Ops, NEW p \in Ops,
                      o # p, Open(o), Open(p), NEW a \in Parties(o), a \in Parties(p)
               PROVE  FALSE
    BY DEF OneOpenOperationPerAgent
  <2>1. a \in Agents
    BY PartiesAreAgents
  <2>2. agentLock[a] = o /\ agentLock[a] = p
    BY <2>1 DEF GuardsMatchRecords
  <2> QED BY <2>2
<1> QED BY <1>1, GuardsCorrect, StoreTypeCorrect, PTL

\* A pair that claims a slot holds it with no other operation: the slot has not
\* begun, so whoever held it would still own the guard.
LEMMA ClaimedSlotIsFree ==
  ASSUME StoreTypeOK, GuardsMatchRecords, NEW o \in Ops, NEW s \in Slots, Begin(o, s),
         NEW p \in Ops, Parties(p) = Parties(o), Open(p) \/ record[p].stage = "booked"
  PROVE  record[p].slot # s
<1> SUFFICES ASSUME record[p].slot = s PROVE FALSE
  OBVIOUS
<1> DEFINE k == PairSlot(o, s)
<1>1. k \in PairSlots /\ k[2] = s /\ Holds(p, k)
  BY PartiesAreAgents DEF PairSlot, Holds
<1>2. slotLock[k] = p
  BY <1>1 DEF GuardsMatchRecords, Begin
<1> QED BY <1>2, NullAssumption DEF Begin, CanBegin

\* A pair never holds a slot twice, though the guard of the slot expires: the
\* second claim would have had to come while the first one's guard stood.
THEOREM PairSlotExclusion == StoreSpec => []PairSlotTakenOnce
<1> DEFINE Has(o) == Open(o) \/ record[o].stage = "booked"
<1>1. StoreInit => PairSlotTakenOnce
  BY DEF StoreInit, PairSlotTakenOnce, NoRecord, Open, Unresolved
<1>2. ASSUME StoreTypeOK, GuardsMatchRecords, PairSlotTakenOnce, [StoreNext]_storeVars
      PROVE  PairSlotTakenOnce'
  <2>0. record \in [Ops -> Record]
    BY <1>2 DEF StoreTypeOK
  <2>1. ASSUME NEW o \in Ops, NEW s \in Slots, Begin(o, s) PROVE PairSlotTakenOnce'
    <3>1. /\ record'[o].slot = s
          /\ \A p \in Ops \ {o} : record'[p] = record[p]
      BY <2>0, <2>1 DEF Begin, BeginWrite
    <3>2. \A p \in Ops \ {o} : Has(p)' => Has(p)
      BY <3>1 DEF Open
    <3>3. \A p \in Ops \ {o} : Parties(p) = Parties(o) /\ Has(p) => record[p].slot # s
      BY <1>2, <2>1, ClaimedSlotIsFree
    <3> QED BY <1>2, <3>1, <3>2, <3>3 DEF PairSlotTakenOnce
  <2>2. ASSUME \A p \in Ops : record'[p].slot = record[p].slot /\ (Has(p)' => Has(p))
        PROVE  PairSlotTakenOnce'
    BY <1>2, <2>2 DEF PairSlotTakenOnce
  <2>3. ASSUME NEW o \in Ops, NEW stage \in Stages, NEW due \in BOOLEAN, Save(o, stage, due)
        PROVE  PairSlotTakenOnce'
    BY <2>0, <2>2, <2>3 DEF Save, SaveWrite, Open
  <2>4. ASSUME NEW o \in Ops, BecomeDue(o) PROVE PairSlotTakenOnce'
    BY <2>0, <2>2, <2>4 DEF BecomeDue, Open, Record
  <2>5. ASSUME UNCHANGED record PROVE PairSlotTakenOnce'
    BY <2>2, <2>5 DEF Open
  <2> QED BY <1>2, <2>1, <2>3, <2>4, <2>5 DEF StoreNext, SlotEnds, GuardExpires, storeVars
<1> QED BY <1>1, <1>2, GuardsCorrect, StoreTypeCorrect, PTL DEF StoreSpec

\* A settled operation is never reopened, overwritten or resettled: begin
\* requires that there is no record, and the discipline saves only open ones.
THEOREM TerminalFinality == StoreSpec => TerminalIsFinal
<1> DEFINE Final == \A o \in Ops : record[o].stage \in Terminal => record'[o] = record[o]
<1>1. ASSUME StoreTypeOK, StoreNext, NEW o \in Ops, record[o].stage \in Terminal
      PROVE  record'[o] = record[o]
  <2>1. Exists(o) /\ ~Open(o)
    BY <1>1 DEF Exists, Open, Terminal, Refused, Unresolved
  <2>2. ASSUME NEW p \in Ops, p # o,
               \/ \E s \in Slots : Begin(p, s)
               \/ \E stage \in Stages, due \in BOOLEAN : Save(p, stage, due)
               \/ BecomeDue(p)
        PROVE  record'[o] = record[o]
    BY <1>1, <2>2 DEF Begin, BeginWrite, Save, SaveWrite, BecomeDue, StoreTypeOK
  <2>3. ~(\E s \in Slots : Begin(o, s)) /\ ~BecomeDue(o)
        /\ ~(\E stage \in Stages, due \in BOOLEAN : Save(o, stage, due))
    BY <2>1 DEF Begin, CanBegin, Save, BecomeDue
  <2> QED BY <1>1, <2>2, <2>3 DEF StoreNext, SlotEnds, GuardExpires
<1>2. StoreTypeOK /\ [StoreNext]_storeVars => [Final]_storeVars
  BY <1>1
<1> QED BY <1>2, StoreTypeCorrect, PTL DEF StoreSpec, TerminalIsFinal
-----------------------------------------------------------------------------
\* An invocation that is about to claim a slot claims one that has not begun.
ClaimsAhead ==
  \A w \in Workers : worker[w].pc \in {"precheck", "begin"} => Ahead(worker[w].slot)

IInv == TypeOK /\ WorkersKnowTheirRecords /\ ClaimsAhead

\* The steps of the clock touch the table alone.
ClockStep == (\E s \in Slots : SlotPasses(s)) \/ (\E k \in PairSlots : SlotGuardExpires(k))

LEMMA ClockMovesTheTable ==
  ASSUME ClockStep
  PROVE  /\ StoreNext /\ UNCHANGED <<record, agentLock>>
         /\ UNCHANGED <<proposal, worker, call, grant, calendarVars, disturbed>>
  BY DEF ClockStep, SlotPasses, SlotGuardExpires, SlotEnds, GuardExpires, StoreNext, Undisturbed

LEMMA StageSets ==
  /\ Unresolved \cap Terminal = {} /\ Refused \subseteq Terminal
  /\ "submitting" \in Unresolved /\ "absent" \notin Stages
  /\ Stages = Terminal \union Unresolved
  BY DEF Unresolved, Terminal, Refused, Stages

LEMMA ResultStages ==
  ASSUME IInv, NEW w \in Workers, worker[w].pc = "finish"
  PROVE  ResultStage(w) \in Stages
<1>1. worker[w].stage \in Unresolved /\ worker[w].result \in Results
  BY DEF IInv, WorkersKnowTheirRecords, Knows, TypeOK, Worker
<1> QED BY <1>1 DEF ResultStage, Results, Stages, Unresolved, Terminal, Refused

LEMMA ConfirmBeginIsBegin ==
  ASSUME IInv, NEW w \in Workers, worker[w].pc = "begin",
         CanBegin(worker[w].op, worker[w].slot),
         BeginWrite(worker[w].op, worker[w].slot)
  PROVE  StoreNext
<1>1. worker[w].op \in Ops /\ worker[w].slot \in Slots /\ Ahead(worker[w].slot)
  BY DEF IInv, WorkersKnowTheirRecords, Knows, ClaimsAhead
<1> QED BY <1>1 DEF StoreNext, Begin

\* A claim that the store lets through is a Save that keeps the stage.
LEMMA ClaimIsSave ==
  ASSUME IInv, NEW w \in Workers, worker[w].pc = "claim",
         CanSave(worker[w].op, ClaimRecord(w), worker[w].rev, FALSE),
         SaveWrite(worker[w].op, ClaimRecord(w), FALSE)
  PROVE  StoreNext
<1> DEFINE o == worker[w].op
           stage == worker[w].stage
<1>1. /\ o \in Ops /\ stage \in Unresolved
      /\ record[o].slot = worker[w].slot
      /\ record[o].rev = worker[w].rev => record[o].stage = stage
  BY DEF IInv, WorkersKnowTheirRecords, Knows
<1>2. record[o].rev = worker[w].rev /\ Open(o)
  BY <1>1 DEF CanSave, Open
<1>3. /\ stage \in Stages /\ (stage \in Terminal) = FALSE
      /\ ClaimRecord(w) = [stage |-> stage, slot |-> record[o].slot,
                           rev |-> record[o].rev + 1, due |-> FALSE]
  BY <1>1, <1>2, StageSets DEF ClaimRecord
<1>4. Save(o, stage, FALSE)
  BY <1>2, <1>3 DEF Save
<1> QED BY <1>1, <1>3, <1>4 DEF StoreNext

\* A result that the store lets through is a Save, with the release that
\* belongs to its stage.
LEMMA FinishIsSave ==
  ASSUME IInv, NEW w \in Workers, worker[w].pc = "finish",
         CanSave(worker[w].op, ResultRecord(w), worker[w].rev, Release(w)),
         SaveWrite(worker[w].op, ResultRecord(w), Release(w))
  PROVE  StoreNext
<1> DEFINE o == worker[w].op
           stage == ResultStage(w)
<1>1. /\ o \in Ops /\ worker[w].stage \in Unresolved
      /\ record[o].slot = worker[w].slot
      /\ record[o].rev = worker[w].rev => record[o].stage = worker[w].stage
  BY DEF IInv, WorkersKnowTheirRecords, Knows, AttemptPC
<1>2. record[o].rev = worker[w].rev /\ Open(o)
  BY <1>1 DEF CanSave, Open
<1>3. /\ stage \in Stages
      /\ ResultRecord(w) = [stage |-> stage, slot |-> record[o].slot,
                            rev |-> record[o].rev + 1, due |-> FALSE]
  BY <1>1, <1>2, ResultStages DEF ResultRecord
<1>4. Save(o, stage, FALSE)
  BY <1>2, <1>3 DEF Save, Release
<1> QED BY <1>1, <1>3, <1>4 DEF StoreNext

LEMMA StoreStep == IInv /\ [Next]_vars => [StoreNext]_storeVars
<1> SUFFICES ASSUME IInv, [Next]_vars PROVE [StoreNext]_storeVars
  OBVIOUS
<1>1. ASSUME NEW w \in Workers, ConfirmBegin(w) PROVE [StoreNext]_storeVars
  BY <1>1, ConfirmBeginIsBegin DEF ConfirmBegin
<1>2. ASSUME NEW w \in Workers, ConfirmClaim(w) PROVE [StoreNext]_storeVars
  BY <1>2, ClaimIsSave DEF ConfirmClaim
<1>3. ASSUME NEW w \in Workers, ConfirmFinish(w) PROVE [StoreNext]_storeVars
  BY <1>3, FinishIsSave DEF ConfirmFinish
<1>4. ASSUME NEW w \in Workers, ConfirmAnswerLost(w) PROVE [StoreNext]_storeVars
  BY <1>4, ConfirmBeginIsBegin, ClaimIsSave DEF ConfirmAnswerLost
<1>5. ASSUME NEW o \in Ops, NextPollReached(o) PROVE [StoreNext]_storeVars
  BY <1>5 DEF NextPollReached, StoreNext
<1>6. ASSUME NEW w \in Workers, NEW o \in Ops,
             ConfirmExisting(w, o) \/ ConfirmProposal(w, o)
      PROVE  UNCHANGED storeVars
  BY <1>6 DEF ConfirmExisting, ConfirmProposal
<1>7. ASSUME NEW w \in Workers,
             \/ ConfirmPrecheck(w) \/ AdvanceRecheck(w) \/ AdvanceCall(w)
             \/ AdvanceReply(w) \/ AdvanceAccept(w) \/ AdvanceReadback(w)
      PROVE  UNCHANGED storeVars
  BY <1>7 DEF ConfirmPrecheck, AdvanceRecheck, AdvanceCall, AdvanceReply,
              AdvanceAccept, AdvanceReadback
<1>8. ASSUME NEW w \in Workers, HandleStep(w) \/ GrantExpires(w)
      PROVE  UNCHANGED storeVars
  BY <1>8 DEF HandleStep, GrantExpires, HandleAuthorize, HandleRead, HandleLookup,
              HandleAvailability, HandleInsert, HandleUnheard, Handling
<1>9. ASSUME NEW w \in Workers, Disturbance(w), ~ConfirmAnswerLost(w)
      PROVE  UNCHANGED storeVars
  BY <1>9 DEF Disturbance, AdvanceRecheckFails, AdvanceCallFails, AdvanceTimeout,
              AdvanceAcceptHidden, AdvanceAcceptFails, AdvanceReadbackFails,
              ConfirmAbandoned, HandleInsertLost, HandleFails, Handling
<1>10. ASSUME NEW o \in Ops, NEW s \in Slots, Propose(o, s) PROVE UNCHANGED storeVars
  BY <1>10 DEF Propose
<1>11. ASSUME NEW o \in Ops,
              ProposalExpires(o) \/ HostChangesEvent(o) \/ GuestWithdraws(o)
       PROVE  UNCHANGED storeVars
  BY <1>11 DEF ProposalExpires, HostChangesEvent, GuestWithdraws
<1>12. CASE UNCHANGED vars
  BY <1>12 DEF vars
<1>13. CASE ClockStep
  BY <1>13, ClockMovesTheTable
<1> QED
  BY <1>1, <1>2, <1>3, <1>4, <1>5, <1>6, <1>7, <1>8, <1>9, <1>10, <1>11, <1>12, <1>13
     DEF Next, ConfirmStep, ClockStep
-----------------------------------------------------------------------------
(* The invariant is inductive: first for the workers that do not move, then *)
(* for each way in which a worker moves.                                    *)

\* Knowledge outlives the steps of others.
LEMMA KnowledgeLasts ==
  ASSUME StoreTypeOK, [StoreNext]_storeVars, NEW k \in Worker, Knows(k)
  PROVE  Knows(k)'
<1>1. CASE k.pc \in {"claim"} \union AttemptPC
  <2>1. k.op \in Ops /\ Exists(k.op) /\ k.rev \in Nat /\ record[k.op].rev \in Nat
    BY <1>1 DEF Knows, Worker, AttemptPC, StoreTypeOK, Record
  <2>2. /\ Exists(k.op)' /\ record'[k.op].slot = record[k.op].slot
        /\ record[k.op].rev <= record'[k.op].rev
        /\ record'[k.op].rev = record[k.op].rev =>
             record'[k.op].stage = record[k.op].stage
    BY <2>1, RecordsMove
  <2>3. StoreTypeOK'
    BY StoreTypeStep
  <2>4. record'[k.op].rev \in Nat
    BY <2>1, <2>3 DEF StoreTypeOK, Record
  <2> QED BY <1>1, <2>1, <2>2, <2>4 DEF Knows, AttemptPC, Exists
<1>2. CASE k.pc \notin {"claim"} \union AttemptPC
  BY <1>2 DEF Knows
<1> QED BY <1>1, <1>2

WorkerStep(w) ==
  \/ \E o \in Ops : ConfirmExisting(w, o) \/ ConfirmProposal(w, o)
  \/ ConfirmStep(w)
  \/ Disturbance(w)

\* Only its own steps change a worker.
LEMMA OneWorkerMoves ==
  ASSUME IInv, NEW v \in Workers, NEW w \in Workers, v # w, WorkerStep(v)
  PROVE  worker'[w] = worker[w]
BY DEF Return, Goto, Finish, IInv, TypeOK,
       WorkerStep, ConfirmExisting, ConfirmProposal, ConfirmStep, Disturbance,
       ConfirmPrecheck, ConfirmBegin, ConfirmClaim, ConfirmFinish, AdvanceRecheck,
       AdvanceCall, AdvanceReply, AdvanceAccept, AdvanceReadback,
       AdvanceRecheckFails, AdvanceCallFails, AdvanceTimeout, AdvanceAcceptHidden,
       AdvanceAcceptFails, AdvanceReadbackFails, ConfirmAnswerLost, ConfirmAbandoned,
       HandleInsertLost, HandleFails, Handling

LEMMA OthersKeepTheWorker ==
  ASSUME IInv, [Next]_vars, NEW w \in Workers, ~WorkerStep(w)
  PROVE  worker'[w] = worker[w]
<1>1. ASSUME NEW v \in Workers, HandleStep(v) \/ GrantExpires(v)
      PROVE  worker' = worker
  BY <1>1 DEF HandleStep, GrantExpires, HandleAuthorize, HandleRead, HandleLookup,
              HandleAvailability, HandleInsert, HandleUnheard, Handling
<1>2. ASSUME NEW o \in Ops, \/ \E s \in Slots : Propose(o, s)
                            \/ ProposalExpires(o) \/ NextPollReached(o)
                            \/ HostChangesEvent(o) \/ GuestWithdraws(o)
      PROVE  worker' = worker
  BY <1>2 DEF Propose, ProposalExpires, NextPollReached, HostChangesEvent, GuestWithdraws
<1>3. CASE UNCHANGED vars
  BY <1>3 DEF vars
<1>4. CASE ClockStep
  BY <1>4, ClockMovesTheTable
<1> QED BY OneWorkerMoves, <1>1, <1>2, <1>3, <1>4 DEF Next, WorkerStep, ClockStep

\* What a step other than a claim or a start does to a worker's record.
SameJob(k, l) ==
  l.op = k.op /\ l.slot = k.slot /\ l.stage = k.stage /\ l.rev = k.rev

LEMMA GotoMoves ==
  ASSUME IInv, NEW w \in Workers, NEW pc \in WorkerPC, Goto(w, pc)
  PROVE  /\ worker' \in [Workers -> Worker]
         /\ worker'[w].pc = pc /\ SameJob(worker[w], worker'[w])
<1>1. worker \in [Workers -> Worker] /\ worker[w] \in Worker
  BY DEF IInv, TypeOK
<1>2. worker'[w] = [worker[w] EXCEPT !.pc = pc]
  BY <1>1 DEF Goto
<1>3. worker'[w] \in Worker /\ worker'[w].pc = pc /\ SameJob(worker[w], worker'[w])
  BY <1>1, <1>2 DEF Worker, SameJob
<1>4. worker' \in [Workers -> Worker]
  BY <1>1, <1>3 DEF Goto
<1> QED BY <1>3, <1>4

LEMMA FinishMoves ==
  ASSUME IInv, NEW w \in Workers, NEW result \in Results, Finish(w, result)
  PROVE  /\ worker' \in [Workers -> Worker]
         /\ worker'[w].pc = "finish" /\ SameJob(worker[w], worker'[w])
<1>1. worker \in [Workers -> Worker] /\ worker[w] \in Worker
  BY DEF IInv, TypeOK
<1>2. worker'[w] = [worker[w] EXCEPT !.pc = "finish", !.result = result]
  BY <1>1 DEF Finish
<1>3. /\ worker'[w] \in Worker /\ worker'[w].pc = "finish"
      /\ SameJob(worker[w], worker'[w])
  BY <1>1, <1>2 DEF Worker, WorkerPC, SameJob
<1>4. worker' \in [Workers -> Worker]
  BY <1>1, <1>3 DEF Finish
<1> QED BY <1>3, <1>4

LEMMA ReturnMoves ==
  ASSUME IInv, NEW w \in Workers, Return(w)
  PROVE  worker' \in [Workers -> Worker] /\ worker'[w].pc = "idle"
<1>1. worker \in [Workers -> Worker]
  BY DEF IInv, TypeOK
<1>2. IdleWorker \in Worker /\ IdleWorker.pc = "idle"
  BY DEF IdleWorker, Worker, WorkerPC, Results
<1> QED BY <1>1, <1>2 DEF Return

\* A worker keeps what it knows when it does not move, or moves within its
\* attempt.
LEMMA KnowsStill ==
  ASSUME IInv, [StoreNext]_storeVars, NEW w \in Workers, worker'[w] = worker[w]
  PROVE  Knows(worker[w])'
<1>1. worker[w] \in Worker /\ Knows(worker[w]) /\ StoreTypeOK
  BY DEF IInv, TypeOK, WorkersKnowTheirRecords
<1>2. \A k \in Worker : Knows(k) => Knows(k)'
  BY <1>1, KnowledgeLasts
<1> QED BY <1>1, <1>2 DEF Knows, Exists

LEMMA KnowsInAttempt ==
  ASSUME IInv, [StoreNext]_storeVars, NEW w \in Workers,
         worker[w].pc \in AttemptPC, worker'[w].pc \in AttemptPC,
         SameJob(worker[w], worker'[w])
  PROVE  Knows(worker[w])'
<1>1. worker[w] \in Worker /\ Knows(worker[w]) /\ StoreTypeOK
  BY DEF IInv, TypeOK, WorkersKnowTheirRecords
<1>2. \A k \in Worker : Knows(k) => Knows(k)'
  BY <1>1, KnowledgeLasts
<1> QED BY <1>1, <1>2 DEF Knows, Exists, SameJob, AttemptPC

\* A worker that starts knows the row it has just read.
LEMMA StartKnows ==
  ASSUME IInv, NEW w \in Workers, NEW o \in Ops,
         ConfirmExisting(w, o) \/ ConfirmProposal(w, o)
  PROVE  worker' \in [Workers -> Worker] /\ Knows(worker[w])'
<1>1. /\ worker \in [Workers -> Worker] /\ StoreTypeOK /\ record[o] \in Record
      /\ proposal \in [Ops -> Slots \union {NoSlot}]
  BY DEF IInv, TypeOK, StoreTypeOK
<1>2. CASE ConfirmExisting(w, o)
  <2> DEFINE k == [pc |-> "claim", op |-> o, slot |-> record[o].slot,
                   stage |-> record[o].stage, rev |-> record[o].rev,
                   fresh |-> FALSE, result |-> "none"]
  <2>1. /\ record[o].stage \in Unresolved /\ record[o].slot \in Slots
        /\ record[o].rev \in Nat /\ Exists(o)
    BY <1>1, <1>2 DEF ConfirmExisting, Open, Exists, Unresolved, StoreTypeOK, Record
  <2>2. k \in Worker
    BY <2>1 DEF Worker, WorkerPC, Results
  <2>3. worker' \in [Workers -> Worker] /\ worker'[w] = k
    BY <1>1, <1>2, <2>2 DEF ConfirmExisting
  <2>4. record' = record
    BY <1>2 DEF ConfirmExisting, storeVars
  <2> QED BY <2>1, <2>3, <2>4 DEF Knows, Exists, AttemptPC
<1>3. CASE ConfirmProposal(w, o)
  <2> DEFINE k == [pc |-> "precheck", op |-> o, slot |-> proposal[o],
                   stage |-> "submitting", rev |-> 0, fresh |-> TRUE,
                   result |-> "none"]
  <2>1. proposal[o] \in Slots
    BY <1>1, <1>3 DEF ConfirmProposal
  <2>2. k \in Worker
    BY <2>1 DEF Worker, WorkerPC, Results, Unresolved
  <2>3. worker' \in [Workers -> Worker] /\ worker'[w] = k
    BY <1>1, <1>3, <2>2 DEF ConfirmProposal
  <2> QED BY <2>1, <2>3 DEF Knows, AttemptPC, Unresolved
<1> QED BY <1>2, <1>3

\* The precheck leads to begin, or nowhere.
LEMMA PrecheckKnows ==
  ASSUME IInv, NEW w \in Workers, ConfirmPrecheck(w)
  PROVE  worker' \in [Workers -> Worker] /\ Knows(worker[w])'
<1>1. CASE Goto(w, "begin")
  <2>1. /\ worker' \in [Workers -> Worker] /\ worker'[w].pc = "begin"
        /\ SameJob(worker[w], worker'[w])
    BY <1>1, GotoMoves DEF WorkerPC
  <2>2. Knows(worker[w]) /\ worker[w].pc = "precheck"
    BY DEF ConfirmPrecheck, IInv, WorkersKnowTheirRecords
  <2> QED BY <2>1, <2>2 DEF Knows, SameJob, AttemptPC
<1>2. CASE Return(w)
  BY <1>2, ReturnMoves DEF Knows, AttemptPC
<1> QED BY <1>1, <1>2 DEF ConfirmPrecheck

\* A worker that begins its operation knows the record it wrote.
LEMMA BeginKnows ==
  ASSUME IInv, NEW w \in Workers, ConfirmBegin(w)
  PROVE  worker' \in [Workers -> Worker] /\ Knows(worker[w])'
<1>1. CASE /\ BeginWrite(worker[w].op, worker[w].slot) /\ Goto(w, "recheck")
  <2> DEFINE o == worker[w].op
  <2>1. /\ worker' \in [Workers -> Worker] /\ worker'[w].pc = "recheck"
        /\ SameJob(worker[w], worker'[w])
    BY <1>1, GotoMoves DEF WorkerPC
  <2>2. /\ o \in Ops /\ worker[w].slot \in Slots
        /\ worker[w].stage = "submitting" /\ worker[w].rev = 0
    BY DEF ConfirmBegin, Knows, IInv, WorkersKnowTheirRecords
  <2>3. record'[o] = [stage |-> "submitting", slot |-> worker[w].slot,
                      rev |-> 0, due |-> FALSE]
    BY <1>1, <2>2 DEF BeginWrite, IInv, TypeOK, StoreTypeOK
  <2> QED BY <2>1, <2>2, <2>3 DEF Knows, Exists, SameJob, AttemptPC, Unresolved
<1>2. CASE Return(w)
  BY <1>2, ReturnMoves DEF Knows, AttemptPC
<1> QED BY <1>1, <1>2 DEF ConfirmBegin

\* A claim moves a worker to its attempt, one revision on.
LEMMA ClaimedWorker ==
  ASSUME NEW k \in Worker, NEW rev \in Nat, rev = k.rev + 1
  PROVE  LET l == [k EXCEPT !.pc = "call", !.rev = rev]
         IN  /\ l \in Worker /\ l.pc = "call" /\ l.rev = rev
             /\ l.op = k.op /\ l.slot = k.slot /\ l.stage = k.stage
  BY DEF Worker, WorkerPC

\* A worker that claims a record knows the revision it wrote.
LEMMA ClaimKnows ==
  ASSUME IInv, NEW w \in Workers, ConfirmClaim(w)
  PROVE  worker' \in [Workers -> Worker] /\ Knows(worker[w])'
<1> DEFINE o == worker[w].op
<1>1. CASE /\ SaveWrite(o, ClaimRecord(w), FALSE)
           /\ worker' = [worker EXCEPT ![w].pc = "call", ![w].rev = @ + 1]
  <2>1. worker \in [Workers -> Worker] /\ worker[w] \in Worker
    BY DEF IInv, TypeOK
  <2> DEFINE l == [worker[w] EXCEPT !.pc = "call", !.rev = @ + 1]
  <2>2. worker'[w] = l /\ worker[w].rev + 1 \in Nat
    BY <1>1, <2>1 DEF Worker
  <2>3. /\ worker'[w] \in Worker /\ worker'[w].pc = "call"
        /\ worker'[w].op = o /\ worker'[w].slot = worker[w].slot
        /\ worker'[w].stage = worker[w].stage /\ worker'[w].rev = worker[w].rev + 1
        /\ worker[w].rev + 1 \in Nat
    <3> HIDE DEF l
    <3>1. /\ l \in Worker /\ l.pc = "call" /\ l.rev = worker[w].rev + 1
          /\ l.op = o /\ l.slot = worker[w].slot /\ l.stage = worker[w].stage
      BY <2>1, <2>2, ClaimedWorker DEF l
    <3> QED BY <2>2, <3>1
  <2>4. worker' \in [Workers -> Worker]
    BY <1>1, <2>1, <2>3
  <2>5. o \in Ops /\ worker[w].slot \in Slots /\ worker[w].stage \in Unresolved
    BY DEF ConfirmClaim, Knows, IInv, WorkersKnowTheirRecords
  <2>6. record'[o] = ClaimRecord(w)
    BY <1>1, <2>5 DEF SaveWrite, IInv, TypeOK, StoreTypeOK
  <2> QED BY <2>3, <2>4, <2>5, <2>6
          DEF Knows, Exists, ClaimRecord, AttemptPC, Unresolved
<1>2. CASE Return(w)
  BY <1>2, ReturnMoves DEF Knows, AttemptPC
<1> QED BY <1>1, <1>2 DEF ConfirmClaim

\* The steps of an attempt stay within it or end it.
AttemptStep(w) ==
  \/ AdvanceRecheck(w) \/ AdvanceCall(w) \/ AdvanceReply(w)
  \/ AdvanceAccept(w) \/ AdvanceReadback(w) \/ ConfirmFinish(w)
  \/ Disturbance(w)

LEMMA AttemptMoves ==
  ASSUME NEW w \in Workers, AttemptStep(w)
  PROVE  \/ /\ worker[w].pc \in AttemptPC
            /\ \/ \E pc \in {"call", "wait", "accept", "readback"} : Goto(w, pc)
               \/ \E result \in Results : Finish(w, result)
         \/ Return(w)
         \/ UNCHANGED worker
<1> DEFINE Moves ==
      \/ /\ worker[w].pc \in AttemptPC
         /\ \/ \E pc \in {"call", "wait", "accept", "readback"} : Goto(w, pc)
            \/ \E result \in Results : Finish(w, result)
      \/ Return(w)
      \/ UNCHANGED worker
<1>1. ASSUME AdvanceRecheck(w) \/ AdvanceCall(w) \/ AdvanceAccept(w)
      PROVE  Moves
  BY <1>1 DEF AdvanceRecheck, AdvanceCall, AdvanceAccept, AttemptPC, Results
<1>2. ASSUME AdvanceReply(w) PROVE Moves
  BY <1>2 DEF AdvanceReply, AttemptPC, Results
<1>3. ASSUME AdvanceReadback(w) PROVE Moves
  BY <1>3 DEF AdvanceReadback, AttemptPC, Results
<1>4. ASSUME ConfirmFinish(w) PROVE Moves
  BY <1>4 DEF ConfirmFinish
<1>5. ASSUME Disturbance(w) PROVE Moves
  BY <1>5 DEF Disturbance, AdvanceRecheckFails, AdvanceCallFails, AdvanceTimeout,
              AdvanceAcceptHidden, AdvanceAcceptFails, AdvanceReadbackFails,
              ConfirmAnswerLost, ConfirmAbandoned, HandleInsertLost, HandleFails,
              Handling, AttemptPC, Results
<1> QED BY <1>1, <1>2, <1>3, <1>4, <1>5 DEF AttemptStep

LEMMA AttemptKnows ==
  ASSUME IInv, [StoreNext]_storeVars, NEW w \in Workers, AttemptStep(w)
  PROVE  worker' \in [Workers -> Worker] /\ Knows(worker[w])'
<1>2. ASSUME worker[w].pc \in AttemptPC,
             NEW pc \in {"call", "wait", "accept", "readback"}, Goto(w, pc)
      PROVE  worker' \in [Workers -> Worker] /\ Knows(worker[w])'
  <2>1. pc \in WorkerPC /\ pc \in AttemptPC
    BY DEF WorkerPC, AttemptPC
  <2> QED BY <1>2, <2>1, GotoMoves, KnowsInAttempt
<1>3. ASSUME worker[w].pc \in AttemptPC, NEW result \in Results, Finish(w, result)
      PROVE  worker' \in [Workers -> Worker] /\ Knows(worker[w])'
  <2>1. "finish" \in AttemptPC
    BY DEF AttemptPC
  <2> QED BY <1>3, <2>1, FinishMoves, KnowsInAttempt
<1>4. CASE Return(w)
  BY <1>4, ReturnMoves DEF Knows, AttemptPC
<1>5. CASE UNCHANGED worker
  BY <1>5, KnowsStill DEF IInv, TypeOK
<1> QED BY <1>2, <1>3, <1>4, <1>5, AttemptMoves

LEMMA WorkerStepKnows ==
  ASSUME IInv, [StoreNext]_storeVars, NEW w \in Workers, WorkerStep(w)
  PROVE  worker' \in [Workers -> Worker] /\ Knows(worker[w])'
  BY StartKnows, PrecheckKnows, BeginKnows, ClaimKnows, AttemptKnows
     DEF WorkerStep, ConfirmStep, AttemptStep

\* Every worker is of the right kind and knows its record after a step.
LEMMA WorkersStep ==
  ASSUME IInv, [Next]_vars
  PROVE  worker' \in [Workers -> Worker] /\ \A w \in Workers : Knows(worker[w])'
<1>1. [StoreNext]_storeVars
  BY StoreStep
<1>2. \A w \in Workers : Knows(worker[w])'
  BY <1>1, WorkerStepKnows, OthersKeepTheWorker, KnowsStill
<1>3. ASSUME NEW w \in Workers, WorkerStep(w) PROVE worker' \in [Workers -> Worker]
  BY <1>1, <1>3, WorkerStepKnows
<1>4. CASE \A w \in Workers : ~WorkerStep(w)
  <2>1. UNCHANGED worker
    BY <1>4 DEF Next, WorkerStep, HandleStep, GrantExpires, HandleAuthorize,
                HandleRead, HandleLookup, HandleAvailability, HandleInsert,
                HandleUnheard, Handling, Propose, ProposalExpires, NextPollReached,
                HostChangesEvent, GuestWithdraws, SlotPasses, SlotGuardExpires, vars
  <2> QED BY <1>2, <2>1 DEF IInv, TypeOK
<1> QED BY <1>2, <1>3, <1>4

CallsOK ==
  call \in [Workers -> Call]
    /\ \A w \in Workers : call[w].pc # "idle" => call[w].op \in Ops

\* A handler is started for an operation and keeps it to its end.
LEMMA CallsStep ==
  ASSUME IInv, [Next]_vars
  PROVE  CallsOK'
<1>1. /\ call \in [Workers -> Call] /\ \A w \in Workers : call[w] \in Call
      /\ \A w \in Workers : call[w].pc # "idle" => call[w].op \in Ops
  BY DEF IInv, TypeOK, WorkersKnowTheirRecords
<1>2. IdleCall \in Call /\ IdleCall.pc = "idle"
  BY DEF IdleCall, Call, CallPC, Replies
<1>3. ASSUME NEW w \in Workers, NEW k \in Call, k.pc # "idle" => k.op \in Ops,
             call' = [call EXCEPT ![w] = k]
      PROVE  CallsOK'
  BY <1>1, <1>3 DEF CallsOK
<1>4. ASSUME NEW w \in Workers, AdvanceCall(w) PROVE CallsOK'
  <2> DEFINE k == [pc |-> "sent", op |-> worker[w].op, submit |-> worker[w].fresh,
                   reply |-> "none"]
  <2>1. worker[w] \in Worker /\ worker[w].op \in Ops
    BY <1>4 DEF AdvanceCall, IInv, TypeOK, WorkersKnowTheirRecords, Knows
  <2>2. k \in Call
    BY <2>1 DEF Call, CallPC, Replies, Worker
  <2>3. call' = [call EXCEPT ![w] = k]
    BY <1>4 DEF AdvanceCall
  <2> QED BY <1>3, <2>1, <2>2, <2>3
<1>5. ASSUME NEW w \in Workers, AdvanceReply(w) \/ HandleUnheard(w) PROVE CallsOK'
  BY <1>2, <1>3, <1>5 DEF AdvanceReply, HandleUnheard
<1>6. ASSUME NEW w \in Workers, call[w].pc # "idle", NEW pc \in CallPC,
             call' = [call EXCEPT ![w].pc = pc]
      PROVE  CallsOK'
  <2>1. call' = [call EXCEPT ![w] = [call[w] EXCEPT !.pc = pc]]
    BY <1>6
  <2>2. /\ [call[w] EXCEPT !.pc = pc] \in Call
        /\ [call[w] EXCEPT !.pc = pc].op = call[w].op
    BY <1>1 DEF Call
  <2> QED BY <1>1, <1>3, <1>6, <2>1, <2>2
<1>7. ASSUME NEW w \in Workers, call[w].pc # "idle", NEW reply \in Replies,
             Reply(w, reply)
      PROVE  CallsOK'
  <2> DEFINE k == [call[w] EXCEPT !.pc = "replied", !.reply = reply]
  <2>1. call' = [call EXCEPT ![w] = k]
    BY <1>7 DEF Reply
  <2>2. k \in Call /\ k.op = call[w].op
    BY <1>1 DEF Call, CallPC
  <2> QED BY <1>1, <1>3, <1>7, <2>1, <2>2
<1>8. ASSUME NEW w \in Workers,
             \/ HandleAuthorize(w) \/ HandleRead(w) \/ HandleLookup(w)
             \/ HandleAvailability(w) \/ HandleInsert(w) \/ HandleInsertLost(w)
             \/ HandleFails(w)
      PROVE  CallsOK'
  <2>1. /\ call[w].pc # "idle"
        /\ \/ \E pc \in CallPC : call' = [call EXCEPT ![w].pc = pc]
           \/ \E reply \in Replies : Reply(w, reply)
    BY <1>8 DEF HandleAuthorize, HandleRead, HandleLookup, HandleAvailability,
                HandleInsert, HandleInsertLost, HandleFails, Handling, CallPC, Replies
  <2> QED BY <1>6, <1>7, <2>1
<1>9. CASE UNCHANGED call
  BY <1>1, <1>9 DEF CallsOK
<1>10. ASSUME NEW w \in Workers,
              \/ ConfirmPrecheck(w) \/ ConfirmBegin(w) \/ ConfirmClaim(w)
              \/ ConfirmFinish(w) \/ AdvanceRecheck(w) \/ AdvanceAccept(w)
              \/ AdvanceReadback(w) \/ GrantExpires(w)
       PROVE  UNCHANGED call
  BY <1>10 DEF ConfirmPrecheck, ConfirmBegin, ConfirmClaim, ConfirmFinish,
               AdvanceRecheck, AdvanceAccept, AdvanceReadback, GrantExpires
<1>11. ASSUME NEW w \in Workers, Disturbance(w), ~HandleInsertLost(w), ~HandleFails(w)
       PROVE  UNCHANGED call
  BY <1>11 DEF Disturbance, AdvanceRecheckFails, AdvanceCallFails, AdvanceTimeout,
               AdvanceAcceptHidden, AdvanceAcceptFails, AdvanceReadbackFails,
               ConfirmAnswerLost, ConfirmAbandoned
<1>12. ASSUME NEW w \in Workers, NEW o \in Ops,
              ConfirmExisting(w, o) \/ ConfirmProposal(w, o)
       PROVE  UNCHANGED call
  BY <1>12 DEF ConfirmExisting, ConfirmProposal
<1>13. ASSUME NEW o \in Ops, \/ \E s \in Slots : Propose(o, s)
                             \/ ProposalExpires(o) \/ NextPollReached(o)
                             \/ HostChangesEvent(o) \/ GuestWithdraws(o)
       PROVE  UNCHANGED call
  BY <1>13 DEF Propose, ProposalExpires, NextPollReached, HostChangesEvent, GuestWithdraws
<1>14. CASE UNCHANGED vars
  BY <1>9, <1>14 DEF vars
<1>15. CASE ClockStep
  BY <1>9, <1>15, ClockMovesTheTable
<1> QED
  BY <1>4, <1>5, <1>8, <1>9, <1>10, <1>11, <1>12, <1>13, <1>14, <1>15
     DEF Next, ConfirmStep, HandleStep, ClockStep

CalendarOK ==
  /\ event \in [Ops -> {"none", "live", "changed"}]
  /\ accepted \subseteq Ops /\ declined \subseteq Ops /\ agreed \subseteq Ops
  /\ inserts \in [Ops -> Nat]

\* The calendars change by an insert, by an acceptance and by their owners.
LEMMA CalendarStep ==
  ASSUME IInv, [Next]_vars
  PROVE  CalendarOK'
<1>1. CalendarOK
  BY DEF IInv, TypeOK, CalendarOK
<1>2. ASSUME NEW o \in Ops, SetAccepted(o) \/ InsertEvent(o)
      PROVE  CalendarOK'
  <2>1. CASE SetAccepted(o)
    BY <1>1, <2>1 DEF CalendarOK, SetAccepted
  <2>2. CASE InsertEvent(o)
    BY <1>1, <2>2 DEF CalendarOK, InsertEvent
  <2> QED BY <1>2, <2>1, <2>2
<1>3. CASE UNCHANGED calendarVars
  BY <1>1, <1>3 DEF CalendarOK, calendarVars
<1>4. ASSUME NEW w \in Workers, AdvanceAccept(w) \/ AdvanceAcceptFails(w)
      PROVE  CalendarOK'
  <2>1. worker[w].op \in Ops
    BY <1>4 DEF AdvanceAccept, AdvanceAcceptFails, IInv, WorkersKnowTheirRecords, Knows
  <2>2. UNCHANGED calendarVars \/ SetAccepted(worker[w].op)
    BY <1>4 DEF AdvanceAccept, AdvanceAcceptFails
  <2> QED BY <1>2, <1>3, <2>1, <2>2
<1>5. ASSUME NEW w \in Workers, HandleInsert(w) \/ HandleInsertLost(w)
      PROVE  CalendarOK'
  <2>1. call[w].op \in Ops
    BY <1>5 DEF HandleInsert, HandleInsertLost, Handling, IInv, WorkersKnowTheirRecords
  <2>2. \/ InsertEvent(call[w].op)
        \/ /\ inserts' = [inserts EXCEPT ![call[w].op] = @ + 1]
           /\ UNCHANGED <<event, accepted, declined, agreed>>
    BY <1>5 DEF HandleInsert, HandleInsertLost
  <2> QED BY <1>1, <1>2, <2>1, <2>2 DEF CalendarOK
<1>6. ASSUME NEW o \in Ops, HostChangesEvent(o) \/ GuestWithdraws(o)
      PROVE  CalendarOK'
  <2>1. CASE HostChangesEvent(o)
    BY <1>1, <2>1 DEF CalendarOK, HostChangesEvent
  <2>2. CASE GuestWithdraws(o)
    BY <1>1, <2>2 DEF CalendarOK, GuestWithdraws
  <2> QED BY <1>6, <2>1, <2>2
<1>7. ASSUME NEW w \in Workers,
             \/ ConfirmPrecheck(w) \/ ConfirmBegin(w) \/ ConfirmClaim(w)
             \/ ConfirmFinish(w) \/ AdvanceRecheck(w) \/ AdvanceCall(w)
             \/ AdvanceReply(w) \/ AdvanceReadback(w) \/ GrantExpires(w)
      PROVE  UNCHANGED calendarVars
  BY <1>7 DEF ConfirmPrecheck, ConfirmBegin, ConfirmClaim, ConfirmFinish,
              AdvanceRecheck, AdvanceCall, AdvanceReply, AdvanceReadback, GrantExpires
<1>8. ASSUME NEW w \in Workers,
             \/ HandleAuthorize(w) \/ HandleRead(w) \/ HandleLookup(w)
             \/ HandleAvailability(w) \/ HandleUnheard(w)
      PROVE  UNCHANGED calendarVars
  BY <1>8 DEF HandleAuthorize, HandleRead, HandleLookup, HandleAvailability, HandleUnheard
<1>9. ASSUME NEW w \in Workers, Disturbance(w), ~AdvanceAcceptFails(w),
             ~HandleInsertLost(w)
      PROVE  UNCHANGED calendarVars
  BY <1>9 DEF Disturbance, AdvanceRecheckFails, AdvanceCallFails, AdvanceTimeout,
              AdvanceAcceptHidden, AdvanceReadbackFails, ConfirmAnswerLost,
              ConfirmAbandoned, HandleFails
<1>10. ASSUME NEW w \in Workers, NEW o \in Ops,
              ConfirmExisting(w, o) \/ ConfirmProposal(w, o)
       PROVE  UNCHANGED calendarVars
  BY <1>10 DEF ConfirmExisting, ConfirmProposal
<1>11. ASSUME NEW o \in Ops, \/ \E s \in Slots : Propose(o, s)
                             \/ ProposalExpires(o) \/ NextPollReached(o)
       PROVE  UNCHANGED calendarVars
  BY <1>11 DEF Propose, ProposalExpires, NextPollReached
<1>12. CASE UNCHANGED vars
  BY <1>3, <1>12 DEF vars
<1>13. CASE ClockStep
  BY <1>3, <1>13, ClockMovesTheTable
<1> QED
  BY <1>3, <1>4, <1>5, <1>6, <1>7, <1>8, <1>9, <1>10, <1>11, <1>12, <1>13
     DEF Next, ConfirmStep, HandleStep, ClockStep

\* The proposals, the grants and the count of disturbances.
LEMMA RestStep ==
  ASSUME IInv, [Next]_vars
  PROVE  /\ proposal' \in [Ops -> Slots \union {NoSlot}]
         /\ grant' \subseteq Workers
         /\ disturbed' \in 0..MaxDisturbed
<1> DEFINE OK == /\ proposal' \in [Ops -> Slots \union {NoSlot}]
                 /\ grant' \subseteq Workers
                 /\ disturbed' \in 0..MaxDisturbed
<1>1. /\ proposal \in [Ops -> Slots \union {NoSlot}] /\ grant \subseteq Workers
      /\ disturbed \in 0..MaxDisturbed
  BY DEF IInv, TypeOK
<1>2. Disturb \/ Undisturbed => disturbed' \in 0..MaxDisturbed
  BY <1>1, BoundAssumption DEF Disturb, Undisturbed
<1>3. ASSUME NEW w \in Workers,
             \/ ConfirmPrecheck(w) \/ ConfirmBegin(w) \/ ConfirmClaim(w)
             \/ ConfirmFinish(w) \/ AdvanceRecheck(w) \/ AdvanceCall(w)
             \/ AdvanceReply(w) \/ AdvanceAccept(w) \/ AdvanceReadback(w)
             \/ GrantExpires(w)
      PROVE  OK
  BY <1>1, <1>2, <1>3 DEF ConfirmPrecheck, ConfirmBegin, ConfirmClaim, ConfirmFinish,
     AdvanceRecheck, AdvanceCall, AdvanceReply, AdvanceAccept, AdvanceReadback,
     GrantExpires
<1>4. ASSUME NEW w \in Workers, HandleStep(w) PROVE OK
  BY <1>1, <1>2, <1>4 DEF HandleStep, HandleAuthorize, HandleRead, HandleLookup,
     HandleAvailability, HandleInsert, HandleUnheard, Handling
<1>5. ASSUME NEW w \in Workers, Disturbance(w) PROVE OK
  BY <1>1, <1>2, <1>5 DEF Disturbance, AdvanceRecheckFails, AdvanceCallFails,
     AdvanceTimeout, AdvanceAcceptHidden, AdvanceAcceptFails, AdvanceReadbackFails,
     ConfirmAnswerLost, ConfirmAbandoned, HandleInsertLost, HandleFails, Handling
<1>6. ASSUME NEW w \in Workers, NEW o \in Ops,
             ConfirmExisting(w, o) \/ ConfirmProposal(w, o)
      PROVE  OK
  BY <1>1, <1>2, <1>6 DEF ConfirmExisting, ConfirmProposal
<1>7. ASSUME NEW o \in Ops, \/ \E s \in Slots : Propose(o, s)
                            \/ ProposalExpires(o) \/ NextPollReached(o)
                            \/ HostChangesEvent(o) \/ GuestWithdraws(o)
      PROVE  OK
  BY <1>1, <1>2, <1>7 DEF Propose, ProposalExpires, NextPollReached,
     HostChangesEvent, GuestWithdraws
<1>8. CASE UNCHANGED vars
  BY <1>1, <1>8 DEF vars
<1>9. CASE ClockStep
  BY <1>1, <1>9, ClockMovesTheTable
<1> QED BY <1>3, <1>4, <1>5, <1>6, <1>7, <1>8, <1>9 DEF Next, ConfirmStep, ClockStep

\* No step of a worker is a step of the clock.
LEMMA WorkersDoNotPass ==
  ASSUME NEW w \in Workers, WorkerStep(w)
  PROVE  UNCHANGED over
BY DEF WorkerStep, ConfirmExisting, ConfirmProposal, ConfirmStep, Disturbance,
       ConfirmPrecheck, ConfirmBegin, ConfirmClaim, ConfirmFinish, AdvanceRecheck,
       AdvanceCall, AdvanceReply, AdvanceAccept, AdvanceReadback,
       AdvanceRecheckFails, AdvanceCallFails, AdvanceTimeout, AdvanceAcceptHidden,
       AdvanceAcceptFails, AdvanceReadbackFails, ConfirmAnswerLost, ConfirmAbandoned,
       HandleInsertLost, HandleFails, Handling, BeginWrite, SaveWrite, storeVars

LEMMA OnlySlotsPass ==
  ASSUME [Next]_vars
  PROVE  UNCHANGED over \/ \E s \in Slots : SlotPasses(s)
<1>1. ASSUME NEW w \in Workers, HandleStep(w) \/ GrantExpires(w)
      PROVE  UNCHANGED over
  BY <1>1 DEF HandleStep, GrantExpires, HandleAuthorize, HandleRead, HandleLookup,
              HandleAvailability, HandleInsert, HandleUnheard, Handling, storeVars
<1>2. ASSUME NEW o \in Ops, \/ \E s \in Slots : Propose(o, s)
                            \/ ProposalExpires(o) \/ NextPollReached(o)
                            \/ HostChangesEvent(o) \/ GuestWithdraws(o)
      PROVE  UNCHANGED over
  BY <1>2 DEF Propose, ProposalExpires, NextPollReached, HostChangesEvent,
              GuestWithdraws, BecomeDue, storeVars
<1>3. ASSUME NEW k \in PairSlots, SlotGuardExpires(k) PROVE UNCHANGED over
  BY <1>3 DEF SlotGuardExpires, GuardExpires
<1>4. CASE UNCHANGED vars
  BY <1>4 DEF vars, storeVars
<1> QED BY <1>1, <1>2, <1>3, <1>4, WorkersDoNotPass DEF Next, WorkerStep

\* Slots pass only where nobody is about to claim.
LEMMA ClaimsStep ==
  ASSUME IInv, [Next]_vars
  PROVE  ClaimsAhead'
<1> SUFFICES ASSUME NEW w \in Workers, worker'[w].pc \in {"precheck", "begin"}
             PROVE  Ahead(worker[w].slot)'
  BY DEF ClaimsAhead
<1>1. worker \in [Workers -> Worker] /\ Knows(worker[w])
  BY DEF IInv, TypeOK, WorkersKnowTheirRecords
<1>2. CASE WorkerStep(w)
  <2>1. UNCHANGED over
    BY <1>2, WorkersDoNotPass
  <2>2. CASE \E o \in Ops : ConfirmExisting(w, o) \/ ConfirmProposal(w, o)
    BY <1>1, <2>1, <2>2 DEF ConfirmExisting, ConfirmProposal, Ahead
  <2>3. CASE ConfirmPrecheck(w)
    <3>1. CASE Goto(w, "begin")
      BY <1>1, <2>1, <2>3, <3>1 DEF ConfirmPrecheck, Goto, IInv, ClaimsAhead, Ahead
    <3>2. CASE Return(w)
      BY <3>2, ReturnMoves
    <3> QED BY <2>3, <3>1, <3>2 DEF ConfirmPrecheck
  <2>4. CASE ConfirmBegin(w) \/ ConfirmClaim(w)
    <3>1. CASE Return(w)
      BY <3>1, ReturnMoves
    <3>2. CASE ~Return(w)
      BY <1>1, <2>4, <3>2 DEF ConfirmBegin, ConfirmClaim, Goto, Worker
    <3> QED BY <3>1, <3>2
  <2>5. CASE AttemptStep(w)
    <3>1. CASE UNCHANGED worker
      BY <2>1, <3>1 DEF IInv, ClaimsAhead, Ahead
    <3>2. CASE ~UNCHANGED worker
      BY <2>5, <3>2, AttemptMoves, GotoMoves, FinishMoves, ReturnMoves DEF WorkerPC
    <3> QED BY <3>1, <3>2
  <2> QED BY <1>2, <2>2, <2>3, <2>4, <2>5 DEF WorkerStep, ConfirmStep, AttemptStep
<1>3. CASE ~WorkerStep(w)
  <2>1. worker'[w] = worker[w]
    BY <1>3, OthersKeepTheWorker
  <2>2. over' = over \/ \E s \in Slots : SlotPasses(s)
    BY OnlySlotsPass
  <2> QED BY <2>1, <2>2 DEF SlotPasses, SlotEnds, IInv, ClaimsAhead, Ahead
<1> QED BY <1>2, <1>3

LEMMA InvStep == IInv /\ [Next]_vars => IInv'
<1> SUFFICES ASSUME IInv, [Next]_vars PROVE IInv'
  OBVIOUS
<1>1. StoreTypeOK'
  BY StoreStep, StoreTypeStep DEF IInv, TypeOK
<1>2. TypeOK'
  BY <1>1, WorkersStep, CallsStep, CalendarStep, RestStep DEF TypeOK, CallsOK, CalendarOK
<1>3. WorkersKnowTheirRecords'
  BY WorkersStep, CallsStep DEF WorkersKnowTheirRecords, CallsOK
<1>4. ClaimsAhead'
  BY ClaimsStep
<1> QED BY <1>2, <1>3, <1>4 DEF IInv

LEMMA InvInit == Init => IInv
<1> SUFFICES ASSUME Init PROVE IInv
  OBVIOUS
<1>1. StoreTypeOK
  BY DEF Init, StoreInit, StoreTypeOK, Record, NoRecord, Exists
<1>2. IdleWorker \in Worker /\ IdleCall \in Call
  BY DEF IdleWorker, Worker, WorkerPC, Results, IdleCall, Call, CallPC, Replies
<1>3. TypeOK
  BY <1>1, <1>2, BoundAssumption DEF Init, TypeOK
<1>4. WorkersKnowTheirRecords
  BY DEF Init, WorkersKnowTheirRecords, Knows, IdleWorker, IdleCall, AttemptPC
<1>5. ClaimsAhead
  BY DEF Init, ClaimsAhead, IdleWorker
<1> QED BY <1>3, <1>4, <1>5 DEF IInv

LEMMA InvCorrect == Spec => []IInv
  BY InvInit, InvStep, PTL DEF Spec

\* The variables of the confirm flow keep their types, whatever the number of
\* agents, operations and workers.
THEOREM TypeCorrect == Spec => []TypeOK
  BY InvCorrect, PTL DEF IInv

\* A save that passes the revision check was computed from the record it
\* replaces.
THEOREM KnowledgeCorrect == Spec => []WorkersKnowTheirRecords
  BY InvCorrect, PTL DEF IInv

\* The confirm flow, with its retries, lost answers and stalled workers, keeps
\* the discipline of the bookings table.
THEOREM ImplementsStore == Spec => StoreSpec
<1>1. Init => StoreInit
  BY DEF Init
<1> QED BY <1>1, InvCorrect, StoreStep, PTL DEF Spec, StoreSpec

\* Hence its agents' locks always agree with its records, and the guards of its
\* pairs do until their TTL, which no worker saw coming, takes them away ...
THEOREM ConnectedGuards == Spec => []GuardsMatchRecords
  BY ImplementsStore, GuardsCorrect, PTL

\* ... no agent, as host or as guest, is in two unresolved operations ...
THEOREM ConnectedAgentExclusion == Spec => []OneOpenOperationPerAgent
  BY ImplementsStore, AgentExclusion, PTL

\* ... and no pair has two unresolved or booked operations at one slot.
THEOREM ConnectedPairSlotExclusion == Spec => []PairSlotTakenOnce
  BY ImplementsStore, PairSlotExclusion, PTL

\* What is settled stays settled, whichever stalled worker comes back.
THEOREM ConnectedTerminalFinality == Spec => TerminalIsFinal
  BY ImplementsStore, TerminalFinality, PTL
-----------------------------------------------------------------------------
(***************************************************************************)
(* The meetings of the confirm flow, proved for any agents, operations,    *)
(* workers, slots and disturbances: at most one insert per operation, no   *)
(* event for a refused one, an agreement behind every booked one, no pair  *)
(* twice at a slot and no agent in two meetings at once.                   *)
(*                                                                         *)
(* The idea: an operation has at most one submitter, the worker that       *)
(* created its record or the handler that this worker called.  When it is  *)
(* gone without an insert the operation is dead, and only then refused.    *)
(***************************************************************************)

UnderWay == {"sent", "authorized", "lookup", "availability", "insert"}

\* A worker k and its call c may still lead to an insert for operation o.
SubmitsOf(k, c, o) ==
  \/ k.op = o /\ k.fresh = TRUE /\ k.pc \in {"recheck", "call"}
  \/ c.op = o /\ c.submit = TRUE /\ c.pc \in UnderWay
Submits(w, o) == SubmitsOf(worker[w], call[w], o)

Dead(o) == Exists(o) /\ inserts[o] = 0 /\ \A v \in Workers : ~Submits(v, o)

\* A worker and its call belong together.
ShapeOK(k, c) ==
  /\ k.pc \in {"precheck", "begin", "recheck"} => k.fresh = TRUE
  /\ k.pc = "claim" => k.fresh = FALSE
  /\ k.pc \in {"precheck", "begin", "claim", "recheck", "call"} => c.pc = "idle"
  /\ k.pc = "wait" => c.pc # "idle" /\ c.op = k.op
  /\ c.pc \in {"availability", "insert"} => c.submit = TRUE

\* What a result or an answer says of the operation.
ResultOK(k) ==
  k.pc = "finish" =>
    /\ k.result = "booked" => event[k.op] # "none" /\ k.op \in agreed
    /\ k.fresh = TRUE /\ k.result \in {"slot_no_longer_available", "calendar_preflight_failed"}
         => Dead(k.op)
ReplyOK(c) == c.pc = "replied" /\ c.reply = "slot_no_longer_available" => Dead(c.op)

Shapes == \A w \in Workers : ShapeOK(worker[w], call[w])
Answers == \A w \in Workers : ResultOK(worker[w]) /\ ReplyOK(call[w])
Submissions ==
  \A o \in Ops :
    /\ \A v, w \in Workers : Submits(v, o) /\ Submits(w, o) => v = w
    /\ \A w \in Workers : Submits(w, o) => Exists(o) /\ inserts[o] = 0
    /\ ~Exists(o) => inserts[o] = 0
    /\ inserts[o] <= 1
    /\ event[o] # "none" => inserts[o] # 0
Outcomes ==
  \A o \in Ops :
    /\ record[o].stage \in Refused => Dead(o)
    /\ record[o].stage = "booked" => event[o] # "none" /\ o \in agreed
Copies ==
  \A o \in Ops : /\ o \in accepted => o \in agreed
                 /\ o \in agreed => o \in accepted \/ o \in declined
JInv == IInv /\ Shapes /\ Answers /\ Submissions /\ Outcomes /\ Copies
-----------------------------------------------------------------------------
(* How a step moves one worker and its call.                                *)
StepOf(w) == WorkerStep(w) \/ HandleStep(w)

LEMMA OthersKeepTheCall ==
  ASSUME IInv, [Next]_vars, NEW w \in Workers, ~StepOf(w)
  PROVE  call'[w] = call[w]
<1> USE DEF IInv, TypeOK, Reply
<1>1. ASSUME NEW v \in Workers, v # w, WorkerStep(v)
      PROVE  call'[w] = call[w]
  BY <1>1 DEF WorkerStep, ConfirmExisting, ConfirmProposal, ConfirmStep, Disturbance,
       ConfirmPrecheck, ConfirmBegin, ConfirmClaim, ConfirmFinish, AdvanceRecheck,
       AdvanceCall, AdvanceReply, AdvanceAccept, AdvanceReadback,
       AdvanceRecheckFails, AdvanceCallFails, AdvanceTimeout, AdvanceAcceptHidden,
       AdvanceAcceptFails, AdvanceReadbackFails, ConfirmAnswerLost, ConfirmAbandoned,
       HandleInsertLost, HandleFails
<1>2. ASSUME NEW v \in Workers, v # w, HandleStep(v) \/ GrantExpires(v)
      PROVE  call'[w] = call[w]
  BY <1>2 DEF HandleStep, GrantExpires, HandleAuthorize, HandleRead, HandleLookup,
              HandleAvailability, HandleInsert, HandleUnheard
<1>3. CASE GrantExpires(w)
  BY <1>3 DEF GrantExpires
<1>4. ASSUME NEW o \in Ops, \/ \E s \in Slots : Propose(o, s)
                            \/ ProposalExpires(o) \/ NextPollReached(o)
                            \/ HostChangesEvent(o) \/ GuestWithdraws(o)
      PROVE  call' = call
  BY <1>4 DEF Propose, ProposalExpires, NextPollReached, HostChangesEvent, GuestWithdraws
<1>5. CASE UNCHANGED vars
  BY <1>5 DEF vars
<1>6. CASE ClockStep
  BY <1>6, ClockMovesTheTable
<1> QED BY <1>1, <1>2, <1>3, <1>4, <1>5, <1>6 DEF Next, WorkerStep, StepOf, ClockStep

\* A submitter past its check of a party's calendar relies on what it read.
NeedsOf(k, c, o, a) ==
  \/ a = Peer[o] /\ k.op = o /\ k.fresh = TRUE /\ k.pc = "call"
  \/ a = Peer[o] /\ c.op = o /\ c.submit = TRUE /\ c.pc \in UnderWay
  \/ a = Host[o] /\ c.op = o /\ c.pc = "insert"
ChecksOf(k, c, o, a) ==
  \/ a = Peer[o] /\ k.op = o /\ k.pc = "recheck" /\ MayBeFree(a, k.slot)
  \/ a = Host[o] /\ c.op = o /\ c.pc = "availability" /\ MayBeFree(a, record[o].slot)

\* What a step may do to a worker k and its call c, that become l and d.
Effect(k, c, l, d) ==
  /\ ShapeOK(l, d)
  /\ \A o \in Ops : SubmitsOf(l, d, o) =>
       \/ SubmitsOf(k, c, o)
       \/ k.pc = "begin" /\ ~Exists(o) /\ l.pc = "recheck" /\ l.op = o
  /\ \A o \in Ops : \A a \in Agents : NeedsOf(l, d, o, a) =>
       NeedsOf(k, c, o, a) \/ ChecksOf(k, c, o, a)

\* Workers in the steps before the call, and those that end.
LEMMA MovesBeforeTheCall ==
  ASSUME IInv, Shapes, NEW w \in Workers,
         \/ \E o \in Ops : ConfirmExisting(w, o) \/ ConfirmProposal(w, o)
         \/ ConfirmPrecheck(w) \/ ConfirmBegin(w) \/ ConfirmClaim(w) \/ AdvanceRecheck(w)
         \/ AdvanceRecheckFails(w) \/ AdvanceCallFails(w)
  PROVE  Effect(worker[w], call[w], worker'[w], call'[w])
<1> DEFINE k == worker[w]
           c == call[w]
<1>0. /\ worker \in [Workers -> Worker] /\ call \in [Workers -> Call]
      /\ k \in Worker /\ c \in Call /\ ShapeOK(k, c)
  BY DEF IInv, TypeOK, Shapes
<1>1. ASSUME NEW pc \in WorkerPC, Goto(w, pc)
      PROVE  worker'[w] = [k EXCEPT !.pc = pc]
  BY <1>0, <1>1 DEF Goto
<1>2. ASSUME NEW result, Finish(w, result)
      PROVE  worker'[w] = [k EXCEPT !.pc = "finish", !.result = result]
  BY <1>0, <1>2 DEF Finish
<1>3. ASSUME Return(w)
      PROVE  worker'[w] = IdleWorker
  BY <1>0, <1>3 DEF Return
<1>4. ASSUME NEW o \in Ops, ConfirmExisting(w, o)
      PROVE  Effect(k, c, worker'[w], call'[w])
  <2>1. /\ worker'[w].pc = "claim" /\ worker'[w].fresh = FALSE
        /\ call'[w] = call[w] /\ call[w] = IdleCall
    BY <1>0, <1>4 DEF ConfirmExisting, Available
  <2> QED BY <2>1 DEF Effect, ShapeOK, SubmitsOf, NeedsOf, IdleCall, UnderWay
<1>5. ASSUME NEW o \in Ops, ConfirmProposal(w, o)
      PROVE  Effect(k, c, worker'[w], call'[w])
  <2>1. /\ worker'[w].pc = "precheck" /\ worker'[w].fresh = TRUE
        /\ call'[w] = call[w] /\ call[w] = IdleCall
    BY <1>0, <1>5 DEF ConfirmProposal, Available
  <2> QED BY <2>1 DEF Effect, ShapeOK, SubmitsOf, NeedsOf, IdleCall, UnderWay
<1>6. IdleWorker.pc = "idle"
  BY DEF IdleWorker
<1>7. ASSUME ConfirmPrecheck(w)
      PROVE  Effect(k, c, worker'[w], call'[w])
  <2>1. /\ k.pc = "precheck" /\ call'[w] = c
        /\ worker'[w] = [k EXCEPT !.pc = "begin"] \/ worker'[w] = IdleWorker
    BY <1>1, <1>3, <1>7 DEF ConfirmPrecheck, WorkerPC
  <2> HIDE DEF k, c
  <2> QED BY <1>0, <1>6, <2>1 DEF Effect, ShapeOK, SubmitsOf, NeedsOf, Worker, UnderWay
<1>8. ASSUME ConfirmBegin(w)
      PROVE  Effect(k, c, worker'[w], call'[w])
  <2>1. /\ k.pc = "begin" /\ call'[w] = c
        /\ \/ worker'[w] = [k EXCEPT !.pc = "recheck"] /\ ~Exists(k.op)
           \/ worker'[w] = IdleWorker
    BY <1>1, <1>3, <1>8 DEF ConfirmBegin, WorkerPC, CanBegin
  <2> HIDE DEF k, c
  <2> QED BY <1>0, <1>6, <2>1 DEF Effect, ShapeOK, SubmitsOf, NeedsOf, Worker, UnderWay
<1>9. ASSUME ConfirmClaim(w)
      PROVE  Effect(k, c, worker'[w], call'[w])
  <2>1. /\ k.pc = "claim" /\ call'[w] = c
        /\ \/ worker'[w] = [k EXCEPT !.pc = "call", !.rev = k.rev + 1]
           \/ worker'[w] = IdleWorker
    BY <1>0, <1>3, <1>9 DEF ConfirmClaim
  <2> HIDE DEF k, c
  <2> QED BY <1>0, <1>6, <2>1 DEF Effect, ShapeOK, SubmitsOf, NeedsOf, Worker, UnderWay
<1>10. ASSUME AdvanceRecheck(w) \/ AdvanceRecheckFails(w) \/ AdvanceCallFails(w)
       PROVE  Effect(k, c, worker'[w], call'[w])
  <2>1. /\ k.pc \in {"recheck", "call"} /\ call'[w] = c
        /\ \/ /\ worker'[w] = [k EXCEPT !.pc = "call"]
              /\ k.pc = "recheck" /\ MayBeFree(Peer[k.op], k.slot)
           \/ \E result : worker'[w] = [k EXCEPT !.pc = "finish", !.result = result]
    BY <1>1, <1>2, <1>10 DEF AdvanceRecheck, AdvanceRecheckFails, AdvanceCallFails, WorkerPC
  <2> DEFINE l == worker'[w]
  <2> HIDE DEF k, c, l
  <2>2. CASE l.pc = "finish"
    BY <1>0, <2>1, <2>2 DEF Effect, ShapeOK, SubmitsOf, NeedsOf, UnderWay, l
  <2>3. CASE /\ l = [k EXCEPT !.pc = "call"]
             /\ k.pc = "recheck" /\ MayBeFree(Peer[k.op], k.slot)
    <3>1. l.pc = "call" /\ l.op = k.op /\ l.fresh = k.fresh /\ c.pc = "idle"
      BY <1>0, <2>3 DEF Worker, ShapeOK
    <3>2. ASSUME NEW o \in Ops, NEW a \in Agents, NeedsOf(l, c, o, a)
          PROVE  ChecksOf(k, c, o, a)
      BY <2>3, <3>1, <3>2 DEF NeedsOf, ChecksOf, UnderWay
    <3> QED BY <1>0, <2>1, <2>3, <3>1, <3>2 DEF Effect, ShapeOK, SubmitsOf, UnderWay, l
  <2> QED BY <1>0, <2>1, <2>2, <2>3 DEF Worker, l
<1> QED BY <1>4, <1>5, <1>7, <1>8, <1>9, <1>10

\* Workers from the call on.
LEMMA MovesFromTheCall ==
  ASSUME IInv, Shapes, NEW w \in Workers,
         \/ AdvanceCall(w) \/ AdvanceReply(w) \/ AdvanceTimeout(w)
         \/ AdvanceAccept(w) \/ AdvanceReadback(w) \/ ConfirmFinish(w)
         \/ AdvanceAcceptHidden(w) \/ AdvanceAcceptFails(w) \/ AdvanceReadbackFails(w)
         \/ ConfirmAnswerLost(w) \/ ConfirmAbandoned(w)
  PROVE  Effect(worker[w], call[w], worker'[w], call'[w])
<1> DEFINE k == worker[w]
           c == call[w]
<1>0. /\ worker \in [Workers -> Worker] /\ call \in [Workers -> Call]
      /\ k \in Worker /\ c \in Call /\ ShapeOK(k, c)
  BY DEF IInv, TypeOK, Shapes
<1>1. ASSUME NEW pc \in WorkerPC, Goto(w, pc)
      PROVE  worker'[w] = [k EXCEPT !.pc = pc]
  BY <1>0, <1>1 DEF Goto
<1>2. ASSUME NEW result, Finish(w, result)
      PROVE  worker'[w] = [k EXCEPT !.pc = "finish", !.result = result]
  BY <1>0, <1>2 DEF Finish
<1>3. ASSUME Return(w)
      PROVE  worker'[w] = IdleWorker
  BY <1>0, <1>3 DEF Return
<1>4. IdleWorker.pc = "idle" /\ IdleCall.pc = "idle"
  BY DEF IdleWorker, IdleCall
<1>5. ASSUME AdvanceCall(w)
      PROVE  Effect(k, c, worker'[w], call'[w])
  <2>1. /\ k.pc = "call" /\ worker'[w] = [k EXCEPT !.pc = "wait"]
        /\ call'[w] = [pc |-> "sent", op |-> k.op, submit |-> k.fresh, reply |-> "none"]
    BY <1>0, <1>1, <1>5 DEF AdvanceCall, WorkerPC
  <2> HIDE DEF k, c
  <2>2. /\ worker'[w].pc = "wait" /\ worker'[w].op = k.op
        /\ call'[w].pc = "sent" /\ call'[w].op = k.op /\ call'[w].submit = k.fresh
    BY <1>0, <2>1 DEF Worker
  <2> QED BY <2>1, <2>2 DEF Effect, ShapeOK, SubmitsOf, NeedsOf, UnderWay
<1>6. ASSUME AdvanceReply(w)
      PROVE  Effect(k, c, worker'[w], call'[w])
  <2>1. /\ call'[w] = IdleCall
        /\ \/ worker'[w] = [k EXCEPT !.pc = "accept"]
           \/ \E result : worker'[w] = [k EXCEPT !.pc = "finish", !.result = result]
    BY <1>0, <1>1, <1>2, <1>6 DEF AdvanceReply, WorkerPC
  <2> HIDE DEF k, c
  <2>2. worker'[w].pc \in {"accept", "finish"}
    BY <1>0, <2>1 DEF Worker
  <2> QED BY <1>4, <2>1, <2>2 DEF Effect, ShapeOK, SubmitsOf, NeedsOf, UnderWay
<1>7. ASSUME AdvanceTimeout(w) \/ AdvanceAccept(w) \/ AdvanceReadback(w)
             \/ AdvanceAcceptHidden(w) \/ AdvanceAcceptFails(w) \/ AdvanceReadbackFails(w)
      PROVE  Effect(k, c, worker'[w], call'[w])
  <2>1. /\ call'[w] = c
        /\ \/ worker'[w] = [k EXCEPT !.pc = "readback"]
           \/ \E result : worker'[w] = [k EXCEPT !.pc = "finish", !.result = result]
    BY <1>1, <1>2, <1>7 DEF AdvanceTimeout, AdvanceAccept, AdvanceReadback,
         AdvanceAcceptHidden, AdvanceAcceptFails, AdvanceReadbackFails, WorkerPC
  <2> HIDE DEF k, c
  <2>2. worker'[w].pc \in {"readback", "finish"}
    BY <1>0, <2>1 DEF Worker
  <2> QED BY <1>0, <2>1, <2>2 DEF Effect, ShapeOK, SubmitsOf, NeedsOf
<1>8. ASSUME ConfirmFinish(w) \/ ConfirmAnswerLost(w) \/ ConfirmAbandoned(w)
      PROVE  Effect(k, c, worker'[w], call'[w])
  <2>1. call'[w] = c /\ worker'[w] = IdleWorker
    BY <1>3, <1>8 DEF ConfirmFinish, ConfirmAnswerLost, ConfirmAbandoned
  <2> HIDE DEF k, c
  <2> QED BY <1>0, <1>4, <2>1 DEF Effect, ShapeOK, SubmitsOf, NeedsOf
<1> QED BY <1>5, <1>6, <1>7, <1>8

\* The handler's own steps.
LEMMA MovesOfTheHandler ==
  ASSUME IInv, Shapes, NEW w \in Workers,
         HandleStep(w) \/ HandleInsertLost(w) \/ HandleFails(w)
  PROVE  /\ Effect(worker[w], call[w], worker'[w], call'[w])
         /\ worker' = worker
<1> DEFINE k == worker[w]
           c == call[w]
<1>0. /\ worker \in [Workers -> Worker] /\ call \in [Workers -> Call]
      /\ k \in Worker /\ c \in Call /\ ShapeOK(k, c)
  BY DEF IInv, TypeOK, Shapes
<1>1. worker' = worker
  BY DEF HandleStep, HandleAuthorize, HandleRead, HandleLookup, HandleAvailability,
         HandleInsert, HandleUnheard, HandleInsertLost, HandleFails, Handling
<1>2. ASSUME NEW reply, Reply(w, reply)
      PROVE  call'[w] = [c EXCEPT !.pc = "replied", !.reply = reply]
  BY <1>0, <1>2 DEF Reply
<1>3. IdleCall.pc = "idle"
  BY DEF IdleCall
<1>4. ASSUME c.pc # "idle", \E reply : call'[w] = [c EXCEPT !.pc = "replied", !.reply = reply]
      PROVE  Effect(k, c, worker'[w], call'[w])
  <2> HIDE DEF k, c
  <2>1. call'[w].pc = "replied" /\ call'[w].op = c.op
    BY <1>0, <1>4 DEF Call
  <2> QED BY <1>0, <1>1, <1>4, <2>1 DEF Effect, ShapeOK, SubmitsOf, NeedsOf, UnderWay, k
<1>5. ASSUME HandleAuthorize(w) \/ HandleRead(w)
      PROVE  Effect(k, c, worker'[w], call'[w])
  <2>1. /\ c.pc \in {"sent", "authorized"}
        /\ \/ \E pc \in {"authorized", "lookup"} : call'[w] = [c EXCEPT !.pc = pc]
           \/ \E reply : call'[w] = [c EXCEPT !.pc = "replied", !.reply = reply]
    BY <1>0, <1>2, <1>5 DEF HandleAuthorize, HandleRead, Handling
  <2>2. CASE \E pc \in {"authorized", "lookup"} : call'[w] = [c EXCEPT !.pc = pc]
    <3> HIDE DEF k, c
    <3>1. /\ call'[w].pc \in {"authorized", "lookup"} /\ call'[w].op = c.op
          /\ call'[w].submit = c.submit
      BY <1>0, <2>2 DEF Call
    <3> QED BY <1>0, <1>1, <2>1, <3>1 DEF Effect, ShapeOK, SubmitsOf, NeedsOf, UnderWay, k
  <2> QED BY <1>4, <2>1, <2>2
<1>6. ASSUME HandleLookup(w)
      PROVE  Effect(k, c, worker'[w], call'[w])
  <2>1. /\ c.pc = "lookup"
        /\ \/ call'[w] = [c EXCEPT !.pc = "availability"] /\ c.submit
           \/ \E reply : call'[w] = [c EXCEPT !.pc = "replied", !.reply = reply]
    BY <1>0, <1>2, <1>6 DEF HandleLookup, Handling
  <2>2. CASE call'[w] = [c EXCEPT !.pc = "availability"] /\ c.submit
    <3> HIDE DEF k, c
    <3>1. c.submit = TRUE
      BY <1>0, <2>2 DEF Call
    <3>2. /\ call'[w].pc = "availability" /\ call'[w].op = c.op
          /\ call'[w].submit = c.submit
      BY <1>0, <2>2 DEF Call
    <3> QED BY <1>0, <1>1, <2>1, <3>1, <3>2 DEF Effect, ShapeOK, SubmitsOf, NeedsOf, UnderWay, k
  <2> QED BY <1>4, <2>1, <2>2
<1>7. ASSUME HandleAvailability(w)
      PROVE  Effect(k, c, worker'[w], call'[w])
  <2>1. /\ c.pc = "availability"
        /\ \/ /\ call'[w] = [c EXCEPT !.pc = "insert"]
              /\ MayBeFree(Host[c.op], record[c.op].slot)
           \/ \E reply : call'[w] = [c EXCEPT !.pc = "replied", !.reply = reply]
    BY <1>0, <1>2, <1>7 DEF HandleAvailability, Handling
  <2>2. CASE /\ call'[w] = [c EXCEPT !.pc = "insert"]
             /\ MayBeFree(Host[c.op], record[c.op].slot)
    <3> HIDE DEF k, c
    <3>1. call'[w].pc = "insert" /\ call'[w].op = c.op /\ call'[w].submit = c.submit
      BY <1>0, <2>2 DEF Call
    <3> QED BY <1>0, <1>1, <2>1, <2>2, <3>1
            DEF Effect, ShapeOK, SubmitsOf, NeedsOf, ChecksOf, UnderWay, k
  <2> QED BY <1>4, <2>1, <2>2
<1>8. ASSUME HandleInsert(w) \/ HandleInsertLost(w) \/ HandleFails(w)
      PROVE  Effect(k, c, worker'[w], call'[w])
  <2>1. /\ c.pc # "idle"
        /\ \E reply : call'[w] = [c EXCEPT !.pc = "replied", !.reply = reply]
    BY <1>2, <1>8 DEF HandleInsert, HandleInsertLost, HandleFails, Handling
  <2> QED BY <1>4, <2>1
<1>9. ASSUME HandleUnheard(w)
      PROVE  Effect(k, c, worker'[w], call'[w])
  <2>1. k.pc # "wait" /\ call'[w] = IdleCall
    BY <1>0, <1>9 DEF HandleUnheard
  <2> HIDE DEF k, c
  <2> QED BY <1>0, <1>1, <1>3, <2>1 DEF Effect, ShapeOK, SubmitsOf, NeedsOf, UnderWay, k
<1> QED BY <1>1, <1>5, <1>6, <1>7, <1>8, <1>9 DEF HandleStep

LEMMA StepHasEffect ==
  ASSUME IInv, Shapes, NEW w \in Workers, StepOf(w)
  PROVE  Effect(worker[w], call[w], worker'[w], call'[w])
BY MovesBeforeTheCall, MovesFromTheCall, MovesOfTheHandler
   DEF StepOf, WorkerStep, ConfirmStep, Disturbance

\* In any step every worker has an effect of its own, or none.
LEMMA AllHaveEffect ==
  ASSUME IInv, Shapes, [Next]_vars, NEW w \in Workers
  PROVE  Effect(worker[w], call[w], worker'[w], call'[w])
<1>1. CASE StepOf(w)
  BY <1>1, StepHasEffect
<1>2. CASE ~StepOf(w)
  <2>1. worker'[w] = worker[w] /\ call'[w] = call[w]
    BY <1>2, OthersKeepTheWorker, OthersKeepTheCall DEF StepOf
  <2> QED BY <2>1 DEF Effect, Shapes
<1> QED BY <1>1, <1>2
-----------------------------------------------------------------------------
(* How a step changes the calendars and the records.                        *)
Inserts(w) ==
  LET o == call[w].op IN
  /\ call[w].pc = "insert" /\ worker' = worker /\ UNCHANGED record
  /\ call'[w].pc = "replied" /\ call'[w].reply # "slot_no_longer_available"
  /\ inserts' = [inserts EXCEPT ![o] = @ + 1]
  /\ event' \in {event, [event EXCEPT ![o] = IF @ = "none" THEN "live" ELSE @]}
  /\ UNCHANGED <<accepted, declined, agreed>>

LEMMA CalendarMoves ==
  ASSUME IInv, [Next]_vars
  PROVE  \/ UNCHANGED calendarVars
         \/ \E w \in Workers : Inserts(w)
         \/ \E o \in Ops : event[o] = "live" /\ SetAccepted(o) /\ UNCHANGED storeVars
         \/ \E o \in Ops : HostChangesEvent(o) \/ GuestWithdraws(o)
<1>1. ASSUME NEW w \in Workers, AdvanceAccept(w) \/ AdvanceAcceptFails(w)
      PROVE  \/ UNCHANGED calendarVars
             \/ \E o \in Ops : event[o] = "live" /\ SetAccepted(o) /\ UNCHANGED storeVars
  <2>1. worker[w].op \in Ops
    BY <1>1 DEF AdvanceAccept, AdvanceAcceptFails, IInv, WorkersKnowTheirRecords, Knows
  <2> QED BY <1>1, <2>1 DEF AdvanceAccept, AdvanceAcceptFails
<1>2. ASSUME NEW w \in Workers, HandleInsert(w) \/ HandleInsertLost(w)
      PROVE  Inserts(w)
  <2>1. \E reply \in {"error", "event_created"} : Reply(w, reply)
    BY <1>2 DEF HandleInsert, HandleInsertLost
  <2>2. call'[w].pc = "replied" /\ call'[w].reply # "slot_no_longer_available"
    BY <2>1 DEF Reply, IInv, TypeOK, Call
  <2> QED BY <1>2, <2>2 DEF Inserts, HandleInsert, HandleInsertLost, Handling, InsertEvent, storeVars
<1>7. ASSUME NEW w \in Workers,
             \/ ConfirmPrecheck(w) \/ ConfirmBegin(w) \/ ConfirmClaim(w)
             \/ ConfirmFinish(w) \/ AdvanceRecheck(w) \/ AdvanceCall(w)
             \/ AdvanceReply(w) \/ AdvanceReadback(w) \/ GrantExpires(w)
      PROVE  UNCHANGED calendarVars
  BY <1>7 DEF ConfirmPrecheck, ConfirmBegin, ConfirmClaim, ConfirmFinish,
              AdvanceRecheck, AdvanceCall, AdvanceReply, AdvanceReadback, GrantExpires
<1>8. ASSUME NEW w \in Workers,
             \/ HandleAuthorize(w) \/ HandleRead(w) \/ HandleLookup(w)
             \/ HandleAvailability(w) \/ HandleUnheard(w)
      PROVE  UNCHANGED calendarVars
  BY <1>8 DEF HandleAuthorize, HandleRead, HandleLookup, HandleAvailability, HandleUnheard
<1>9. ASSUME NEW w \in Workers, Disturbance(w), ~AdvanceAcceptFails(w),
             ~HandleInsertLost(w)
      PROVE  UNCHANGED calendarVars
  BY <1>9 DEF Disturbance, AdvanceRecheckFails, AdvanceCallFails, AdvanceTimeout,
              AdvanceAcceptHidden, AdvanceReadbackFails, ConfirmAnswerLost,
              ConfirmAbandoned, HandleFails
<1>10. ASSUME NEW w \in Workers, NEW o \in Ops,
              ConfirmExisting(w, o) \/ ConfirmProposal(w, o)
       PROVE  UNCHANGED calendarVars
  BY <1>10 DEF ConfirmExisting, ConfirmProposal
<1>11. ASSUME NEW o \in Ops, \/ \E s \in Slots : Propose(o, s)
                             \/ ProposalExpires(o) \/ NextPollReached(o)
       PROVE  UNCHANGED calendarVars
  BY <1>11 DEF Propose, ProposalExpires, NextPollReached
<1>12. CASE UNCHANGED vars
  BY <1>12 DEF vars
<1>13. CASE ClockStep
  BY <1>13, ClockMovesTheTable
<1> QED
  BY <1>1, <1>2, <1>7, <1>8, <1>9, <1>10, <1>11, <1>12, <1>13
     DEF Next, ConfirmStep, HandleStep, ClockStep

\* An event appears by an insert, and is never gone again; one that the host
\* changed is not live again.
LEMMA EventsMove ==
  ASSUME IInv, [Next]_vars, NEW o \in Ops
  PROVE  /\ event[o] # "none" => event'[o] # "none"
         /\ event[o] = "changed" => event'[o] = "changed"
         /\ inserts'[o] # inserts[o] =>
              \E w \in Workers : Inserts(w) /\ call[w].op = o /\ inserts'[o] = inserts[o] + 1
         /\ event[o] = "none" /\ event'[o] # "none" => inserts'[o] # inserts[o]
<1>0. event \in [Ops -> {"none", "live", "changed"}] /\ inserts \in [Ops -> Nat]
  BY DEF IInv, TypeOK
<1>1. CASE UNCHANGED calendarVars
  BY <1>1 DEF calendarVars
<1>2. ASSUME NEW w \in Workers, Inserts(w)
      PROVE  /\ event[o] # "none" => event'[o] # "none"
             /\ event[o] = "changed" => event'[o] = "changed"
             /\ inserts'[o] # inserts[o] => call[w].op = o /\ inserts'[o] = inserts[o] + 1
             /\ event[o] = "none" /\ event'[o] # "none" => inserts'[o] # inserts[o]
  BY <1>0, <1>2 DEF Inserts
<1>3. CASE \E p \in Ops : SetAccepted(p)
  BY <1>3 DEF SetAccepted
<1>4. ASSUME NEW p \in Ops, HostChangesEvent(p) \/ GuestWithdraws(p)
      PROVE  /\ inserts' = inserts
             /\ event' = event \/ (event[p] = "live" /\ event' = [event EXCEPT ![p] = "changed"])
  BY <1>4 DEF HostChangesEvent, GuestWithdraws
<1> QED BY <1>0, <1>1, <1>2, <1>3, <1>4, CalendarMoves

LEMMA CopiesMove ==
  ASSUME IInv, Copies, [Next]_vars
  PROVE  /\ Copies' /\ agreed \subseteq agreed' /\ declined \subseteq declined'
<1>1. CASE UNCHANGED calendarVars \/ \E w \in Workers : Inserts(w)
  BY <1>1 DEF calendarVars, Inserts, Copies
<1>2. ASSUME NEW p \in Ops, SetAccepted(p) \/ HostChangesEvent(p) \/ GuestWithdraws(p)
      PROVE  /\ Copies' /\ agreed \subseteq agreed' /\ declined \subseteq declined'
  BY <1>2 DEF SetAccepted, HostChangesEvent, GuestWithdraws, Copies
<1> QED BY <1>1, <1>2, CalendarMoves

\* A record is settled by the worker that finishes its operation.
LEMMA SettledByItsWorker ==
  ASSUME IInv, [Next]_vars, NEW o \in Ops,
         record'[o].stage # record[o].stage, record'[o].stage \in Terminal
  PROVE  \E w \in Workers :
           worker[w].pc = "finish" /\ worker[w].op = o /\ ResultStage(w) = record'[o].stage
<1>0. record \in [Ops -> Record]
  BY DEF IInv, TypeOK, StoreTypeOK
<1>1. ASSUME NEW w \in Workers, ConfirmBegin(w) \/ ConfirmAnswerLost(w) \/ ConfirmClaim(w)
      PROVE  FALSE
  <2>1. /\ Knows(worker[w]) /\ worker[w].pc \in {"begin", "claim"}
    BY <1>1 DEF IInv, WorkersKnowTheirRecords, ConfirmBegin, ConfirmAnswerLost, ConfirmClaim
  <2>2. worker[w].stage \in Unresolved /\ worker[w].op \in Ops
    BY <2>1 DEF Knows
  <2> DEFINE begun == [stage |-> "submitting", slot |-> worker[w].slot, rev |-> 0, due |-> FALSE]
  <2>3. begun.stage \in Unresolved /\ ClaimRecord(w).stage \in Unresolved
    BY <2>2 DEF ClaimRecord, Unresolved
  <2>4. \/ UNCHANGED record
        \/ record' = [record EXCEPT ![worker[w].op] = begun]
        \/ record' = [record EXCEPT ![worker[w].op] = ClaimRecord(w)]
    BY <1>1, <2>2 DEF ConfirmBegin, ConfirmAnswerLost, ConfirmClaim, BeginWrite, SaveWrite, storeVars
  <2> HIDE DEF begun
  <2> QED BY <1>0, <2>3, <2>4, StageSets
<1>2. ASSUME NEW w \in Workers, ConfirmFinish(w)
      PROVE  worker[w].pc = "finish" /\ worker[w].op = o /\ ResultStage(w) = record'[o].stage
  BY <1>0, <1>2 DEF ConfirmFinish, SaveWrite, ResultRecord, storeVars
<1>3. ASSUME NEW p \in Ops, NextPollReached(p)
      PROVE  FALSE
  BY <1>0, <1>3 DEF NextPollReached, BecomeDue, Record
<1>4. ~ UNCHANGED record
  OBVIOUS
<1>6. ASSUME NEW w \in Workers, NEW p \in Ops,
             ConfirmExisting(w, p) \/ ConfirmProposal(w, p)
      PROVE  FALSE
  BY <1>4, <1>6 DEF ConfirmExisting, ConfirmProposal, storeVars
<1>7. ASSUME NEW w \in Workers,
             \/ ConfirmPrecheck(w) \/ AdvanceRecheck(w) \/ AdvanceCall(w)
             \/ AdvanceReply(w) \/ AdvanceAccept(w) \/ AdvanceReadback(w)
      PROVE  FALSE
  BY <1>4, <1>7 DEF ConfirmPrecheck, AdvanceRecheck, AdvanceCall, AdvanceReply,
              AdvanceAccept, AdvanceReadback, storeVars
<1>8. ASSUME NEW w \in Workers, HandleStep(w) \/ GrantExpires(w)
      PROVE  FALSE
  BY <1>4, <1>8 DEF HandleStep, GrantExpires, HandleAuthorize, HandleRead, HandleLookup,
              HandleAvailability, HandleInsert, HandleUnheard, Handling, storeVars
<1>9. ASSUME NEW w \in Workers, Disturbance(w), ~ConfirmAnswerLost(w)
      PROVE  FALSE
  BY <1>4, <1>9 DEF Disturbance, AdvanceRecheckFails, AdvanceCallFails, AdvanceTimeout,
              AdvanceAcceptHidden, AdvanceAcceptFails, AdvanceReadbackFails,
              ConfirmAbandoned, HandleInsertLost, HandleFails, Handling, storeVars
<1>10. ASSUME NEW p \in Ops, \/ \E s \in Slots : Propose(p, s)
                             \/ ProposalExpires(p) \/ HostChangesEvent(p) \/ GuestWithdraws(p)
       PROVE  FALSE
  BY <1>4, <1>10 DEF Propose, ProposalExpires, HostChangesEvent, GuestWithdraws, storeVars
<1>11. ASSUME UNCHANGED vars PROVE FALSE
  BY <1>4, <1>11 DEF vars, storeVars
<1>12. ~ClockStep
  BY <1>4, ClockMovesTheTable
<1>13. \E w \in Workers : ConfirmFinish(w)
  BY <1>1, <1>3, <1>6, <1>7, <1>8, <1>9, <1>10, <1>11, <1>12 DEF Next, ConfirmStep, ClockStep
<1> QED BY <1>2, <1>13
-----------------------------------------------------------------------------
(* The parts of the invariant are kept.                                     *)

LEMMA OpsLast ==
  ASSUME IInv, [Next]_vars, NEW o \in Ops, Exists(o)
  PROVE  Exists(o)'
BY StoreStep, RecordsMove DEF IInv, TypeOK

\* Who inserts, submits; so the count of inserts moves only by a submitter.
LEMMA InserterSubmits ==
  ASSUME Shapes, NEW w \in Workers, call[w].pc = "insert"
  PROVE  Submits(w, call[w].op)
BY DEF Shapes, ShapeOK, Submits, SubmitsOf, UnderWay

LEMMA InsertsMove ==
  ASSUME JInv, [Next]_vars, NEW o \in Ops, inserts'[o] # inserts[o]
  PROVE  /\ inserts'[o] = 1
         /\ \E w \in Workers : Submits(w, o) /\ ~Submits(w, o)'
<1>1. PICK w \in Workers : Inserts(w) /\ call[w].op = o /\ inserts'[o] = inserts[o] + 1
  BY EventsMove DEF JInv
<1>2. Submits(w, o) /\ inserts[o] = 0
  BY <1>1, InserterSubmits DEF JInv, Inserts, Submissions
<1>3. ~Submits(w, o)'
  BY <1>1 DEF Inserts, Submits, SubmitsOf, UnderWay, JInv, Shapes, ShapeOK
<1> QED BY <1>1, <1>2, <1>3

\* An operation gains a submitter only when its record is created.
LEMMA SubmittersMove ==
  ASSUME JInv, [Next]_vars, NEW w \in Workers, NEW o \in Ops, Submits(w, o)'
  PROVE  \/ Submits(w, o)
         \/ /\ worker[w].pc = "begin" /\ ~Exists(o)
            /\ worker'[w].pc = "recheck" /\ worker'[w].op = o
<1>1. Effect(worker[w], call[w], worker'[w], call'[w])
  BY AllHaveEffect DEF JInv
<1> QED BY <1>1 DEF Effect, Submits

LEMMA DeadLasts ==
  ASSUME JInv, [Next]_vars, NEW o \in Ops, Dead(o)
  PROVE  Dead(o)'
<1>1. Exists(o)'
  BY OpsLast DEF Dead, JInv
<1>2. inserts'[o] = 0
  BY InsertsMove DEF Dead
<1>3. ASSUME NEW v \in Workers, Submits(v, o)'
      PROVE  FALSE
  BY <1>3, SubmittersMove DEF Dead
<1> QED BY <1>1, <1>2, <1>3 DEF Dead

\* When the submitter is gone and did not insert, the operation is dead.
LEMMA SubmitterGone ==
  ASSUME JInv, [Next]_vars, NEW w \in Workers, NEW o \in Ops,
         Submits(w, o), ~Submits(w, o)', inserts' = inserts
  PROVE  Dead(o)'
<1>1. Exists(o) /\ inserts[o] = 0 /\ \A v \in Workers : Submits(v, o) => v = w
  BY DEF JInv, Submissions
<1>2. ASSUME NEW v \in Workers, Submits(v, o)'
      PROVE  FALSE
  BY <1>1, <1>2, SubmittersMove
<1>3. Exists(o)'
  BY <1>1, OpsLast DEF JInv
<1> QED BY <1>1, <1>2, <1>3 DEF Dead

LEMMA OneBeginner ==
  ASSUME IInv, [Next]_vars, NEW v \in Workers, NEW w \in Workers,
         worker[v].pc = "begin", worker'[v].pc = "recheck",
         worker[w].pc = "begin", worker'[w].pc = "recheck"
  PROVE  v = w
<1>1. WorkerStep(v)
  BY OthersKeepTheWorker
<1> QED BY <1>1, OneWorkerMoves

LEMMA SubmissionsStep ==
  ASSUME JInv, [Next]_vars, IInv'
  PROVE  Submissions'
<1> SUFFICES ASSUME NEW o \in Ops
             PROVE  /\ \A v, w \in Workers : Submits(v, o)' /\ Submits(w, o)' => v = w
                    /\ \A w \in Workers : Submits(w, o)' => Exists(o)' /\ inserts'[o] = 0
                    /\ ~Exists(o)' => inserts'[o] = 0
                    /\ inserts'[o] <= 1
                    /\ event'[o] # "none" => inserts'[o] # 0
  BY DEF Submissions
<1>0. /\ \A v, w \in Workers : Submits(v, o) /\ Submits(w, o) => v = w
      /\ \A w \in Workers : Submits(w, o) => Exists(o) /\ inserts[o] = 0
      /\ ~Exists(o) => inserts[o] = 0
      /\ inserts[o] <= 1 /\ inserts[o] \in Nat /\ inserts'[o] \in Nat
      /\ event[o] # "none" => inserts[o] # 0
  BY DEF JInv, Submissions, IInv, TypeOK
<1>1. ASSUME NEW v \in Workers, NEW w \in Workers, Submits(v, o)', Submits(w, o)'
      PROVE  v = w
  BY <1>0, <1>1, SubmittersMove, OneBeginner DEF JInv
<1>2. ASSUME NEW w \in Workers, Submits(w, o)'
      PROVE  Exists(o)' /\ inserts'[o] = 0
  <2>1. inserts[o] = 0
    BY <1>0, <1>2, SubmittersMove
  <2>2. inserts'[o] = inserts[o]
    <3> SUFFICES ASSUME inserts'[o] # inserts[o] PROVE FALSE
      OBVIOUS
    <3>1. PICK u \in Workers : Submits(u, o) /\ ~Submits(u, o)'
      BY InsertsMove
    <3>2. Exists(o) /\ Submits(w, o)
      BY <1>0, <1>2, <3>1, SubmittersMove
    <3> QED BY <1>0, <1>2, <3>1, <3>2
  <2>3. CASE Submits(w, o)
    BY <1>0, <2>1, <2>2, <2>3, OpsLast DEF JInv
  <2>4. CASE worker'[w].pc = "recheck" /\ worker'[w].op = o
    BY <2>1, <2>2, <2>4 DEF IInv, WorkersKnowTheirRecords, Knows, AttemptPC
  <2> QED BY <1>2, <2>3, <2>4, SubmittersMove
<1>3. ASSUME ~Exists(o)'
      PROVE  inserts'[o] = 0
  <2>1. ~Exists(o)
    BY <1>3, OpsLast DEF JInv
  <2> QED BY <1>0, <2>1, InsertsMove
<1>4. inserts'[o] <= 1
  BY <1>0, InsertsMove
<1>5. event'[o] # "none" => inserts'[o] # 0
  BY <1>0, EventsMove, InsertsMove DEF JInv
<1> QED BY <1>1, <1>2, <1>3, <1>4, <1>5

\* How an attempt ends, and how it is refused by the handler.
LEMMA ResultMoves ==
  ASSUME IInv, NEW w \in Workers, StepOf(w), worker'[w].pc = "finish"
  PROVE  LET k == worker[w]  l == worker'[w]  IN
         \/ l = k
         \/ l.result \in {"pending", "other_error"}
         \/ l.result = "booked" /\ l.op = k.op /\ event[k.op] = "live" /\ k.op \in accepted
         \/ /\ k.pc = "recheck" /\ l.op = k.op /\ l.fresh = k.fresh
            /\ call' = call /\ inserts' = inserts
            /\ l.result \in {"slot_no_longer_available", "calendar_preflight_failed"}
         \/ /\ k.pc = "wait" /\ l.op = k.op /\ l.result = "slot_no_longer_available"
            /\ call[w].pc = "replied" /\ call[w].reply = "slot_no_longer_available"
<1> DEFINE k == worker[w]
           l == worker'[w]
<1>0. worker \in [Workers -> Worker] /\ k \in Worker
  BY DEF IInv, TypeOK
<1>1. ASSUME NEW result, Finish(w, result)
      PROVE  l.result = result /\ l.op = k.op /\ l.fresh = k.fresh
  BY <1>0, <1>1 DEF Finish, Worker
<1>2. ASSUME NEW pc \in WorkerPC, pc # "finish", Goto(w, pc)
      PROVE  FALSE
  BY <1>0, <1>2 DEF Goto, Worker
<1>3. ASSUME Return(w)
      PROVE  FALSE
  BY <1>0, <1>3 DEF Return, IdleWorker
<1>4. ASSUME NEW o \in Ops, ConfirmExisting(w, o) \/ ConfirmProposal(w, o)
      PROVE  FALSE
  BY <1>0, <1>4 DEF ConfirmExisting, ConfirmProposal
<1>5. ASSUME \/ ConfirmPrecheck(w) \/ ConfirmBegin(w) \/ ConfirmFinish(w) \/ AdvanceCall(w)
             \/ ConfirmAnswerLost(w) \/ ConfirmAbandoned(w)
      PROVE  FALSE
  BY <1>2, <1>3, <1>5 DEF ConfirmPrecheck, ConfirmBegin, ConfirmFinish, AdvanceCall,
     ConfirmAnswerLost, ConfirmAbandoned, WorkerPC
<1>6. ASSUME ConfirmClaim(w)
      PROVE  FALSE
  <2>1. l = [k EXCEPT !.pc = "call", !.rev = k.rev + 1]
    BY <1>0, <1>3, <1>6 DEF ConfirmClaim
  <2> QED BY <1>0, <2>1 DEF Worker
<1>7. ASSUME HandleStep(w) \/ HandleInsertLost(w) \/ HandleFails(w)
      PROVE  l = k
  BY <1>7 DEF HandleStep, HandleAuthorize, HandleRead, HandleLookup, HandleAvailability,
     HandleInsert, HandleUnheard, HandleInsertLost, HandleFails, Handling
<1>8. ASSUME \/ AdvanceCallFails(w) \/ AdvanceTimeout(w) \/ AdvanceAcceptHidden(w)
             \/ AdvanceAcceptFails(w) \/ AdvanceReadbackFails(w)
      PROVE  l.result \in {"pending", "other_error"}
  BY <1>1, <1>8 DEF AdvanceCallFails, AdvanceTimeout, AdvanceAcceptHidden,
     AdvanceAcceptFails, AdvanceReadbackFails
<1>9. ASSUME AdvanceAccept(w) \/ AdvanceReadback(w)
      PROVE  \/ l.result \in {"pending", "other_error"}
             \/ l.result = "booked" /\ l.op = k.op /\ event[k.op] = "live" /\ k.op \in accepted
  BY <1>1, <1>2, <1>9 DEF AdvanceAccept, AdvanceReadback, WorkerPC
<1>10. ASSUME AdvanceRecheck(w) \/ AdvanceRecheckFails(w)
       PROVE  /\ k.pc = "recheck" /\ l.op = k.op /\ l.fresh = k.fresh
              /\ call' = call /\ inserts' = inserts
              /\ l.result \in {"slot_no_longer_available", "calendar_preflight_failed"}
  BY <1>1, <1>2, <1>10 DEF AdvanceRecheck, AdvanceRecheckFails, WorkerPC, calendarVars
<1>11. ASSUME AdvanceReply(w)
       PROVE  \/ l.result = "other_error"
              \/ /\ k.pc = "wait" /\ l.op = k.op /\ l.result = "slot_no_longer_available"
                 /\ call[w].pc = "replied" /\ call[w].reply = "slot_no_longer_available"
  BY <1>1, <1>2, <1>11 DEF AdvanceReply, WorkerPC
<1> QED BY <1>4, <1>5, <1>6, <1>7, <1>8, <1>9, <1>10, <1>11
        DEF StepOf, WorkerStep, ConfirmStep, Disturbance

LEMMA ReplyMoves ==
  ASSUME IInv, NEW w \in Workers, StepOf(w),
         call'[w].pc = "replied", call'[w].reply = "slot_no_longer_available"
  PROVE  \/ call'[w] = call[w]
         \/ /\ call[w].pc = "availability" /\ call'[w].op = call[w].op
            /\ worker' = worker /\ inserts' = inserts
<1> DEFINE c == call[w]
           d == call'[w]
<1>0. call \in [Workers -> Call] /\ c \in Call
  BY DEF IInv, TypeOK
<1>1. ASSUME NEW reply, Reply(w, reply)
      PROVE  d.reply = reply /\ d.op = c.op
  BY <1>0, <1>1 DEF Reply, Call
<1>2. ASSUME NEW pc \in CallPC, pc # "replied", call' = [call EXCEPT ![w].pc = pc]
      PROVE  FALSE
  BY <1>0, <1>2 DEF Call
<1>3. ASSUME NEW o \in Ops, ConfirmExisting(w, o) \/ ConfirmProposal(w, o)
      PROVE  d = c
  BY <1>3 DEF ConfirmExisting, ConfirmProposal
<1>4. ASSUME \/ ConfirmPrecheck(w) \/ ConfirmBegin(w) \/ ConfirmClaim(w) \/ ConfirmFinish(w)
             \/ AdvanceRecheck(w) \/ AdvanceAccept(w) \/ AdvanceReadback(w)
             \/ AdvanceRecheckFails(w) \/ AdvanceCallFails(w) \/ AdvanceTimeout(w)
             \/ AdvanceAcceptHidden(w) \/ AdvanceAcceptFails(w) \/ AdvanceReadbackFails(w)
             \/ ConfirmAnswerLost(w) \/ ConfirmAbandoned(w)
      PROVE  d = c
  BY <1>4 DEF ConfirmPrecheck, ConfirmBegin, ConfirmClaim, ConfirmFinish, AdvanceRecheck,
     AdvanceAccept, AdvanceReadback, AdvanceRecheckFails, AdvanceCallFails, AdvanceTimeout,
     AdvanceAcceptHidden, AdvanceAcceptFails, AdvanceReadbackFails, ConfirmAnswerLost,
     ConfirmAbandoned
<1>5. ASSUME AdvanceCall(w)
      PROVE  FALSE
  BY <1>0, <1>5 DEF AdvanceCall
<1>6. ASSUME AdvanceReply(w) \/ HandleUnheard(w)
      PROVE  FALSE
  BY <1>0, <1>6 DEF AdvanceReply, HandleUnheard, IdleCall
<1>7. ASSUME \/ HandleAuthorize(w) \/ HandleRead(w) \/ HandleLookup(w) \/ HandleInsert(w)
             \/ HandleInsertLost(w) \/ HandleFails(w)
      PROVE  FALSE
  BY <1>1, <1>2, <1>7 DEF HandleAuthorize, HandleRead, HandleLookup, HandleInsert,
     HandleInsertLost, HandleFails, CallPC
<1>8. ASSUME HandleAvailability(w)
      PROVE  /\ c.pc = "availability" /\ d.op = c.op
             /\ worker' = worker /\ inserts' = inserts
  BY <1>1, <1>2, <1>8 DEF HandleAvailability, Handling, CallPC, calendarVars
<1> QED BY <1>3, <1>4, <1>5, <1>6, <1>7, <1>8
        DEF StepOf, WorkerStep, ConfirmStep, HandleStep, Disturbance

\* What results and answers say stays true.
LEMMA AnswersLast ==
  ASSUME JInv, [Next]_vars, NEW o \in Ops
  PROVE  /\ Dead(o) => Dead(o)'
         /\ event[o] # "none" /\ o \in agreed => event'[o] # "none" /\ o \in agreed'
<1>1. Dead(o) => Dead(o)'
  BY DeadLasts
<1>2. event[o] # "none" => event'[o] # "none"
  BY EventsMove DEF JInv
<1>3. o \in agreed => o \in agreed'
  BY CopiesMove DEF JInv
<1> QED BY <1>1, <1>2, <1>3

LEMMA AnswersStep ==
  ASSUME JInv, [Next]_vars, IInv', Shapes'
  PROVE  Answers'
<1> SUFFICES ASSUME NEW w \in Workers
             PROVE  ResultOK(worker[w])' /\ ReplyOK(call[w])'
  BY DEF Answers
<1> DEFINE k == worker[w]
           c == call[w]
<1>0. /\ ResultOK(k) /\ ReplyOK(c) /\ ShapeOK(k, c) /\ k \in Worker
      /\ k.pc # "idle" => k.op \in Ops
      /\ c.pc # "idle" => c.op \in Ops
  BY DEF JInv, Answers, Shapes, IInv, TypeOK, WorkersKnowTheirRecords, Knows
<1>1. ASSUME worker'[w] = k
      PROVE  ResultOK(worker[w])'
  BY <1>0, <1>1, AnswersLast DEF ResultOK
<1>2. ASSUME call'[w] = c
      PROVE  ReplyOK(call[w])'
  BY <1>0, <1>2, AnswersLast DEF ReplyOK
<1>3. CASE ~StepOf(w)
  BY <1>1, <1>2, <1>3, OthersKeepTheWorker, OthersKeepTheCall DEF StepOf, JInv
<1>4. ASSUME StepOf(w), worker'[w].pc = "finish", worker'[w] # k
      PROVE  ResultOK(worker[w])'
  <2> DEFINE l == worker'[w]
  <2>1. CASE l.result \in {"pending", "other_error"}
    BY <2>1 DEF ResultOK
  <2>2. CASE l.result = "booked" /\ l.op = k.op /\ event[k.op] = "live" /\ k.op \in accepted
    <3>1. k.op \in Ops /\ event[k.op] # "none" /\ k.op \in agreed
      BY <2>2 DEF JInv, Copies, IInv, TypeOK
    <3> QED BY <2>2, <3>1, AnswersLast DEF ResultOK
  <2>3. CASE /\ k.pc = "recheck" /\ l.op = k.op /\ l.fresh = k.fresh
             /\ call' = call /\ inserts' = inserts
             /\ l.result \in {"slot_no_longer_available", "calendar_preflight_failed"}
    <3>1. PICK o \in Ops : o = k.op
      BY <1>0, <2>3
    <3>2. ASSUME k.fresh = TRUE
          PROVE  Dead(o)'
      <4>1. Submits(w, o)
        BY <1>0, <2>3, <3>1, <3>2 DEF Submits, SubmitsOf
      <4>2. ~Submits(w, o)'
        BY <1>0, <1>4, <2>3, <3>1 DEF Submits, SubmitsOf, UnderWay, ShapeOK
      <4> QED BY <2>3, <4>1, <4>2, SubmitterGone
    <3> QED BY <2>3, <3>1, <3>2 DEF ResultOK
  <2>4. CASE /\ k.pc = "wait" /\ l.op = k.op /\ l.result = "slot_no_longer_available"
             /\ c.pc = "replied" /\ c.reply = "slot_no_longer_available"
    <3>1. PICK o \in Ops : o = k.op
      BY <1>0, <2>4
    <3>2. Dead(o)
      BY <1>0, <2>4, <3>1 DEF ReplyOK, ShapeOK
    <3>3. Dead(o)'
      BY <3>2, DeadLasts
    <3> QED BY <2>4, <3>1, <3>3 DEF ResultOK
  <2> QED BY <1>4, <2>1, <2>2, <2>3, <2>4, ResultMoves DEF JInv
<1>5. ASSUME StepOf(w), call'[w] # c
      PROVE  ReplyOK(call[w])'
  <2> SUFFICES ASSUME call'[w].pc = "replied", call'[w].reply = "slot_no_longer_available"
               PROVE  Dead(call[w].op)'
    BY DEF ReplyOK
  <2>1. /\ c.pc = "availability" /\ call'[w].op = c.op
        /\ worker' = worker /\ inserts' = inserts
    BY <1>5, ReplyMoves DEF JInv
  <2>2. PICK o \in Ops : o = c.op
    BY <1>0, <2>1
  <2>3. Submits(w, o)
    BY <1>0, <2>1, <2>2 DEF ShapeOK, Submits, SubmitsOf, UnderWay
  <2>4. ~Submits(w, o)'
    BY <1>0, <2>1, <2>2 DEF ShapeOK, Submits, SubmitsOf, UnderWay
  <2>5. Dead(o)'
    BY <2>1, <2>3, <2>4, SubmitterGone
  <2> QED BY <2>1, <2>2, <2>5 DEF Dead, Exists
<1>6. ASSUME worker'[w].pc # "finish"
      PROVE  ResultOK(worker[w])'
  BY <1>6 DEF ResultOK
<1> QED BY <1>1, <1>2, <1>3, <1>4, <1>5, <1>6

LEMMA OutcomesStep ==
  ASSUME JInv, [Next]_vars
  PROVE  Outcomes'
<1> SUFFICES ASSUME NEW o \in Ops
             PROVE  /\ record'[o].stage \in Refused => Dead(o)'
                    /\ record'[o].stage = "booked" => event'[o] # "none" /\ o \in agreed'
  BY DEF Outcomes
<1>1. CASE record'[o].stage = record[o].stage
  BY <1>1, AnswersLast DEF JInv, Outcomes
<1>2. ASSUME record'[o].stage # record[o].stage, record'[o].stage \in Terminal
      PROVE  /\ record'[o].stage \in Refused => Dead(o)
             /\ record'[o].stage = "booked" => event[o] # "none" /\ o \in agreed
  <2>1. PICK w \in Workers :
          worker[w].pc = "finish" /\ worker[w].op = o /\ ResultStage(w) = record'[o].stage
    BY <1>2, SettledByItsWorker DEF JInv
  <2>2. ResultOK(worker[w]) /\ worker[w].fresh \in BOOLEAN
    BY DEF JInv, Answers, IInv, TypeOK, Worker
  <2>3. /\ ResultStage(w) \in Refused =>
             /\ worker[w].fresh = TRUE
             /\ worker[w].result \in {"slot_no_longer_available", "calendar_preflight_failed"}
        /\ ResultStage(w) = "booked" => worker[w].result = "booked"
    BY <2>2 DEF ResultStage, Refused
  <2> QED BY <2>1, <2>2, <2>3 DEF ResultOK
<1> QED BY <1>1, <1>2, AnswersLast DEF Terminal

LEMMA JStep == JInv /\ [Next]_vars => JInv'
<1> SUFFICES ASSUME JInv, [Next]_vars PROVE JInv'
  OBVIOUS
<1>1. IInv'
  BY InvStep DEF JInv
<1>2. Shapes'
  BY AllHaveEffect DEF JInv, Shapes, Effect
<1> QED BY <1>1, <1>2, AnswersStep, SubmissionsStep, OutcomesStep, CopiesMove DEF JInv

LEMMA JInit == Init => JInv
<1> SUFFICES ASSUME Init PROVE JInv
  OBVIOUS
<1>1. \A w \in Workers : worker[w] = IdleWorker /\ call[w] = IdleCall
  BY DEF Init
<1>2. \A o \in Ops : /\ record[o].stage = "absent" /\ inserts[o] = 0 /\ event[o] = "none"
                     /\ o \notin accepted /\ o \notin agreed
  BY DEF Init, StoreInit, NoRecord
<1>3. IdleWorker.pc = "idle" /\ IdleCall.pc = "idle"
  BY DEF IdleWorker, IdleCall
<1>4. Shapes /\ Answers
  BY <1>1, <1>3 DEF Shapes, ShapeOK, Answers, ResultOK, ReplyOK
<1>5. Submissions
  BY <1>1, <1>2, <1>3 DEF Submissions, Submits, SubmitsOf, UnderWay, Exists
<1>6. Outcomes /\ Copies
  BY <1>2 DEF Outcomes, Copies, Refused
<1> QED BY <1>4, <1>5, <1>6, InvInit DEF JInv

LEMMA JCorrect == Spec => []JInv
  BY JInit, JStep, PTL DEF Spec

\* No event is ever inserted twice for an operation.
THEOREM InsertsCorrect == Spec => []InsertedAtMostOnce
<1>1. JInv => InsertedAtMostOnce
  BY DEF JInv, Submissions, InsertedAtMostOnce
<1> QED BY <1>1, JCorrect, PTL

\* A refused operation has no event, and no handler is about to insert one.
THEOREM RefusalsCorrect == Spec => []RefusedHasNoEvent
<1>1. JInv => RefusedHasNoEvent
  BY InserterSubmits DEF JInv, Submissions, Outcomes, Dead, RefusedHasNoEvent
<1> QED BY <1>1, JCorrect, PTL

\* A booked operation has an event that the guest once agreed to.
THEOREM BookingsCorrect == Spec => []BookedWasAgreed
<1>1. JInv => BookedWasAgreed
  BY DEF JInv, Outcomes, BookedWasAgreed
<1> QED BY <1>1, JCorrect, PTL

\* The guard of the pair at the slot outlives the event it protects.
THEOREM PairsCorrect == Spec => []PairMeetsOnceAtASlot
<1>1. ASSUME JInv, NEW o \in Ops, event[o] # "none"
      PROVE  Open(o) \/ record[o].stage = "booked"
  <2>1. inserts[o] # 0 /\ Exists(o) /\ record[o].stage \notin Refused
    BY <1>1 DEF JInv, Submissions, Outcomes, Dead
  <2>2. record[o].stage \in Stages \union {"absent"}
    BY <1>1 DEF JInv, IInv, TypeOK, StoreTypeOK, Record
  <2> QED BY <2>1, <2>2 DEF Exists, Open, Stages, Terminal
<1>2. JInv /\ PairSlotTakenOnce => PairMeetsOnceAtASlot
  BY <1>1 DEF PairSlotTakenOnce, PairMeetsOnceAtASlot
<1> QED BY <1>2, JCorrect, ConnectedPairSlotExclusion, PTL
-----------------------------------------------------------------------------
(* No agent in two meetings at once: what a submitter read of a calendar    *)
(* stays true while it may insert, because the agents' locks keep every     *)
(* other submitter away from them.                                          *)

Attends(a, q) ==
  /\ event[q] = "live"
  /\ a = Host[q] \/ (a = Peer[q] /\ q \notin declined)
Clear(a, o) ==
  \A q \in Ops : q # o /\ Attends(a, q) => <<record[q].slot, record[o].slot>> \notin Overlap
Needs(w, o, a) == NeedsOf(worker[w], call[w], o, a)
Cleared ==
  \A w \in Workers : \A o \in Ops : \A a \in Agents : Needs(w, o, a) => Clear(a, o)

DInv == JInv /\ OneOpenOperationPerAgent /\ Cleared /\ NoDoubleBooking

LEMMA SubmitterOpen ==
  ASSUME JInv, NEW w \in Workers, NEW o \in Ops, Submits(w, o)
  PROVE  Open(o) /\ record[o].slot \in Slots
<1>1. Exists(o) /\ event[o] = "none" /\ ~Dead(o)
  BY DEF JInv, Submissions, Dead
<1>2. record[o].stage \in Unresolved
  BY <1>1 DEF JInv, Outcomes, IInv, TypeOK, StoreTypeOK, Record, Exists, Stages, Terminal
<1> QED BY <1>1, <1>2 DEF Open, JInv, IInv, TypeOK, StoreTypeOK

\* Whoever relies on a calendar submits, for an operation of its owner.
LEMMA NeedsSubmits ==
  ASSUME JInv, NEW w \in Workers, NEW o \in Ops, NEW a \in Agents,
         Needs(w, o, a) \/ ChecksOf(worker[w], call[w], o, a)
  PROVE  Submits(w, o) /\ a \in Parties(o)
<1>1. ShapeOK(worker[w], call[w])
  BY DEF JInv, Shapes
<1> QED BY <1>1 DEF Needs, NeedsOf, ChecksOf, ShapeOK, Submits, SubmitsOf, UnderWay, Parties

\* An event belongs to an operation that is unresolved or booked; a booked one
\* is in the calendar of its guest too, unless the guest withdrew.
LEMMA EventsBelong ==
  ASSUME JInv, NEW o \in Ops, event[o] # "none"
  PROVE  /\ Open(o) \/ (record[o].stage = "booked" /\ o \in accepted \union declined)
         /\ Exists(o) /\ record[o].slot \in Slots
<1>1. inserts[o] # 0 /\ Exists(o) /\ record[o].stage \notin Refused
  BY DEF JInv, Submissions, Outcomes, Dead
<1>2. record[o].stage \in Stages \union {"absent"}
  BY DEF JInv, IInv, TypeOK, StoreTypeOK, Record
<1>3. record[o].stage = "booked" => o \in accepted \union declined
  BY DEF JInv, Outcomes, Copies
<1>4. record[o].slot \in Slots
  BY <1>1 DEF JInv, IInv, TypeOK, StoreTypeOK
<1> QED BY <1>1, <1>2, <1>3, <1>4 DEF Exists, Open, Stages, Terminal

\* A calendar that answers "free" while its agent is locked is clear.
LEMMA FreeIsClear ==
  ASSUME JInv, OneOpenOperationPerAgent, NEW o \in Ops, NEW a \in Parties(o), Open(o),
         MayBeFree(a, record[o].slot)
  PROVE  Clear(a, o)
<1> SUFFICES ASSUME NEW q \in Ops, q # o, Attends(a, q),
                    <<record[q].slot, record[o].slot>> \in Overlap
             PROVE  FALSE
  BY DEF Clear
<1>1. a \in Parties(q) /\ event[q] # "none"
  BY DEF Attends, Parties
<1>2. ~Open(q)
  BY <1>1 DEF OneOpenOperationPerAgent
<1>3. q \in accepted \union declined
  BY <1>1, <1>2, EventsBelong
<1>4. Busy(a, q)
  BY <1>3 DEF Attends, Busy
<1> QED BY <1>4 DEF MayBeFree

\* An agent comes to attend a meeting by its insert.
LEMMA AttendanceMoves ==
  ASSUME JInv, [Next]_vars, NEW q \in Ops, NEW a \in Agents, Attends(a, q)', ~Attends(a, q)
  PROVE  \E w \in Workers : /\ Needs(w, q, Host[q]) /\ Needs(w, q, Peer[q])
                            /\ Submits(w, q) /\ a \in Parties(q)
<1>1. event'[q] = "live" /\ (a = Host[q] \/ (a = Peer[q] /\ q \notin declined'))
  BY DEF Attends
<1>2. q \in declined => q \in declined'
  BY CopiesMove DEF JInv
<1>3. event[q] # "live"
  BY <1>1, <1>2 DEF Attends
<1>4. event[q] = "none"
  BY <1>1, <1>3, EventsMove DEF JInv, IInv, TypeOK
<1>5. inserts'[q] # inserts[q]
  BY <1>1, <1>4, EventsMove DEF JInv
<1>6. PICK w \in Workers : Inserts(w) /\ call[w].op = q
  BY <1>5, EventsMove DEF JInv
<1>7. call[w].pc = "insert" /\ Submits(w, q)
  BY <1>6, InserterSubmits DEF JInv, Inserts
<1>8. Needs(w, q, Host[q]) /\ Needs(w, q, Peer[q])
  BY <1>6, <1>7 DEF Needs, NeedsOf, UnderWay, JInv, Shapes, ShapeOK
<1> QED BY <1>1, <1>7, <1>8 DEF Parties

LEMMA SlotsStay ==
  ASSUME IInv, [Next]_vars, NEW o \in Ops, Exists(o)
  PROVE  record'[o].slot = record[o].slot
BY StoreStep, RecordsMove DEF IInv, TypeOK

\* While an operation has a submitter, its agents' calendars stay clear.
LEMMA ClearLasts ==
  ASSUME JInv, OneOpenOperationPerAgent, [Next]_vars, NEW w \in Workers, NEW o \in Ops,
         NEW a \in Agents, Submits(w, o), a \in Parties(o), Clear(a, o)
  PROVE  Clear(a, o)'
<1>1. Open(o) /\ Exists(o)
  BY SubmitterOpen DEF JInv, Submissions
<1> SUFFICES ASSUME NEW q \in Ops, q # o, Attends(a, q)'
             PROVE  <<record'[q].slot, record'[o].slot>> \notin Overlap
  BY DEF Clear
<1>2. Attends(a, q)
  <2> SUFFICES ASSUME ~Attends(a, q) PROVE FALSE
    OBVIOUS
  <2>1. PICK u \in Workers : Submits(u, q) /\ a \in Parties(q)
    BY AttendanceMoves
  <2>2. Open(q)
    BY <2>1, SubmitterOpen
  <2> QED BY <1>1, <2>1, <2>2 DEF OneOpenOperationPerAgent
<1>3. Exists(q)
  BY <1>2, EventsBelong DEF Attends
<1>4. record'[o].slot = record[o].slot /\ record'[q].slot = record[q].slot
  BY <1>1, <1>3, SlotsStay DEF JInv
<1> QED BY <1>2, <1>4 DEF Clear

LEMMA ClearedStep ==
  ASSUME DInv, [Next]_vars
  PROVE  Cleared'
<1> USE DEF DInv
<1> SUFFICES ASSUME NEW w \in Workers, NEW o \in Ops, NEW a \in Agents, Needs(w, o, a)'
             PROVE  Clear(a, o)'
  BY DEF Cleared
<1>1. Needs(w, o, a) \/ ChecksOf(worker[w], call[w], o, a)
  BY AllHaveEffect DEF JInv, Effect, Needs
<1>2. Submits(w, o) /\ a \in Parties(o)
  BY <1>1, NeedsSubmits
<1>3. Clear(a, o)
  <2>1. CASE Needs(w, o, a)
    BY <2>1 DEF Cleared
  <2>2. CASE ChecksOf(worker[w], call[w], o, a)
    <3>1. Open(o)
      BY <1>2, SubmitterOpen
    <3>2. worker[w].pc = "recheck" /\ worker[w].op = o => worker[w].slot = record[o].slot
      BY DEF JInv, IInv, WorkersKnowTheirRecords, Knows, AttemptPC
    <3>3. MayBeFree(a, record[o].slot)
      BY <2>2, <3>2 DEF ChecksOf
    <3> QED BY <1>2, <3>1, <3>3, FreeIsClear
  <2> QED BY <1>1, <2>1, <2>2
<1> QED BY <1>2, <1>3, ClearLasts

LEMMA NoDoubleStep ==
  ASSUME DInv, [Next]_vars
  PROVE  NoDoubleBooking'
<1> USE DEF DInv
<1> SUFFICES ASSUME NEW o \in Ops, NEW p \in Ops, NEW a \in Agents, o # p,
                    Attends(a, o)', Attends(a, p)'
             PROVE  <<record'[o].slot, record'[p].slot>> \notin Overlap
  BY DEF NoDoubleBooking, Attends
<1>1. ASSUME NEW q \in Ops, Attends(a, q)', ~Attends(a, q)
      PROVE  Clear(a, q) /\ Open(q) /\ a \in Parties(q) /\ record[q].slot \in Slots
  <2>1. PICK w \in Workers : /\ Needs(w, q, Host[q]) /\ Needs(w, q, Peer[q])
                             /\ Submits(w, q) /\ a \in Parties(q)
    BY <1>1, AttendanceMoves
  <2> QED BY <2>1, SubmitterOpen DEF Cleared, Parties
<1>2. ASSUME NEW q \in Ops, Attends(a, q)
      PROVE  Exists(q) /\ record[q].slot \in Slots
  BY <1>2, EventsBelong DEF Attends
<1>3. Exists(o) /\ Exists(p)
  BY <1>1, <1>2, StageSets DEF Open, Exists, Stages
<1>4. record'[o].slot = record[o].slot /\ record'[p].slot = record[p].slot
  BY <1>3, SlotsStay DEF JInv
<1>5. CASE Attends(a, o) /\ Attends(a, p)
  BY <1>4, <1>5 DEF NoDoubleBooking, Attends
<1>6. CASE ~Attends(a, o) /\ ~Attends(a, p)
  BY <1>1, <1>6 DEF OneOpenOperationPerAgent
<1>7. CASE Attends(a, o) /\ ~Attends(a, p)
  BY <1>1, <1>4, <1>7 DEF Clear
<1>8. CASE ~Attends(a, o) /\ Attends(a, p)
  <2>1. <<record[p].slot, record[o].slot>> \notin Overlap
    BY <1>1, <1>8 DEF Clear
  <2>2. record[o].slot \in Slots /\ record[p].slot \in Slots
    BY <1>1, <1>2, <1>8
  <2> QED BY <1>4, <2>1, <2>2, OverlapAssumption
<1> QED BY <1>5, <1>6, <1>7, <1>8

\* No agent is ever in two live meetings that overlap, as host or as guest.
THEOREM MeetingsCorrect == Spec => []NoDoubleBooking
<1> DEFINE Rest == Cleared /\ NoDoubleBooking
<1>1. Init => Rest
  <2> SUFFICES ASSUME Init PROVE Rest
    OBVIOUS
  <2>1. \A q \in Ops : event[q] = "none"
    BY DEF Init
  <2> QED BY <2>1 DEF Cleared, Clear, Attends, NoDoubleBooking
<1>2. JInv /\ OneOpenOperationPerAgent /\ Rest /\ [Next]_vars => Rest'
  BY ClearedStep, NoDoubleStep DEF DInv
<1>3. Rest => NoDoubleBooking
  OBVIOUS
<1> QED BY <1>1, <1>2, <1>3, JCorrect, ConnectedAgentExclusion, PTL DEF Spec
-----------------------------------------------------------------------------
(* The flow implements MeetingPromise.                                      *)

outcomes == [o \in Ops |-> Outcome(o)]

LEMMA OutcomesAre ==
  ASSUME NEW o \in Ops
  PROVE  /\ outcomes[o] = "absent" <=> ~Exists(o)
         /\ outcomes[o] = "open" <=> Open(o)
         /\ outcomes[o] = "booked" <=> record[o].stage = "booked"
BY DEF outcomes, Outcome, Exists, Open, Unresolved

\* A step of the store that leaves the calendars alone.
LEMMA StoreKeepsPromise ==
  ASSUME JInv, JInv', GuardsMatchRecords, [StoreNext]_storeVars, UNCHANGED calendarVars
  PROVE  [Promise!PromiseNext]_(Promise!promiseVars)
<1>0. record \in [Ops -> Record] /\ event' = event /\ agreed' = agreed
  BY DEF JInv, IInv, TypeOK, StoreTypeOK, calendarVars
<1>1. ASSUME UNCHANGED outcomes
      PROVE  UNCHANGED Promise!promiseVars
  BY <1>0, <1>1 DEF Promise!promiseVars, outcomes
<1>2. ASSUME NEW o \in Ops, NEW r \in Record, record' = [record EXCEPT ![o] = r]
      PROVE  /\ record'[o] = r
             /\ outcomes' = [outcomes EXCEPT ![o] = Outcome(o)']
  <2>1. record'[o] = r /\ \A p \in Ops : p # o => record'[p] = record[p]
    BY <1>0, <1>2
  <2>2. \A p \in Ops : p # o => Outcome(p)' = Outcome(p)
    BY <2>1 DEF Outcome, Exists, Open
  <2> QED BY <2>1, <2>2 DEF outcomes
<1>3. ASSUME NEW o \in Ops, NEW s \in Slots, Begin(o, s)
      PROVE  Promise!OpenOperation(o)
  <2> DEFINE r == [stage |-> "submitting", slot |-> s, rev |-> 0, due |-> FALSE]
  <2>1. r \in Record /\ record' = [record EXCEPT ![o] = r] /\ r.stage = "submitting"
    BY <1>3, RecordOfBegin DEF Begin, BeginWrite
  <2> HIDE DEF r
  <2>2. record'[o] = r /\ outcomes' = [outcomes EXCEPT ![o] = Outcome(o)']
    BY <1>2, <2>1
  <2>3. Outcome(o)' = "open"
    BY <2>1, <2>2 DEF Outcome, Exists, Open, Unresolved
  <2>4. outcomes[o] = "absent"
    BY <1>3, OutcomesAre DEF Begin, CanBegin
  <2>5. ASSUME NEW p \in Ops, outcomes[p] = "open"
        PROVE  Parties(p) \cap Parties(o) = {}
    <3>1. Open(p)
      BY <2>5, OutcomesAre
    <3>2. \A a \in Parties(o) : agentLock[a] = NoOp /\ a \in Agents
      BY <1>3, PartiesAreAgents DEF Begin, CanBegin
    <3> QED BY <3>1, <3>2, NullAssumption DEF GuardsMatchRecords
  <2> QED BY <1>0, <2>2, <2>3, <2>4, <2>5 DEF Promise!OpenOperation, outcomes
<1>4. ASSUME NEW o \in Ops, NEW stage \in Stages, NEW due \in BOOLEAN, Save(o, stage, due)
      PROVE  UNCHANGED outcomes \/ Promise!DeclareBooked(o) \/ Promise!DeclareRefused(o)
  <2> DEFINE r == [stage |-> stage, slot |-> record[o].slot,
                   rev |-> record[o].rev + 1, due |-> due]
  <2>1. r \in Record /\ record' = [record EXCEPT ![o] = r] /\ r.stage = stage
    <3>1. record[o] \in Record
      BY <1>0
    <3> QED BY <1>4, <3>1 DEF Save, SaveWrite, Record
  <2> HIDE DEF r
  <2>2. record'[o] = r /\ outcomes' = [outcomes EXCEPT ![o] = Outcome(o)']
    BY <1>2, <2>1
  <2>3. outcomes[o] = "open"
    BY <1>4, OutcomesAre DEF Save
  <2>4. CASE stage \in Unresolved
    <3>1. Outcome(o)' = "open"
      BY <2>1, <2>2, <2>4 DEF Outcome, Exists, Open, Unresolved
    <3> QED BY <2>2, <2>3, <3>1 DEF outcomes
  <2>5. CASE stage = "booked"
    <3>1. Outcome(o)' = "booked"
      BY <2>1, <2>2, <2>5 DEF Outcome, Exists, Open, Unresolved
    <3>2. o \in agreed
      BY <1>0, <2>1, <2>2, <2>5 DEF JInv, Outcomes
    <3> QED BY <1>0, <2>2, <2>3, <3>1, <3>2 DEF Promise!DeclareBooked, outcomes
  <2>6. CASE stage \in Refused
    <3>1. Outcome(o)' = "refused"
      BY <2>1, <2>2, <2>6 DEF Outcome, Exists, Open, Unresolved, Refused
    <3>2. event[o] = "none"
      BY <1>0, <2>1, <2>2, <2>6 DEF JInv, Outcomes, Submissions, Dead
    <3> QED BY <1>0, <2>2, <2>3, <3>1, <3>2 DEF Promise!DeclareRefused, outcomes
  <2> QED BY <2>4, <2>5, <2>6 DEF Stages, Terminal
<1>5. ASSUME NEW o \in Ops, BecomeDue(o)
      PROVE  UNCHANGED outcomes
  <2>1. \A p \in Ops : record'[p].stage = record[p].stage
    BY <1>0, <1>5 DEF BecomeDue, Record
  <2> QED BY <2>1 DEF outcomes, Outcome, Exists, Open
<1>6. CASE UNCHANGED storeVars
  BY <1>1, <1>6 DEF storeVars, outcomes, Outcome, Exists, Open
<1>7. CASE (\E s \in Slots : SlotEnds(s)) \/ (\E k \in PairSlots : GuardExpires(k))
  BY <1>1, <1>7 DEF SlotEnds, GuardExpires, outcomes, Outcome, Exists, Open
<1> QED BY <1>1, <1>3, <1>4, <1>5, <1>6, <1>7 DEF StoreNext, Promise!PromiseNext

\* A step of the calendars.
LEMMA CalendarKeepsPromise ==
  ASSUME JInv, [Next]_vars, ~UNCHANGED calendarVars
  PROVE  [Promise!PromiseNext]_(Promise!promiseVars)
<1>0. event \in [Ops -> {"none", "live", "changed"}]
  BY DEF JInv, IInv, TypeOK
<1>1. ASSUME UNCHANGED record
      PROVE  UNCHANGED outcomes
  BY <1>1 DEF outcomes, Outcome, Exists, Open
<1>2. ASSUME NEW w \in Workers, Inserts(w)
      PROVE  [Promise!PromiseNext]_(Promise!promiseVars)
  <2>1. PICK o \in Ops : o = call[w].op
    BY <1>2 DEF Inserts, JInv, IInv, WorkersKnowTheirRecords
  <2>2. Submits(w, o) /\ Open(o) /\ event[o] = "none"
    BY <1>2, <2>1, InserterSubmits, SubmitterOpen DEF Inserts, JInv, Submissions
  <2>3. UNCHANGED outcomes /\ outcomes[o] = "open" /\ agreed' = agreed
    BY <1>1, <1>2, <2>2, OutcomesAre DEF Inserts
  <2>4. event' = event \/ event' = [event EXCEPT ![o] = "live"]
    BY <1>2, <2>1, <2>2 DEF Inserts
  <2>5. CASE event' = event
    BY <2>3, <2>5 DEF Promise!promiseVars, outcomes
  <2>6. CASE event' = [event EXCEPT ![o] = "live"]
    BY <2>2, <2>3, <2>6 DEF Promise!PromiseNext, Promise!MeetingAppears, outcomes
  <2> QED BY <2>4, <2>5, <2>6
<1>3. ASSUME NEW o \in Ops, event[o] = "live", SetAccepted(o), UNCHANGED storeVars
      PROVE  Promise!GuestAccepts(o)
  BY <1>1, <1>3 DEF SetAccepted, storeVars, Promise!GuestAccepts, outcomes
<1>4. ASSUME NEW o \in Ops, HostChangesEvent(o)
      PROVE  Promise!MeetingChanges(o)
  BY <1>1, <1>4 DEF HostChangesEvent, storeVars, Promise!MeetingChanges, outcomes
<1>5. ASSUME NEW o \in Ops, GuestWithdraws(o)
      PROVE  UNCHANGED Promise!promiseVars
  BY <1>1, <1>5 DEF GuestWithdraws, storeVars, Promise!promiseVars, outcomes
<1> QED BY <1>2, <1>3, <1>4, <1>5, CalendarMoves DEF JInv, Promise!PromiseNext

\* What the service says of an operation and what the calendars show move only
\* as promised.
THEOREM PromiseKept == Spec => KeepsPromise
<1>1. Init => Promise!PromiseInit
  <2> SUFFICES ASSUME Init PROVE Promise!PromiseInit
    OBVIOUS
  <2>1. \A o \in Ops : record[o] = NoRecord
    BY DEF Init, StoreInit
  <2>2. \A o \in Ops : ~Exists(o)
    BY <2>1 DEF NoRecord, Exists
  <2>3. \A o \in Ops : Outcome(o) = "absent"
    BY <2>2 DEF Outcome, Exists, Open, Unresolved
  <2> QED BY <2>3 DEF Init, Promise!PromiseInit
<1>2. JInv /\ JInv' /\ GuardsMatchRecords /\ [Next]_vars
        => [Promise!PromiseNext]_(Promise!promiseVars)
  BY StoreStep, StoreKeepsPromise, CalendarKeepsPromise DEF JInv
<1> QED BY <1>1, <1>2, JCorrect, ConnectedGuards, PTL DEF Spec, KeepsPromise, Promise!PromiseSpec
=============================================================================
