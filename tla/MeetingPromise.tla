--------------------------- MODULE MeetingPromise ---------------------------
(***************************************************************************)
(* What a booking service promises about meetings, without its store, its  *)
(* messages or its retries.  An operation is opened while its agents take  *)
(* part in no other open operation; only while it is open may its meeting  *)
(* appear on the host's calendar, once; it is declared booked only if the  *)
(* meeting appeared and its guest accepted, and refused only if it did not *)
(* appear, and then never will.                                            *)
(***************************************************************************)
CONSTANTS Ops, Parties(_)

VARIABLES
  outcome,    \* what the service says of an operation
  meeting,    \* what the host's calendar holds for it
  agreed      \* the operations whose guest's copy has been seen accepted

promiseVars == <<outcome, meeting, agreed>>

PromiseTypeOK ==
  /\ outcome \in [Ops -> {"absent", "open", "booked", "refused"}]
  /\ meeting \in [Ops -> {"none", "live", "changed"}]
  /\ agreed \subseteq Ops

PromiseInit ==
  /\ outcome = [o \in Ops |-> "absent"]
  /\ meeting = [o \in Ops |-> "none"]
  /\ agreed = {}

OpenOperation(o) ==
  /\ outcome[o] = "absent"
  /\ \A p \in Ops : outcome[p] = "open" => Parties(p) \cap Parties(o) = {}
  /\ outcome' = [outcome EXCEPT ![o] = "open"]
  /\ UNCHANGED <<meeting, agreed>>

MeetingAppears(o) ==
  /\ outcome[o] = "open" /\ meeting[o] = "none"
  /\ meeting' = [meeting EXCEPT ![o] = "live"]
  /\ UNCHANGED <<outcome, agreed>>

GuestAccepts(o) ==
  /\ meeting[o] = "live"
  /\ agreed' = agreed \union {o}
  /\ UNCHANGED <<outcome, meeting>>

\* Its owner moves or cancels it; the service never does.
MeetingChanges(o) ==
  /\ meeting[o] = "live"
  /\ meeting' = [meeting EXCEPT ![o] = "changed"]
  /\ UNCHANGED <<outcome, agreed>>

DeclareBooked(o) ==
  /\ outcome[o] = "open" /\ o \in agreed
  /\ outcome' = [outcome EXCEPT ![o] = "booked"]
  /\ UNCHANGED <<meeting, agreed>>

DeclareRefused(o) ==
  /\ outcome[o] = "open" /\ meeting[o] = "none"
  /\ outcome' = [outcome EXCEPT ![o] = "refused"]
  /\ UNCHANGED <<meeting, agreed>>

PromiseNext ==
  \E o \in Ops : \/ OpenOperation(o) \/ MeetingAppears(o) \/ GuestAccepts(o)
                 \/ MeetingChanges(o) \/ DeclareBooked(o) \/ DeclareRefused(o)

PromiseSpec == PromiseInit /\ [][PromiseNext]_promiseVars
=============================================================================
