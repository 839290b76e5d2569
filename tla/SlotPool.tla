------------------------------ MODULE SlotPool ------------------------------
(***************************************************************************)
(* What admission promises, whoever asks for a start (coordinator tick,    *)
(* operator Start, Execute now) and whatever they interleave with: a job   *)
(* is started once; a start takes a slot that is free at that instant,     *)
(* counted against the limit of that instant; only a mandate (a human's    *)
(* decision) or a human resume may exceed the limit.  Lowering the limit   *)
(* stops nobody.                                                           *)
(***************************************************************************)
EXTENDS Integers, FiniteSets

CONSTANTS Job, MaxSlots

VARIABLES
  fate,      \* [Job -> {"waiting", "running", "paused", "over"}]
  mandates,  \* jobs a human may start past the limit
  slots      \* the limit in force

pool == <<fate, mandates, slots>>

Init ==
  /\ fate \in [Job -> {"waiting"}]
  /\ mandates \in SUBSET Job
  /\ slots \in 1..MaxSlots

Running == {j \in Job : fate[j] = "running"}
Becomes(j, f) == fate' = [fate EXCEPT ![j] = f]

Admit(j) ==
  /\ fate[j] = "waiting"
  /\ Cardinality(Running) < slots
  /\ Becomes(j, "running")
  /\ mandates' = mandates \ {j}
  /\ UNCHANGED slots

StartByMandate(j) ==
  /\ fate[j] = "waiting" /\ j \in mandates
  /\ Becomes(j, "running")
  /\ mandates' = mandates \ {j}
  /\ UNCHANGED slots

Pause(j) ==
  /\ fate[j] = "running"
  /\ Becomes(j, "paused")
  /\ UNCHANGED <<mandates, slots>>

Resume(j) ==
  /\ fate[j] = "paused"
  /\ Becomes(j, "running")
  /\ UNCHANGED <<mandates, slots>>

End(j) ==
  /\ fate[j] # "over"
  /\ Becomes(j, "over")
  /\ mandates' = mandates \ {j}
  /\ UNCHANGED slots

SetSlots(n) == slots' = n /\ UNCHANGED <<fate, mandates>>

Next ==
  \/ \E j \in Job :
       Admit(j) \/ StartByMandate(j) \/ Pause(j) \/ Resume(j) \/ End(j)
  \/ \E n \in 1..MaxSlots : SetSlots(n)

Spec == Init /\ [][Next]_pool
=============================================================================
