------------------------------- MODULE Outbox -------------------------------
(***************************************************************************)
(* What the work-item outbox promises to the workflow, whatever crashes,   *)
(* sleeps, hangs or answers late (the header comments of                   *)
(* repository/work-items.ts and coordinator/recovery.ts):                  *)
(*   - an instance has at most one effect open at a time;                  *)
(*   - an effect is granted to one attempt at a time, each with a grant    *)
(*     never used before;                                                  *)
(*   - an effect finishes at most once, by the attempt it is granted to,   *)
(*     and the next effect of the workflow is created in the same step;    *)
(*   - only the operator withdraws an effect, and withdrawn is final.      *)
(***************************************************************************)
EXTENDS FiniteSets

CONSTANTS Item, Instance, InstanceOf, Token, NoToken

VARIABLES
  fate,    \* [Item -> {"unborn", "open", "finished", "withdrawn"}]
  holder,  \* [Item -> Token \cup {NoToken}]: the attempt it is granted to
  used     \* grants handed out so far

outbox == <<fate, holder, used>>

Init ==
  /\ fate = [i \in Item |-> "unborn"]
  /\ holder = [i \in Item |-> NoToken]
  /\ used = {}

SameInstance(i) == {j \in Item : InstanceOf[j] = InstanceOf[i]}
NothingOpenBut(S, j) == \A k \in SameInstance(j) \ S : fate[k] # "open"

Create(j) ==
  /\ fate[j] = "unborn"
  /\ NothingOpenBut({}, j)
  /\ fate' = [fate EXCEPT ![j] = "open"]
  /\ UNCHANGED <<holder, used>>

Grant(i, t) ==
  /\ fate[i] = "open" /\ holder[i] = NoToken
  /\ t \notin used
  /\ holder' = [holder EXCEPT ![i] = t]
  /\ used' = used \cup {t}
  /\ UNCHANGED fate

\* the attempt failed, was deferred, or was presumed dead
TakeBack(i) ==
  /\ fate[i] = "open" /\ holder[i] # NoToken
  /\ holder' = [holder EXCEPT ![i] = NoToken]
  /\ UNCHANGED <<fate, used>>

Finish(i) ==
  /\ fate[i] = "open" /\ holder[i] # NoToken
  /\ holder' = [holder EXCEPT ![i] = NoToken]
  /\ \/ fate' = [fate EXCEPT ![i] = "finished"]
     \/ \E j \in SameInstance(i) \ {i} :
          /\ fate[j] = "unborn" /\ NothingOpenBut({i}, j)
          /\ fate' = [fate EXCEPT ![i] = "finished", ![j] = "open"]
  /\ UNCHANGED used

Withdraw(n) ==
  LET hit == {i \in Item : InstanceOf[i] = n /\ fate[i] = "open"} IN
  /\ fate' = [i \in Item |-> IF i \in hit THEN "withdrawn" ELSE fate[i]]
  /\ holder' = [i \in Item |-> IF i \in hit THEN NoToken ELSE holder[i]]
  /\ UNCHANGED used

Next ==
  \/ \E i \in Item : Create(i) \/ TakeBack(i) \/ Finish(i)
  \/ \E i \in Item, t \in Token : Grant(i, t)
  \/ \E n \in Instance : Withdraw(n)

Spec == Init /\ [][Next]_outbox
=============================================================================
