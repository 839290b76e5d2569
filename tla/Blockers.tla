------------------------------ MODULE Blockers -------------------------------
(***************************************************************************)
(* coordinator/dependencies.ts: may a dependent issue start, given the     *)
(* blockers declared in Linear?  Declared edges come from a remote answer, *)
(* cached per issue for BlkTTL, fetched by one call at a time, with a      *)
(* back-off after a failure; the state of a blocker Dealer works on is     *)
(* read live.  Walks (the coordinator tick, a Start) overlap, and use the  *)
(* snapshot they took until they end.                                      *)
(*                                                                         *)
(* Time is counted in units of BlkMaxWalk/2: no walk lasts longer than     *)
(* BlkMaxWalk from the request for its snapshot to its last start (the     *)
(* fetch and every health check are bounded by time-outs).                 *)
(***************************************************************************)
EXTENDS Integers

CONSTANTS
  Dependent,    \* Linear-sourced issues waiting in the queue
  Ticket,       \* tickets that may be declared as blockers
  BlkWalker,    \* the walks that may overlap
  BlkTTL,       \* cacheTtlMs
  BlkMaxWalk,   \* bound on the length of a walk
  BlkBackoff    \* failureBackoffMs

NoFetch == "none"

ASSUME BlkAssumption ==
  /\ BlkTTL \in Nat \ {0} /\ BlkMaxWalk \in Nat \ {0} /\ BlkBackoff \in Nat \ {0}
  /\ NoFetch \notin BlkWalker

\* an edge as old as this has been seen by every walk that starts an issue
BlkOld == BlkTTL + 2 * BlkMaxWalk

VARIABLES
  edges,      \* [Dependent -> [Ticket -> age of the edge in Linear; -1: none]]
  passes,     \* [Ticket -> statuses of the Dealer issues on this ticket]
  linearDone, \* tickets completed or canceled in Linear
  cached,     \* [Dependent -> [at: age or -1 when absent, on: SUBSET Ticket]]
  backoff,    \* time left before Linear is asked again
  fetcher,    \* the walk whose fetch is in flight, or NoFetch
  snap,       \* [BlkWalker -> the snapshot of the walk]
  begun       \* dependents started

blkVars == <<edges, passes, linearDone, cached, backoff, fetcher, snap, begun>>

Absent == [at |-> -1, on |-> {}]
\* at: where the walk stands; age: of the walk; asks: the stale ids it sent;
\* known: ids in the snapshot; on: [Dependent -> blockers, as known]
NoSnap == [at |-> "none", age |-> 0, asks |-> {}, known |-> {},
           on |-> [d \in Dependent |-> {}]]

BlkTypeOK ==
  /\ edges \in [Dependent -> [Ticket -> -1..BlkOld]]
  /\ passes \in [Ticket -> SUBSET {"active", "done", "closed"}]
  /\ linearDone \in SUBSET Ticket
  /\ cached \in [Dependent -> [at : -1..BlkTTL, on : SUBSET Ticket]]
  /\ backoff \in 0..BlkBackoff
  /\ fetcher \in BlkWalker \cup {NoFetch}
  /\ snap \in [BlkWalker ->
       [at : {"none", "asked", "answered", "ready"}, age : 0..BlkMaxWalk,
        asks : SUBSET Dependent, known : SUBSET Dependent,
        on : [Dependent -> SUBSET Ticket]]]
  /\ begun \in SUBSET Dependent

Declared(d) == {t \in Ticket : edges[d][t] >= 0}

BlkInit ==
  /\ edges \in [Dependent -> [Ticket -> {-1, BlkOld}]]
  /\ passes \in [Ticket -> SUBSET {"active", "closed"}]
  /\ linearDone = {}
  /\ cached = [d \in Dependent |-> Absent]
  /\ backoff = 0
  /\ fetcher = NoFetch
  /\ snap = [w \in BlkWalker |-> NoSnap]
  /\ begun = {}

\* blockerVerdict: Dealer's own passes decide when there are any
Satisfied(t) ==
  IF passes[t] = {} THEN t \in linearDone
  ELSE "active" \notin passes[t] /\ "done" \in passes[t]

-----------------------------------------------------------------------------
(* blockersFor *)

\* expired rows are dropped, never served
ServedStale == cached
Fresh == [d \in Dependent |-> IF cached[d].at >= BlkTTL THEN Absent ELSE cached[d]]

\* its synchronous part: hits come from the cache; the rest is asked of
\* Linear, unless it is backing off or another call is in flight, in which
\* case the whole snapshot is empty: unknown, not unblocked
TakeSnapshot(w) ==
  LET hits == {d \in Dependent \ begun : Fresh[d].at >= 0}
      stale == (Dependent \ begun) \ hits
      held == [NoSnap EXCEPT !.known = hits,
                !.on = [d \in Dependent |-> IF d \in hits THEN Fresh[d].on ELSE {}]]
  IN
  /\ snap[w].at = "none" /\ begun # Dependent
  /\ cached' = Fresh
  /\ \/ /\ stale = {}
        /\ snap' = [snap EXCEPT ![w] = [held EXCEPT !.at = "ready"]]
        /\ UNCHANGED fetcher
     \/ /\ stale # {} /\ (backoff > 0 \/ fetcher # NoFetch)
        /\ snap' = [snap EXCEPT ![w] = [NoSnap EXCEPT !.at = "ready"]]
        /\ UNCHANGED fetcher
     \/ /\ stale # {} /\ backoff = 0 /\ fetcher = NoFetch
        /\ snap' = [snap EXCEPT ![w] = [held EXCEPT !.at = "asked", !.asks = stale]]
        /\ fetcher' = w
  /\ UNCHANGED <<edges, passes, linearDone, backoff, begun>>

\* Linear reads its edges, and may leave ids out of its answer
LinearAnswers(w, out) ==
  /\ snap[w].at = "asked"
  /\ snap' = [snap EXCEPT ![w].at = "answered",
                ![w].known = (@ \cup snap[w].asks) \ out,
                ![w].on = [d \in Dependent |->
                  IF d \in snap[w].asks \ out THEN Declared(d) ELSE @[d]]]
  /\ UNCHANGED <<edges, passes, linearDone, cached, backoff, fetcher, begun>>

\* the answer arrives; an id left out is dropped from the cache
AnswerArrives(w) ==
  LET s == snap[w] IN
  /\ s.at = "answered"
  /\ cached' = [d \in Dependent |->
       IF d \in s.asks \cap s.known THEN [at |-> 0, on |-> s.on[d]]
       ELSE IF d \in s.asks THEN Absent ELSE cached[d]]
  /\ backoff' = 0
  /\ fetcher' = NoFetch
  /\ snap' = [snap EXCEPT ![w].at = "ready", ![w].asks = {}]
  /\ UNCHANGED <<edges, passes, linearDone, begun>>

\* an error, a time-out, a lost answer: an empty snapshot and a back-off
FetchFails(w) ==
  /\ snap[w].at \in {"asked", "answered"}
  /\ backoff' = BlkBackoff
  /\ fetcher' = NoFetch
  /\ snap' = [snap EXCEPT ![w] = [NoSnap EXCEPT !.at = "ready", !.age = snap[w].age]]
  /\ UNCHANGED <<edges, passes, linearDone, cached, begun>>

-----------------------------------------------------------------------------
(* The walk that uses it *)

\* blockedByDependency: absent means unknown
Unblocked(w, d) ==
  /\ d \in snap[w].known
  /\ \A t \in snap[w].on[d] : Satisfied(t)

StartDependent(w, d) ==
  /\ snap[w].at = "ready" /\ d \notin begun
  /\ Unblocked(w, d)
  /\ begun' = begun \cup {d}
  /\ UNCHANGED <<edges, passes, linearDone, cached, backoff, fetcher, snap>>

WalkEnds(w) ==
  /\ snap[w].at = "ready"
  /\ snap' = [snap EXCEPT ![w] = NoSnap]
  /\ UNCHANGED <<edges, passes, linearDone, cached, backoff, fetcher, begun>>

-----------------------------------------------------------------------------
(* The world *)

Older(a, top) == IF a = -1 \/ a = top THEN a ELSE a + 1

BlkTimePasses ==
  /\ \A w \in BlkWalker : snap[w].at # "none" => snap[w].age < BlkMaxWalk
  /\ edges' = [d \in Dependent |-> [t \in Ticket |-> Older(edges[d][t], BlkOld)]]
  /\ cached' = [d \in Dependent |-> [cached[d] EXCEPT !.at = Older(@, BlkTTL)]]
  /\ backoff' = IF backoff > 0 THEN backoff - 1 ELSE 0
  /\ snap' = [w \in BlkWalker |->
       IF snap[w].at = "none" THEN NoSnap ELSE [snap[w] EXCEPT !.age = @ + 1]]
  /\ UNCHANGED <<passes, linearDone, fetcher, begun>>

DeclareEdge(d, t) ==
  /\ edges[d][t] = -1
  /\ edges' = [edges EXCEPT ![d][t] = 0]
  /\ UNCHANGED <<passes, linearDone, cached, backoff, fetcher, snap, begun>>

DropEdge(d, t) ==
  /\ edges[d][t] # -1
  /\ edges' = [edges EXCEPT ![d][t] = -1]
  /\ UNCHANGED <<passes, linearDone, cached, backoff, fetcher, snap, begun>>

\* a pass of the ticket is imported into Dealer, merged, or closed; Linear
\* completes or cancels it, and reopens it
TicketMoves(t) ==
  /\ \/ /\ "active" \notin passes[t]
        /\ passes' = [passes EXCEPT ![t] = @ \cup {"active"}]
        /\ UNCHANGED linearDone
     \/ /\ "active" \in passes[t]
        /\ \E s \in {"done", "closed"} :
             passes' = [passes EXCEPT ![t] = (@ \ {"active"}) \cup {s}]
        /\ UNCHANGED linearDone
     \/ /\ linearDone' = IF t \in linearDone THEN linearDone \ {t}
                         ELSE linearDone \cup {t}
        /\ UNCHANGED passes
  /\ UNCHANGED <<edges, cached, backoff, fetcher, snap, begun>>

BlkNext ==
  \/ BlkTimePasses
  \/ \E w \in BlkWalker :
       \/ TakeSnapshot(w) \/ AnswerArrives(w) \/ FetchFails(w) \/ WalkEnds(w)
       \/ \E out \in SUBSET Dependent : LinearAnswers(w, out)
       \/ \E d \in Dependent : StartDependent(w, d)
  \/ \E d \in Dependent, t \in Ticket : DeclareEdge(d, t) \/ DropEdge(d, t)
  \/ \E t \in Ticket : TicketMoves(t)

BlkSpec == BlkInit /\ [][BlkNext]_blkVars

-----------------------------------------------------------------------------
\* No doomed run: an issue never starts on a base that misses the work of a
\* blocker declared long enough ago to be known, however stale the cache, the
\* back-off and the overlapping walks make what is known of Linear
\* (dependencies.ts:32-39 "missing key means unknown", 124-131 "no stale-
\* while-error").
NoDoomedStart ==
  [][\A d \in begun' \ begun : \A t \in Ticket :
       edges[d][t] = BlkOld => Satisfied(t)]_blkVars
=============================================================================
