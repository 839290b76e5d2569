# Verification of the Agent Dealer coordinator

Agent Dealer takes issues, runs a developer agent and a reviewer agent on each
of them, and takes the result to a pull request, a merge, or a question to its
operator. Everything that decides is in `packages/server`: one Node process over
one SQLite file. This directory holds TLA+ models of that server's control,
the configurations that check them with TLC, and proofs checked with TLAPS.

The hazards of the code, with the line where each bites and the property that
would show it, are in `PROJECT.json`, as is the map from every definition to the
lines it models. Paths below are relative to `packages/server/src`.

## 1. Inventory

The server is single-threaded. A SQLite transaction is synchronous and therefore
atomic against everything but a crash. Interleaving happens at the `await`s: the
agent processes, git and gh, health checks, and between the poll loop, the HTTP
commands and the background tasks. Several processes share only the pid marker:
a second server is refused at start.

| component | state it keeps | operations | what is hard |
|---|---|---|---|
| work-item outbox (`repository/work-items.ts`) | `work_items`: status, attempt count, lease token and expiry, idempotency key | enqueue, claim, heartbeat, finish, defer, requeue, cancel, list expired | fencing of late writers, one active row per workflow, counters given back |
| worker loop, sessions (`coordinator/worker-loop.ts`, `repository/worker-sessions.ts`) | `active` map, `worker_sessions` | claim, session setup, health check, heartbeat, handler, completion, failure | crash between any two steps, timeouts, lost leases |
| lease recovery (`coordinator/recovery.ts`, `process-liveness.ts`, `clock-jump.ts`) | a pass over the expired leases; the grace after a clock jump | scan, judge, kill, reclaim, route a dead item | awaits between reading and acting; a host that slept; a pid it cannot identify |
| CLI runner (`runners/spawn-cli.ts`, `process-registry.ts`) | registered children, spawn slots | spawn, wall clock, idle watchdog, kill | a child that outlives its signal; a slot given back one microtask before it is taken |
| command kernel (`coordinator/commands.ts`, `routing.ts`, `projection.ts`, `human-resolution.ts`) | `issues`, `human_actions`, `workflow_instances`, budgets | start, complete, route, defer, resolve, park, abort, close | several writers to one issue; idempotency keys; budgets; answers for a state that has passed |
| auto-merge (`coordinator/auto-merge.ts`, `external-merge.ts`) | the merge park, `finalizeInflight` | park, finalize, gate, escalate, recover stranded parks | crash between approval and merge, abort during a merge, a head that moves |
| merge-conflict sync, base-advanced scan (`merge-conflict-sync.ts`, `base-advanced-scan.ts`) | the episode's spent marks (workflow events), a sync checkout per issue | sync, repair round, checks wait, scan of siblings | an endless exchange of conflicts; a push over somebody's commits; a scan over an issue someone else moves |
| developer effect (`coordinator/developer-effect.ts`, `adapters/git-worktree.ts`) | a worktree per session, the issue branch on both sides, the PR | checkout, run, salvage, probe, push, lease push, poll, hand off, publish only | a crash or timeout with work in the tree; another live agent in it; a branch others push to |
| reviewer effect (`coordinator/reviewer-effect.ts`, `repository/review-publications.ts`) | `review_publications`, the review on GitHub | review, claim the publication, post, record, adopt | `gh pr review` is not idempotent; two attempts overlap |
| admission (`coordinator/admission.ts`, `dependencies.ts`, `repository/queue-entries.ts`) | `queue_entries`, the limit, the blocker cache | enqueue, move, admit, execute now; fetch, cache, back off | capacity and blockers read before an await |
| source attachments (`coordinator/source-reload.ts`, `source-attachments.ts`) | rows, frozen manifests, blob files | import, reload, freeze, materialize, delete | two reloads at once; rows and files in two stores; a crash in between |
| playbook feedback (`coordinator/playbook-feedback.ts`, `reflect-trigger.ts`) | receipts, feedback rows | collect, report | overlapping passes, late and lost answers of Deck |
| usage caps (`repository/runtime-availability.ts`) | cap windows and waits | defer, reprobe, park | a wait that never ends |
| capability gate (`adapters/muse-capability.ts`, `agent-health.ts`) | a state file per runtime binary, a probe in flight, cached health | read health, probe, retry, ask the operator, acknowledge, safety net after a session | a binary updated under way; version reads and verdicts that arrive out of order; file and database in two writes |
| host-awake (`power/host-awake.ts`) | a reference count, one caffeinate child | hold, release, exit and error events | events of a child that was replaced |
| start-up marker (`pid-marker.ts`) | a pid file and an arbiter lock | claim, take over, release | two servers that find a dead one's file |
| deletion (`coordinator/delete-issue.ts`) | rows and files of an issue | delete | deleting what still runs or is being started |
| GitHub and deck adapters, the other agents' health, visual QA | git, gh, HTTP | I/O | outcomes only: choices in the models |
| routes, CLI, web, read models, metrics, capacity telemetry, migrations | none of the workflow's | call the kernel, or read | not modelled |

How they interact. The poll loop (`runCoordinatorTick`) awaits the recovery pass
and admission, then claims pending work items up to the concurrency limit, each
handled by `processWorkItemHeld` under a host-awake hold. The handler runs the
developer or the reviewer effect, which takes a spawn slot for its agent; its
answer goes to `applyCompletion`, one transaction that finishes the row, moves the
issue and inserts the next row or human action. The operator's commands insert and
cancel rows in transactions of their own. An approved issue parks;
`finalizeAutoMerge` merges it outside any transaction, and a merge starts the scan
of the other issues on that base and the feedback pass of this one. The rows of
`work_items` are the only channel between the kernel and the loop:
`WorkItems`/`WorkerLoop` model one side of it, `Coordinator` the other.

What makes each component correct:

- outbox: a row is settled once, by the latest claim; one active row per workflow;
  an attempt counter that says how many failures there were.
- loop and recovery: no lease and no session lasts for ever; recovery spares a
  handler that still runs here; two agents never work on one issue.
- kernel: an issue always has exactly one thing that will move it; no answer of an
  agent is ever refused by the status table; review verdicts belong to the head on
  record; between two decisions of a person the work is bounded.
- auto-merge and sync: only a parked, approved and cleared issue is merged; a park
  always ends; a sync changes a pull request by the base and nothing else.
- developer effect: no work is lost, no two agents share a checkout, no push takes
  anybody's commit away, what is handed on is what was checked.
- reviewer effect: GitHub shows one review, and the workflow goes on with that one.
- admission: the limit is kept except by a decision or a resume; no issue starts
  before a blocker that is known; no queued issue waits for ever.
- spawn slots, host-awake, marker: nothing leaks, nobody is forgotten, one owner.
- capability gate: it decides on the version that is installed, each version gets its verdict,
  and only an operator who was asked about that loss overrides one.
- attachments: what a workflow runs on is there and whole.
- feedback: nothing that is owed is dropped, nothing is sent twice without reason.

## 2. Modules

| module | models | about |
|---|---|---|
| `WorkItems` | `repository/work-items.ts` and its tables | one operator per SQL statement, used as the guards and updates of `WorkerLoop` |
| `Outbox` | (abstract) | what the outbox promises a workflow |
| `WorkerLoop` | worker loop, recovery, sessions, CLI processes, clock jump | many items, attempts interleaved at every await, crashes, host sleeps; refines `Outbox` |
| `Coordinator` | command kernel, routing, auto-merge, conflict sync, base-advanced scan | one issue from creation to its end |
| `SlotPool` | (abstract) | what admission promises: a start takes a free slot |
| `Admission` | `admission.ts`, `queue-entries.ts`, the guard of `delete-issue.ts` | many issues, one tick and two requests of the operator walking at once; refines `SlotPool` |
| `Blockers` | `dependencies.ts` | the cache of declared blockers under overlapping walks |
| `DeveloperEffect` | `developer-effect.ts`, `git-worktree.ts`, `worktree-owner-liveness.ts`, `branch-progress.ts` | the attempts of one issue in git |
| `ConflictSync` | `merge-conflict-sync.ts`, `base-advanced-scan.ts` | the two kinds of sync on one branch |
| `ReviewPublication` | `review-publications.ts`, the end of `reviewer-effect.ts` | overlapping attempts of one reviewer item |
| `SpawnSlots` | `runners/process-registry.ts` | the semaphore, microtask by microtask |
| `HostAwake` | `power/host-awake.ts` | the count, the child and its late events |
| `PidMarker` | `pid-marker.ts` | the file, system call by system call |
| `SourceAttachments` | `source-reload.ts`, `source-attachments.ts` | rows, manifest and files of one issue |
| `PlaybookFeedback` | `playbook-feedback.ts`, `reflect-trigger.ts` | receipts and reports of one issue |
| `MuseCapability` | `adapters/muse-capability.ts`, its callers in `agent-health.ts`, `admission.ts`, `developer-effect.ts`, `commands.ts` | one binary, its probe, overlapping health reads and the operator |
| `MCWorkerLoop`, `MCServices`, `MCIssue` | | instances for TLC (section 3) |
| `...Proofs` | | the theorems of section 5 |

### WorkItems and WorkerLoop

An attempt is named by its lease token, which also names its session and its
process. `phase[t]` says at which await of `processWorkItemHeld` the attempt
stands; everything between two awaits is one action. The claim and session setup
share a turn of the event loop (`TurnDone`), and are separate actions because
a crash can fall between two transactions. Time is abstracted: `expired` holds the
leases past their expiry, `overdue` the sessions past the hold ceiling, `gated`
the rows whose `available_at` has not come. A handler's lease is kept alive
(`KeptAlive`) while its heartbeat interval runs; it lapses when the process died,
when the handler has settled, or for all at once when the host sleeps. Recovery's
pass keeps what it read (`suspects`, then `condemned`) while other actions run.
The next effect a routing transaction inserts is any item of the instance, or
none: which one is the matter of `Coordinator`. `PsWorks = FALSE` lets `ps` fail to
identify a live pid. Recovery's kill has the outcomes of `TerminationOutcome`: stopped, not
signalled because not identified, or failed, and after either of the last two the item is reclaimed
next to a survivor (`stray`). Completion of a session whose lease was lost, the torn
completion, and the SIGTERM that is not followed up are as in the code.

### Coordinator

A routing transaction is one action: leased row settled, budgets charged, status
moved, next row or human action inserted. Where the code awaits, the action ends:
`fin` is the finalizer's await (merging, syncing, retrying, merged), `pushing` the
lease push, `scan` the base-advanced scan between its push and its transaction,
`listed` the recovery pass between listing this issue and reaching it. Attempts and
leases are abstracted to pending/leased plus "put back": `WorkerLoop` covers them.

Abstractions of data. A head is a number that each push increases; 0 is "none".
The outcome of an agent is the choice of the action that routes it, so every
outcome can follow every other. The two episode marks and `ours` stand for what the
code derives by scanning `workflow_events` (`conflictRepairSpent`,
`checksWaitSyncSpent`, `lastDealerPushedSha`). Only idempotency keys that can be
derived twice are kept; all others name a row, an action, or an ordinal. A human
action that is reopened for the same blocker (`sameBlockerAction`) appears as a new
action. The hold for visual evidence uses the same gate as operator criteria and is
part of `NeedsOperator`. A reviewer resumes at the pinned head, or at the live head read
from GitHub before the transaction, which may fail: the choice `h \in {a.head, remote}`.

`Windows` names the two awaits in which the code can be disturbed in a way that
breaks what its comments say (section 4). With `Windows = {}` these two calls run
to their end undisturbed except by a crash, and everything else interleaves; the
violation runs open one window each, so that a counterexample is due to that window.

### Admission, SlotPool and Blockers

`walk[c]` is what a caller (tick, Start, Execute now) holds across its awaits: the
issues still to look at, in the order it listed, and the free slots it counted. One
step of a walk is one candidate: its checks are awaited and answer, and then the
transaction of `startWorkflowCore` runs in the same turn, with the two looks the code
takes after the await (`StillWanted`, `SlotStillFree`). The answers of the checks
are choices, since they come from text, agents and GitHub. The operator's enqueue,
move, dequeue, limit, scope decision and delete fall between. `Pool` maps an issue to a
job: started, paused, over or waiting, with an open scope decision as the mandate
that may exceed the limit.

`Blockers` opens the blocker check. Time is counted in units: the age of an edge in
Linear, of a cached row, of a snapshot. `TakeSnapshot` serves what is fresh and asks
for the rest in one fetch at a time; a failure starts the back-off, in which nothing
is asked and a stale row is as good as none; `StartDependent` uses the snapshot the
walk took. The premise, named in the module, is that no walk lasts longer than
`BlkMaxWalk`, because each await in it has a time-out.

### DeveloperEffect

A ref is the set of commits it adds to the base; fast-forward is inclusion, and the
commits of one patch are equivalent in the sense of `git cherry`, which is what
`proveOnlyRewrites` compares. The attempts follow each other, as a lease admits one
at a time (`WorkerLoop`), but an agent may outlive its attempt: `agentIn[k]` is the
worktree its session recorded for as long as it lives. The check of a checkout's owners
(`Living`, `LooksLive`, `LooksDead`) is not exact, and neither is the code's: a living child of
this server reads as alive, whatever became of its session (`process-liveness.ts` 155-171 falls
back on a signal when `ps` fails), but the survivor of a crash reads as alive or as unknown (no start
time on its row, no `ps`), and for a session that is over unknown counts as dead
(`worktree-owner-liveness.ts` 79-80). `known[k]` is what the server can know of agent `k`: its own `child`, a
`former` server's, or `missed`, a survivor in a checkout that was given on with it inside. Such an agent
goes on editing, committing and rewriting there, next to the new one. `devAt` walks through the awaits of the effect: checkout (`resolve`, `ready`),
agent (`running`, `exited`, `settled`), publication (`probe`, `push`, `lease`, `pushed`),
pull request (`pr`, `identity`, `checks`, `polled`; HEAD is read once, between seeing or creating the
PR and comparing its head, `PrSeen`). `publishOnly` is the payload's flag with which recovery and
routing send an attempt without an agent to publish what the branch has. Others push to the
branch, GitHub is late with the PR's head, a person overwrites the tip or clears a
tree, and the server crashes, at any time.

### ConflictSync

A head is what it contains: the branch's own commits and the advanced base or not.
`sync["own"]` is the issue's own sync (of the finalizer or of the CI wait),
`sync["scan"]` that of a sibling's merge; both use one checkout named after the
issue, and each git call is a step of its own. `moved` marks a sync whose ground
changed where the code does not look again: origin after its last look, the local
ref before the checkout was added, or the other sync in the same checkout.

### ReviewPublication

Attempts of one reviewer work item, each with a verdict of its own. Claiming the row,
the call, GitHub's effect and the recording of it are four steps, so that a crash or a
lapsed lease falls between any two; `orphan` is a `gh` that outlives its server, and
`denied` a review that GitHub took although the call failed. The lease is only its
holder and how far its expiry is.

### SpawnSlots, HostAwake, PidMarker

`SpawnSlots` separates the resolve of a waiter from its continuation (`woken`), in
which the counter says the slot is free. `HostAwake` keeps a state per child, so that
an exit or error event arrives after the guard has replaced its child. `PidMarker`
separates creating the file from writing it, and reading it from taking it over under
the arbiter's lock; `vacated` is history, as the promise ends once the file was absent.

### MuseCapability

Every new version of this agent's CLI is probed once, in the background, before its
developers are trusted. `confirmed`, `reported`, `checked` and `overridden` are the
fields of the state file; `probe`, `watchers` and `answer` (the entry of
`runtimeIssueCache`) live in memory and go with a crash. A health read spawns
`muse --version`, then takes the answer, then caches it unless a check settled in
between (`spans`), three steps per reader, so two reads may answer in the opposite
order, and a synchronous look of the safety net may fall between. Handlers run without
interruption, and the continuation of an await before the next callback: `Draining` holds
while one is due. `SafetyNet` is a session that changed files without one shell call,
`AdmissionAsks` the escalation after a developer's health check, `Acknowledge` the
operator's choice, which writes the file first and the row second; `AcknowledgeCrashes`
ends between the two.

Left out: the wording kept with a version, the caps of 50 on watchers and overrides, a
state file that cannot be written, the probe's own session (its outcome is `ProbeAnswers(result)`),
and the lengths of time-outs (`aged`, `AnswerExpires`). Attempts are counted as far as exhaustion. Where
several watchers are owed a question, any one of their issues carries it.

### SourceAttachments and PlaybookFeedback

A reload is three steps: it asks, the ticket arrives with the rows read before the
downloads, and it commits or is refused in one turn (store the files, swap the rows, prune),
which only a crash cuts short (`SrcCrash` leaves any prefix of it, a torn file included). A
workflow freezes the rows at its start and on a resume from a scope park.

A pass of feedback collects the receipts of the finished sessions one await at a
time, checks Deck's health, and sends what it finds owed: intent row, call, sent row.
What is owed (`Candidates`) is the code's three triggers with the actions an earlier
one has claimed taken out. `unanswered` and `overlapped` are history variables.

### Composition

`Coordinator` and `WorkerLoop` meet in the rows; `Coordinator` takes the put-back of a
row as a step, which `AttemptAccounting` and `NoLeaseForever` bound. `DeveloperEffect` relies
on the loop for one effect at a time and on recovery for the choice of a publish-only attempt.
`Coordinator`'s `fin = "syncing"` is one sync of `ConflictSync`. `Admission`'s blocker check is
`Blockers`. The modules share no variable: each keeps what its own code reads and writes.

## 3. Runs

| run | question | distinct states | result |
|---|---|---|---|
| `worker_loop` | every safety property of the loop, and the refinement of `Outbox` | 421,452 | holds |
| `liveness` | does every lease and every session end? | | holds |
| `issue` | one issue: kernel, developer attempts, files, feedback | 1,366,492 | holds |
| `coordinator_liveness` | does work reach a person, and a park its end? | 65,912 | holds |
| `services` | admission, blockers, spawn slots, host-awake, marker, syncs, review publication, capability gate | 113,590 | holds |
| `two_agents` | "never two live agents on one issue" | | violated |
| `torn_session` | no running session that recovery cannot locate | | violated |
| `abort_run` | an abort stops the run | | violated |
| `lease_push` | is a lease push refused once its action is resolved? | | violated |
| `stale_list` | does the recovery pass merge only parks? | | violated |
| `moved_head` | does the operator gate block a head that moved? | | violated |
| `refused_reload` | does a refused reload leave the prior snapshot intact? | | violated |

`services` and `issue` explore components that share no variable. A behaviour picks
one of them in its first state (`part`) and runs it alone, the others staying in one
first state, so the state space is the sum of theirs and not the product; interleaving
components without a common variable reaches no new state of either. The fair actions of
`Admission` are disabled, or change nothing, while another part runs; those of
`MuseCapability` are fair only while that part runs.

Bounds.

- `WorkerLoop`: two items and two tokens, so a row is claimed twice, or reclaimed and
  answered late, and one workflow has a next effect; two disruptions, so a crash meets a
  sleep or a routing failure, or a second crash the recovery of the first; attempt
  cap 2 and infra budget 1, so both the retry and the exhausted branch are taken. Two
  issues in one pass are covered by the theorems (section 5). Tokens are interchangeable, hence the symmetry
  set; liveness runs use none.
- `Coordinator`: two review rounds, infra and CI budgets of 1, two pushed heads (and one
  more that only a person's lease push makes) and one decision of a person. A second
  head makes a stale verdict, a moved park and a moved PR possible; one decision makes every
  resolution possible after every history, and the work that follows it is unbounded by
  decisions. The model was also run, with no error, with three heads (6.9 million
  states) and with two decisions (11.4 million). `AutonomyBound` is tight: one less is
  violated. In `coordinator_liveness` the "list" window is open and CI budget and heads are
  smaller, which keeps the tableau in reach; the properties there concern budgets and
  crashes, not heads.
- `Admission`: two issues, a ceiling of 2 and one request of the operator next to the
  tick: enough for a slot taken, an issue dequeued, deleted or paused during a walk, and for one issue to
  overtake another. `Blockers`: one dependent, one ticket, two overlapping walks, each
  duration one unit, so that a row expires, a fetch outlives it and a back-off ends in between.
- `SpawnSlots`: four runs over two slots (two spawned, one woken, one barging).
  `HostAwake`: two holds and four children (a child replaced while its event is due, twice).
  `PidMarker`: three processes (one takes over, one waits at the lock, one arrives late), each may crash.
- `ConflictSync`: one commit that a worker or a person adds or takes off; both syncs at once.
- `ReviewPublication`: two attempts, two verdicts, one look at the row; run alone also with three
  attempts and two looks (491,082 states).
- `MuseCapability`: two versions, one update, one issue, one reader, one acknowledged question, exhaustion after
  two errors. A read that was started before the update and answers after the safety net has seen
  the new version gives reports out of order; one version that can be both lost and unverifiable
  gives two questions. Two readers, issues, updates and acknowledgements were explored
  for safety over 4.3 million states without a violation, not to the end. The versions are
  interchangeable, so one of them stands for the one installed first.
- `DeveloperEffect`: three attempts (the third meets what two left behind), one patch of the agents, each in
  two versions, and one of others.
- `SourceAttachments`: two files and three reloads. `PlaybookFeedback`: one session, one action and
  two passes; run alone also with two of each (7.3 million states).

`CHECK_DEADLOCK FALSE` is set where every issue may have ended, every process have
exited, or the model's tokens be used up.

Properties (the formulas are commented in the modules):

- `AttemptAccounting`, `SettledByLatestClaim`, `TerminalIsFinal`,
  `ImplementsOutbox`: the outbox under every writer.
- `RunningSessionIsLocatable`, `OneLiveAgent`, `RecoverySparesOwnWork`: the loop and
  recovery across crashes and sleeps, with the gaps the violation runs show named
  in the formula (`torn`, `stray`) instead of left out of the model.
- `NoLeaseForever`, `EverySessionEnds`.
- `ExactlyOneNextEffect`: the kernel's central promise, over all writers.
- `RoutingNeverRefused`: a leased row's answer can always be stored.
- `ReviewIsPinned`: reviewer rows, verdicts and resumes name the issue's head.
- `AutonomyBounded`: between two decisions at most
  `2 * (maxRounds + 3) + MaxInfra + MaxCi` rows: two per review round, conflict repair,
  base sync and the sync whose push came before the decision, and one per retry.
- `MergeIsCleared`: a merge starts only for the approved head, with the operator's
  result if one is needed.
- `MergeParkSettles`, `WorkReachesAPerson`.
- `ImplementsSlotPool`: every start takes a slot that is free at that instant; `DequeueHolds`:
  what the operator dequeued no walk starts; `QueuedMovesOn`: nobody starves in the queue.
- `NoDoomedStart`: no start without the work of a blocker that was declared longer ago than one
  cache lifetime and two walks.
- `SlotsAccounted`: the counter is what runs, a waiter is waiting for someone, each is listed once.
- `AwakeMatchesWork`: the host is kept awake by exactly one child while there is work.
- `TakeoverExclusive`: one process at a time takes over a dead one's marker, while the
  file stays in place.
- `SyncAddsOnlyBase`: an undisturbed sync changes a PR by the base and nothing else.
- `ReviewIsTheVerdict`: one review stands that gh did not deny, and it is the one decided.
- `TreesNotShared`: two live agents are in one checkout only if one of them survived a crash and the
  check of the owners could not identify it (`missed`). TLC reaches such a state; what the check keeps is
  every other way to it: an agent given up after a time-out, a checkout that changed hands several
  times, a survivor that was seen.
- `WorkNeverLost`, `OriginKeepsChanges`, `HandoffWasChecked`: the developer's
  work across attempts, with a survivor at work in the checkout or not; `MovedSinceProof` names the one instant
  the code leaves open.
- `MuseGateIsCurrent`: the verdict on file and the cached health are about the version that is reported.
- `OverrideWasDecided`: one question per version and verdict, never asked again; a loss is overridden
  only by whoever was asked about that loss.
- `InstalledIsChecked`: the version on disk never stays without a verdict for ever.
- `InputsAreWhole`: what is frozen and what is listed is on disk, unless a refused reload
  overlapped a committed one (`undercut`, the run `refused_reload`).
- `UseIsNotForgotten`, `OneReportPerKey`, `NothingIsDropped`: receipts and reports across overlapping
  passes, crashes and lost answers.

Fairness. `WorkerLoop`: timers fire and promises settle, the poll loop ticks, a
heartbeat interval runs (weak fairness of each). Nothing is assumed of the
operator, crashes, or a CLI without its parent; a CLI with a parent ends by itself
or by the wall clock `spawnCli` always sets. `Coordinator`: the poll loop claims
pending rows (weak). A claim is put back only finitely often, because attempts,
deferral ceilings and holds are capped (`AttemptAccounting`, `NoLeaseForever` and the
ceilings of `usage-cap-config.ts`), so a repeated claim is answered (strong). The
tick finalizes parks again after every crash, and `gh` answers each call with success or
an error (strong: crashes may interrupt any number of calls, but not all of them).
`Admission`: the poll timer starts a walk (weak), a tick's walk goes on (weak: the
awaited checks have time-outs), an issue whose checks are asked again and again passes them at some
time (strong), and an issue that occupies a slot again and again ends (strong: rounds, attempts and waits are
budgeted, `WorkReachesAPerson`). Nothing is assumed of Start and Execute now.
`MuseCapability`: health is read again and again (each admission tick, each open page), cached
health expires, a probe ends by its time-out at the latest (weak), and crashes cease at some time, since
each forgets the probe in flight. Nothing is assumed of sessions or of the operator.

## 4. Disagreements between code and text

Each of these is a violation run and an entry under "findings" in `PROJECT.json`.

- `two_agents`: `spawnCli` settles 500 ms after one SIGTERM and never signals again;
  a CLI that ignores it is alive while the retry spawns the next. Recovery has two more ways to the same
  state (`recovery.ts` 507-519, `stray`): a survivor it cannot identify is not signalled, and a
  kill may fail.
- `torn_session`: a crash after the completion's commit and before
  `safeCompleteSession` leaves a session running that no lease leads to.
- `abort_run`: an abort signals only children of this process; the agent of an
  earlier process, its rows cancelled, is not looked at again.
- `lease_push`: `resolveHumanAction` does not refuse an action resolved during the
  push, so the push puts the issue to work over a newer open action.
- `stale_list`: the recovery pass merges an issue that left the park after the list
  was made; the merged issue goes on repairing.
- `moved_head`: the gate compares the head before the merge; the base sync of the same
  call pushes a head that is then merged without a result for it.
- `refused_reload`: a refused reload prunes against the rows it read before its downloads;
  a file that another reload committed meanwhile, and a workflow froze, goes with it.

Met while modelling, without a run of their own. The models contain the code's
behaviour; where a property would fail on it, the formula names the exception.

- Developer: the owner check exists so that no checkout is adopted while an agent is mid-run
  (`worktree-owner-liveness.ts` 3-7, and "never two live agents on one issue", "a later tick will spawn a
  successor into the same worktree", `recovery.ts` 497-500). For a survivor of a crash whose process cannot be
  identified (`process-liveness.ts` 140-177: no start time, `ps` fails, another host) it does not: recovery ends
  the session without a signal and reclaims the item, a session that is over counts as live on the verdict "alive"
  only (79-80), and the next attempt adopts the clean checkout, or commits the survivor's
  unfinished edits and adopts it, with the survivor at work in it. `TreesNotShared` names it (`missed`). The same check
  guards a sync's leftover checkout (`merge-conflict-sync.ts` 811), where no agent works.
- Developer: commits on a side branch or a detached HEAD are not carried to the retry
  after a crash, time-out, cap or a run that does not push (`developer-effect.ts`
  1807-1975). `WorkNeverLost` speaks of the issue branch.
- Developer: the lease retry pushes the ref and not the SHA that was proven, and a
  publish-only attempt asks for no live owner (`git-worktree.ts` 656-709): `MovedSinceProof`.
- Marker: `pid-marker.ts` 93-94 promises that racing an absent marker is safe; the
  `wx` open and the write are two calls outside the arbiter's lock: `~vacated`.
- Admission: a row moved to the top "is the next one admitted" (`admission.ts` near 536) holds
  for walks that start later only. A `final_review` issue without an instance can be enqueued by
  the HTTP route and stays in the queue for ever.
- Spawn slots: an acquirer that arrives between a release and the woken waiter's turn gets
  the slot too, so the count exceeds `MAX_CONCURRENT_RUNS`; it is accounted for.
- Sync: the checkout is adopted as a crashed run's leftover even when another sync of this
  process works in it (`merge-conflict-sync.ts` 795-819); between the fast-forward of the local ref
  and `worktree add` a worker may move the ref, against the comment at 628-633; a reset by a person
  between the last look and the push is pushed over; a crash in a conflicting merge
  leaves a dirty checkout that every later sync refuses; a crash between the push and its event
  makes the tip look pushed by hand.
- Publication: the extended lease is called a structural guarantee for the whole publish
  operation (`review-publications.ts` 28-41), but the next heartbeat sets the expiry
  back to one minute. A stale claim "surfaces as publish_failed" (153-166); routing answers that with a new
  reviewer item, which publishes under a row of its own: `ReviewIsTheVerdict` is per work item.
- Capability gate: the safety net means to verify at once, bypassing the error back-off
  (`muse-capability.ts`, `museCapabilitySafetyNetAfterSession`); while another version's probe is in
  flight it only reports the version, and the probe that follows obeys the back-off.
- Capability gate: a question for a watched version can be raised on an issue that has ended meanwhile, as
  `ensureMuseCapabilityEscalation` does not look at the issue's status; and a late `muse --version` from
  before an update drops the newer version's verdict, which is then probed again.
- Feedback: an exhausted action resolved by a retry is reported under both triggers in one pass, as the
  claimed keys are read once (`playbook-feedback.ts` 678-685, against 514-516); two passes that overlap send
  everything twice: `overlapped`. After an outage of Deck nothing starts another pass.
- Attachments: a crash inside `copyFileSync` leaves a torn file at a content-addressed path, and
  later snapshots of that file are refused until the issue is deleted. A reload in flight
  while its issue is deleted creates the directory again.
- Deletion: an aborted effect that has not spawned yet may create its worktree after the row is gone.

## 5. Proofs

### WorkerLoopProofs

It proves, for every set of items, instances and tokens and every
bound, from the assumptions `WorkItemsAssumption` and `WorkerLoopAssumption` (the item
set is finite, `InstanceOf` maps items to instances, `NoToken` and `NoItem` are neither
token nor item, the caps are naturals, `MaxAttempts` and `MaxConcurrency` positive):

| theorem | statement |
|---|---|
| `TypeCorrect` | `[]TypeOK`, including the references between rows, claims and the pass |
| `AttemptsAreAccounted` | `[]AttemptAccounting` |
| `SettledByLatestClaimHolds` | `[]SettledByLatestClaim` |
| `TerminalIsFinalHolds` | `TerminalIsFinal`, an action property |
| `OutboxIsImplemented` | `Spec => Promise!Spec`, the refinement of `Outbox` |

The argument. Every action of `WorkerLoop` changes what a row says (its status, holder,
count and settlement) in one of six ways (enqueued, claimed, finished, charged with a
failure, given back, cancelled) or not at all. Lemmas named `...IsRowStep` show this
action by action and combine in `NextIsRowStep`; the invariants of the rows are then
proved over those six ways instead of over every action. `TypeOK` is inductive because it holds `ReferencesOK`: a leased row
names a minted token and that token names the row, which keeps every lookup
`InstanceOf[itemOf[t]]` defined. `AttemptAccounting` needs that a leased row's
count is positive, which it says itself. `SettledByLatestClaim` is not inductive: a row
could be settled by a holder that is not its latest claim, so `HolderIsLatest` is
proved with it. `TerminalIsFinal` follows from a lemma on what each step does to
sessions (`NextIsSessionStep`) and from the row steps. The refinement uses
`TypeOK` for "this grant is new" and, for "nothing else is open", the lemma `OneActiveItemHolds`, which
follows from the guard of the unique index (`InsertAllowed`) and is a helper here, not a result.

Three more theorems rest on `AttemptInvariant`, which says what row, session, process
and recovery pass know of one attempt, at each of its awaits. Its parts need each other:

- `LeaseIsKept`: a lease whose handler runs here has lapsed only by a sleep of the
  host, and then the grace shields it until the heartbeat has renewed it;
- `SessionIsBound`: a running session holds the lease of its row, which is bound to it, and is
  worked on here or orphaned; or its handler has settled or is torn from its completion;
- `AgentsAreLeased`: a live agent that is not `stray` runs under the lease of its row, or
  its issue is closed; either way there is one per issue;
- `ClosedIsEmpty`: a closed issue has no active row;
- `PassIsSound`: a candidate of the pass whose handler runs here is shielded, and a
  condemned one has neither a handler here nor a live agent under its lease.

| theorem | statement |
|---|---|
| `AttemptInvariant` | `[]AttemptInv` |
| `RunningSessionIsLocatableHolds` | `[]RunningSessionIsLocatable` |
| `RecoverySparesOwnWorkHolds` | `[]RecoverySparesOwnWork`, for a pass over any number of leases of any number of issues |
| `OneLiveAgentHolds` | `[]OneLiveAgent` |

### CoordinatorProofs

It proves, for every budget, bound on heads and decisions, and value of
`NeedsOperator`, from `CoordinatorAssumption` (the budgets are naturals, the first round
limit is positive):

| theorem | premise | statement |
|---|---|---|
| `TypeCorrect` | `Windows = {}` | `[]TypeOK`, with the infra and CI budgets |
| `OneNextEffectHolds` | `Windows = {}` | `[]ExactlyOneNextEffect` |
| `ReviewIsPinnedHolds` | `Windows = {}` | `[]ReviewIsPinned` |
| `RoutingNeverRefusedHolds` | `Windows = {}` | `[]RoutingNeverRefused` |
| `MergeIsClearedHolds` | `Windows = {}` | `MergeIsCleared`, an action property |
| `EndedIsLeftAloneHolds` | `Windows = {}` | no step changes a row, question, budget or record of an issue that ended, not the late answer of a merge, sync or scan either |
| `ClaimsHoldUndisturbed` | `Windows = {}` | what `lease_push` and `stale_list` refute (`WorkHasNoOpenAction`, `OnlyParkedIsMerged`) |
| `AutonomyIsBounded` | | `[]AutonomyBounded` |
| `BudgetsAreKeptHolds` | | the infra and CI budgets are never overdrawn |
| `NeverStrandedHolds` | | an active issue has the row of its stage, an open question or the merge park |
| `DoneIsMergedHolds` | | an issue is done only if its pull request is merged |

The premise says that nothing but a crash falls into the await of a lease
push or between the listing and the finalizing of a parked issue. In those two windows
the code breaks what it promises, as `lease_push` and `stale_list` show. The premise is needed:
with either window open, TLC finds `ExactlyOneNextEffect` and `EndedIsLeftAlone` violated, `ReviewIsPinned` and
`RoutingNeverRefused` after two decisions of a person at the latest, and `MergeIsCleared` with the recovery
pass open. `ClaimsHoldUndisturbed` puts the two disagreements of section 4 down to the windows
alone. The awaits of the finalizer's own merge, sync and retry, and of the scan, are open to every
other step in the theorems as in the runs. The last four theorems have no premise: whatever
falls into either window adds a second effect at most, and loses none.

The argument of the first seven. A step leaves the issue in one of five ways (`Effect`): its active row,
question or park as they were, a row of the stage it works in, one new question, the
merge park, or the end. `EffectKeepsNextEffectOK` proves the next-effect and pinning
invariants over the five ways; one lemma per action (`...Step`) shows which way it
takes. The inductive invariant `IInv` adds to the stated properties what the effects
rest on:

- `KeysOK`: a derived key names a round the issue has reached, so the row of the next
  round is never swallowed as a duplicate.
- `CallsOK`: `fin` leaves idle only for a parked issue and the issue stays parked or ends
  while the call runs; a listed issue is parked; `pushing` is the one open action.
- `AskedOfTheApproved`: a final review, merge failure or operator question is about the
  head last approved, so parking from it parks an approved head.

`RowRuns`, `PersonDecides` and `ParkWaits` say what `IInv` gives where a row, a person or
the park moves the issue on. `IInv` was also checked by TLC with the constants of
`Issue.cfg`.

The argument of `AutonomyIsBounded` is a potential (`CountInv`): to the rows already queued it adds
two for each round, repair and sync the episode has left, one for each infra and CI attempt left and one
for a review that is due. A step that queues a row draws on one of these, and only a
decision of a person fills them up. `NeverStrandedHolds` needs `StrandInv`: keys name rounds
that were reached (`RoundsReached`), so that no row is taken for a duplicate, and nothing happens to an issue
before its start (`Untouched`). `DoneIsMergedHolds` needs that a merge the finalizer reports stands.

### AdmissionProofs

| theorem | statement |
|---|---|
| `OccupantsRunAlways` | `[]AdmInv` |
| `AdmTypeCorrect` | `[]AdmTypeOK`: no issue is queued twice, no walk counts more slots than the ceiling |
| `QueueIsKept` | a queued entry leaves only for an issue that starts or is over, or by the operator's hand; two that stay keep their order unless the operator moves or starts one |
| `AdmissionImplementsSlotPool` | `AdmSpec => ImplementsSlotPool` |
| `DequeueHoldsAlways` | `AdmSpec => DequeueHolds` |
| `SnapshotsKnow` | `[]BlkInv` |
| `OneFetchAtATime` | `[]BlkTypeOK`, and one call to Linear is in flight at most, none while it is backed off from |
| `NoStartIsDoomed` | `BlkSpec => NoDoomedStart` |

For any finite set of issues, limits and overlap (`AdmAssumption`). A step is of one of five kinds as
the pool sees it: it changes nothing (`Moves`), starts an issue, turns one between running and paused, ends
one, or sets the limit; one lemma per action says which, and each kind is a step of
`SlotPool`. `AdmInv` adds to the shapes that an occupant of a slot has an instance
(otherwise a start could count it twice) and that a decision is open only for an issue that is not over.

The queue is a sequence of any length, and what a walk lists of it is `Among`, a recursive
function. What it lists (`AmongIsPart`, `AmongKeepsOrder`) is proved by induction over the length,
written out as an induction over a set of numbers (`LeastElement`, `Induction`), because the
library's induction rule takes a predicate as a parameter. Moving, removing and appending an entry
are then three lemmas about the places of the others (`OnTopInserts`, `FilterHolds`, `AppendHolds`).

For any durations, walkers, tickets and dependents (`BlkAssumption`). `BlkInv` is an argument about
ages: an answer knows every edge older than its fetch, a cached row every edge older than its arrival
and one walk, a snapshot that and its walk's own age. The sum is `BlkOld`, so an edge of that age
is in every snapshot that starts an issue. `FetchInv` says which walk awaits a fetch, so that
the walks that join it and the one that asks never make two.

### ProcessProofs

| theorem | statement |
|---|---|
| `SpawnTypeCorrect`, `AwakeTypeCorrect`, `PidTypeCorrect`, `MuseTypeCorrect` | the type invariants of the four modules |
| `SlotsAlwaysAccounted` | `[]SlotsAccounted`, for any finite set of runs and any limit |
| `AwakeAlwaysMatchesWork` | `[]AwakeMatchesWork`, for any set of children and any order of their events |
| `TakeoverAlwaysExclusive` | `[]TakeoverExclusive`, for any set of processes |
| `GateAlwaysCurrent` | `[]MuseGateIsCurrent`, for any versions, readers and number of updates |
| `OverrideAlwaysDecided` | `[]OverrideWasDecided`, for any versions and issues |

`SlotsAccounted` and `AwakeMatchesWork` are inductive with their types. The marker needs
`LockHeld` (who stands under the lock holds it) and `InPlace`: while the file was never
absent, an owner is the one the file names, and a file emptied for rewriting names nobody and its rewriter holds the lock.

`MuseGateIsCurrent` is not inductive alone. `ReadIsCurrent` says of an answered read that no settled
check spans that its finding is what the gate says of the reported version, so it may be cached;
`ChangedToConfirmed` that, while an answer about another version is cached and no probe is in flight,
the reported version is the confirmed one, so an answer left over from before a version change is
either dropped by a probe's end or not believed. For the override, `AckOnFile` says that
what is acknowledged is decided and, for a loss, on file: a health check that meets an acknowledged
question again never lifts a block by itself.

### PullRequestProofs

| theorem | statement |
|---|---|
| `SyncTypeCorrect` | `[]SyncTypeOK`, for any set of commits |
| `UndisturbedSyncHoldsTheTip` | `[]SyncInv` |
| `SyncAlwaysAddsOnlyBase` | `SyncAddsOnlyBase` |
| `PubTypeCorrect` | `[]PubTypeOK`, for any number of attempts and looks and any verdicts |
| `RowAgreesWithGitHub` | `[]PubInv` |
| `ReviewIsAlwaysTheVerdict` | `[]ReviewIsTheVerdict` |

`SyncInv` follows a sync that is not `moved` from place to place: it is alone
in the checkout, the local branch is the tip it fetched or that tip with the base, and what it
pushes stands on origin's tip. `CheckoutKeepsWorkersOut` (git refuses a second checkout of a branch)
keeps the workers from moving the ref under it.

`PubInv` (from `PublicationAssumption`) ties the row to the call under way
and to what stands on GitHub: while a call runs the row is claimed by it (`CallsClaim`), a published row's
review stands and is the only one (`RowSays`, `PostedAreLeft`), and an attempt tells the loop what the row says (`ToldByRow`).

### DeveloperEffectProofs

| theorem | statement |
|---|---|
| `DevelopersStayApart` | `[]DevInv` |
| `DevTypesAlways` | `[]DevTypeOK` |
| `TreesNeverShared` | `[]TreesNotShared` |
| `WorkIsNeverLost` | `DevSpec => WorkNeverLost` |
| `OriginAlwaysKeeps` | `DevSpec => OriginKeepsChanges` |
| `HandoffAlwaysChecked` | `DevSpec => HandoffWasChecked` |

For any number of attempts and any patches (`DevAssumption`). `DevInv` says which place of the effect has a
worktree of which attempt (`Standing`), that every other live agent in the worktree about to be used, in use or
being published was `missed` there (`AgentsApart`), and that at most one tree holds the issue branch (`OnBranch`).
Steps are sorted by what they do to the trees and to control (`TreesStay`, `Ends`, `Onward`, `Turns`), so that
each of the thirty actions is met once. For the pushes, `LeaseProven` says that in front of a lease push
every change on the recorded remote tip is also on the proven local one; for the hand-off,
nothing is assumed of who moves the branch: `Unmade` says that before somebody else pushes, no head Dealer has contains
their change, so a PR that moved off the pinned head shows that the branch did too; `HeldToPinned` that
from the verified PR to the poll a head other than the pinned one is noticed.

### IssueProofs

| theorem | statement |
|---|---|
| `InputsStayWhole` | `[]InputsAreWhole`, for any files and number of reloads |
| `UseIsNeverForgotten` | `FbSpec => UseIsNotForgotten` |
| `NothingIsEverDropped` | `[]NothingIsDropped` |
| `OneReportPerKeyHolds` | `[]OneReportPerKey` |
| `IssuePartsKeepTheirSpecs` | `LifeSpec => Spec /\ DevSpec /\ FbSpec /\ SrcSpec` |
| `IssueIsSafe` | every property the run `issue` checks, for `LifeSpec` |

The second to the fourth for any sessions, actions and number of passes (`FeedbackAssumption`). The files need
that a working workflow runs on the rows that are listed (no reload is allowed then). The receipts
need `OneFlightEach`: at most one collection of a session awaits Deck, so an answer can not
overwrite a newer one. `OnTrack`: as long as no report of a pass failed, what is owed is on its list
or delivered. `InTurn`: when passes do not overlap, what the one at its reports has left was
never sent, and Deck holds a report at most once more than Dealer has rows, lost answers
and a call in flight for it.

The sum: a step of `LifeNext` is a step of one part and stutters in the others, so `LifeSpec` is no more and
no less than what the parts' own theorems speak of, and these carry over to the run
(those of `CoordinatorProofs` with their premise, which `Issue.cfg` meets).

### ServicesProofs

| theorem | statement |
|---|---|
| `PartsKeepTheirSpecs` | `SvcSpec` implies the specification of each of the eight components |
| `ServicesTypesHold` | `SvcSpec => []ServicesTypeOK` |
| `ServicesAreSafe` | every safety property the run `services` checks, for `SvcSpec` |

The same for the run `services`, from the theorems of `AdmissionProofs`, `ProcessProofs` and `PullRequestProofs`.

Only model-checked: liveness (`NoLeaseForever`, `EverySessionEnds`, `MergeParkSettles`,
`WorkReachesAPerson`, `QueuedMovesOn`, `InstalledIsChecked`), which is out of the prover's reach. Every
invariant and every safety property of a step that a passing run checks is stated by a theorem.

## 6. Not modelled, and why

- In the kernel: resolutions of migrated legacy actions,
  `deck_interaction_required` actions, the scope decision before the start (its open
  state is in `Admission`), edits of text and agents (they change payloads), the gate's variant
  for an issue without a head (a park always has one), `recoverStrandedReviewing` (it repairs a
  state that `ExactlyOneNextEffect` shows unreachable).
- In the developer effect: prompts, decks, receipts, samplers, the shared lock per
  repository (a promise chain). In the reviewer effect: worktrees, diffs, evidence and browser probe.
- In the publication of a review: a throw after `gh` has answered; it leaves the row claimed, as the
  modelled crash between the answer and its recording does. In `Blockers`: the start by the resolution of a
  scope decision (`commands.ts` 2472), which asks for no blockers and promises nothing about them; all other
  entry points are gated.
- Usage caps: the arithmetic of windows and the reprobe budget; that a wait ends is an assumption
  of `Coordinator`'s fairness.
- Deletion: the guard's look at checkouts and authority attempts, and the removal of files after the commit.
- Agent health of the other runtimes: probes whose only lasting state is the cached answer, and for
  one of them a streak of soft failures within a grace period.
- The start-up and shutdown sequence of the server and its heartbeat file.
- Capacity telemetry, read models, metrics and reports: pure reads, which nothing in the workflow waits for.
- I/O against git, gh, Linear, the deck and CLIs: outcomes are choices.
- Routes, CLI, web and migrations: thin callers of the kernel, rendering, one-off changes.

Most of the repository's lines are of the last three kinds, so the map, which covers the files
that decide, names a small share of all of them.

## 7. Plan

Done: all modules of section 2, with their proofs. Still to write, in order of importance:

1. A composition of `Coordinator` with `WorkItems` that replaces the put-back
   abstraction, for one issue, to show that the two sides of the outbox agree.
2. The windows of usage caps, to derive what `Coordinator`'s fairness assumes of a capped wait.
3. `TypeOK` without `Windows = {}`: TLC finds it kept with one decision, but each decision can leave
   one more question open, so that the ids of the model would have to grow with `MaxDecisions`.
