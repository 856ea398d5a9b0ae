# A TLA+ verification of Crumb's coordination code

Crumb is a terminal agent: a Rust workspace of some thirty crates. Most of it is sequential code over texts. What
this project verifies is the part where several processes, threads and the user meet:

- the **local A2A bus** (`crates/crumb-a2a-local`): registry leases and file inboxes through which Crumb instances on
  one machine exchange requests and responses, surviving crashes at any file operation;
- the **background-job ledger** (`crates/crumb-agent/src/jobs.rs`, its callers in `crates/crumb-cli/src/main.rs`);
- the **native Harness turn** (`crates/crumb-harness`): rounds, limits, deadline, cancellation, tool calls, approvals,
  and the team of helper turns one tool call can start;
- **peer turns** (`crates/crumb-a2a-inbound`, `-tasks`, `-exchanges`, `-runtime` and their caller in `crumb-cli`): a
  request of another instance answered by a turn, with two ledgers beside the bus;
- **edits and their checkpoints** (`crates/crumb-tools/workspace.rs`, `checkpoint.rs`) and the **background commands of
  a session** (`background.rs`): what the tools of a turn leave behind.

Every definition is translated from the source; `PROJECT.json` maps each one to the lines it stands for. The modules
check with TLC and the `*Proofs` modules with TLAPS.

## 1. Inventory

| Component | State it keeps | Operations | What makes it hard | What makes it correct |
|---|---|---|---|---|
| Local A2A bus (`crumb-a2a-local`) | per instance: registry entry (owner, expiry), lock file, `pending/`, `processing/`, `acknowledged/`, staged artifacts | register, heartbeat, unregister, enqueue, dequeue, complete, acknowledge, release, list, inspect, compact; recovery inside register | multi-file operations of short-lived processes; crashes between any two file operations; suspended owners; retries; bounded directories | a request is settled once, answered once and before it is settled; nothing accepted is lost; recovery never races the owner |
| A2A runtime (`crumb-a2a-runtime`) | registration, heartbeat thread, health | start, enqueue/dequeue facade, shutdown | heartbeat against shutdown | no call after shutdown; lease renewed while alive |
| Inbound turns, task and exchange ledgers (`crumb-a2a-inbound`, `-tasks`, `-exchanges`) | one JSON record per delivery, a ledger lock | claim, mark_running, complete, reject, release, reconcile, compact | two stores (bus, ledger) updated one after the other | ledger never contradicts the bus for good |
| Background jobs (`crumb-agent/jobs`, CLI workers) | per job: manifest, `job.bak`, `job.tmp`, lock file | create, claim, attach, finish, cancel, inspect, list; tick, promote | any number of workers; unlocked readers; crashes between renames | one claim per run, cancellation sticks, job lifecycle |
| Native Harness turn (`crumb-harness/lib.rs`) | rounds, calls, bytes, deadline, messages; conversation; session journal | run_turn, run_isolated_peer_turn | limits hit anywhere; cancellation and deadline at every wait; failing journal | bounds hold, each call is answered, the journal tells the truth |
| Teams (`crumb-harness/parallel.rs`, `team.rs`) | helper threads, TeamRegistry | spawn_agents | threads sharing token and approvals | helpers end with the call that started them |
| Approvals (`crumb-agent/approvals.rs`, `tools.rs`, `TurnApprovals`) | one-place channel, approvals of the turn | decide, recv, allow_once, deny | several askers, one user who may never answer | nothing runs unapproved; a cancelled wait ends |
| Sessions (`crumb-agent/session.rs`, history) | `events.jsonl`, metadata | append, load, label, archive, trash | torn last line, long journals | a journal can be replayed |
| Workspace edits and checkpoints (`crumb-tools/workspace.rs`, `checkpoint.rs`) | files, per edit preimage/result/manifest | write, edit, approve, reject | the user edits the same files; crashes between restore and manifest | a rejected edit restores the preimage and never a later user edit |
| Background processes of a session (`crumb-tools/background.rs`) | child processes, `jobs.json` | start, check, stop, drop | children that exit or flood at any time | bounded number; none left running |
| Questions, steering, tasks, routing, configuration (`crumb-agent`) | bounded queues, task board | ask, submit, pop | – | bounds |
| External MCP servers (`crumb-mcp`) | child process, request identifiers | initialize, discover, call | late answers, timeouts | an answer belongs to its request |
| Native, CLI and DSH processes (`crumb-native`, `-harness-cli`, `-harness-dsh`, ACP) | pipes and frames | start, send, receive | foreign processes | framing |
| Terminal and UI (`crumb-cli/main.rs`, `-ui`, `-repl`, `-pty`, `-platform`) | screen, prompts | – | – | rendering |
| Instances and profiles, models and accounts, memory, graph, optimisation, marketplace, command policy | files, remote services | – | – | data transformations |

How they interact: a turn of the UI thread runs the Harness on a worker thread (`spawn_turn`), with a cancellation
token and an approval channel between the two. Tools of a turn use the bus through the runtime, and `spawn_agents`
runs more Harness turns. A peer's request taken from the bus becomes an isolated Harness turn, tracked in the task
ledger. `/background` hands a running turn over to the job ledger, whose workers are processes that run Harness turns
of their own.

`PROJECT.json` has the hazards, each at the line where it bites; those no property covers yet have a note.

## 2. Modules and plan

Done:

| Module | What it is |
|---|---|
| `LocalBus` | the bus, one file-system change per step, processes crashing between steps |
| `DeliveryContract` | abstract: what a request and its response may do, with no files |
| `LocalBusContract` | refinement mapping from the bus to the contract |
| `LocalBusProofs` | inductive invariant and safety theorems of the bus |
| `ContractProofs` | the bus implements the contract |
| `JobStore` | the job ledger file by file: lock, `job.tmp`, `job.bak`, manifest |
| `JobLifecycle` | abstract: the states of a job |
| `BackgroundJobs` | extends `JobStore` with its callers: workers, promotions, cancels, crashes |
| `JobProofs` | ledger and caller invariants, implementation of the lifecycle, who updates a job and who runs it |
| `HarnessTurn` | a Harness turn, its team of helper turns, approvals, user, clock |
| `HarnessProofs` | inductive invariant and theorems of `HarnessTurn` |
| `PeerTurns` | the requests of peers: bus operations as whole steps, task ledger, exchange records, isolated turns, lease and heartbeat, shutdown; implements `DeliveryContract` |
| `PeerProofs` | inductive invariant and theorems of `PeerTurns`, and that it keeps the contract |
| `Checkpoints` | a file, the calls that write it, their checkpoints, reviews, the user's editor |
| `CheckpointProofs` | inductive invariant and theorems of `Checkpoints` |
| `Processes` | the background commands of a session, their records and manifest, the processes that open the session |
| `ProcessProofs` | inductive invariant and theorems of `Processes` |
| `SessionProofs` | the same theorems for the instances of both that `MCSession` composes |
| `MCLocalBus`, `MCInboxes`, `MCBackgroundJobs`, `MCHarnessTurn`, `MCPeerTurns`, `MCSession` | instances for TLC |

`DeliveryContract` ties the bus together: `LocalBus` implements it file by file, and `PeerTurns`, which uses the bus
in whole operations, takes no step the contract does not have. So what `PeerTurns` relies on is what `LocalBus` shows.

## 3. The bus

`LocalBus` models a delivery by its identity, since the code names a file by a hash of the request (or of the request
a response answers): sending the same request twice meets the same file. `pending`, `processing` and `acked` map
deliveries to file contents. `lease` is a registry entry, stale when its expiry has passed. `lock` is the instance's
`flock`, dropped by the kernel when its holder dies. An operation that changes one file is one action (`Enqueue`,
`Dequeue`, `Release`, ...); `complete`, `acknowledge` and recovery change several, so `op[p]` says where process `p`
is in them. Recovery (`Takeover`, then `Recover`) goes over the claims of a dead owner, looks for each answer in the
sender's three directories one after the other, as the code does without the sender's lock, and then applies its plan.

`answered`, `dismissed`, `claimer`, `aged` are history variables for the properties. `Age` says that a tombstone is
older than the retention horizon; only such tombstones are compacted.

| Run | Bounds | Shows |
|---|---|---|
| `bus` | one of three parts, chosen at the start. *One*: one request, two instances, the answering one started up to three times, two possible answers, inbox of 2, 1 tombstone. *Crossing*: two requests crossing, inboxes of one delivery, one tombstone. *Crowded*: a crashed runtime's inbox of two claims, any of them answered, with room for one tombstone | of one: `ResponseBeforeTombstone`, `OneAnswer`, `NothingLost`, `QueuedOnce`, `ClaimsOwned`, `OperationsFenced`, implementation of the contract; of crossing: `CrossingWithinLimit`, `CrossingClaimsOwned`, `CrossingFenced`; of crowded: `CrashedClaimsRecovered` |
| `bus_requeue` | as one | violation of `AnsweredNotRequeued` |
| `bus_ack_limit` | three requests; a constraint keeps the sender quiet, which only shortens the search | violation of `AcksWithinLimit` |

One request suffices for the safety properties that speak of one: deliveries share nothing but the lock, the lease and
the limits, and the crossing part has two compete for those. Three runtimes of an instance are a first owner, one that
dies while recovering, and the one that recovers after it. The safety properties of the run, the contract included, are
also proved for every value of the constants.

It does not suffice for recovery, which fails as a whole where one claim too many is to be given a tombstone. The
crowded part (`MCInboxes`) therefore starts where a runtime has died with two claims, none, one or both of them
answered, in an inbox that keeps one tombstone. `CrashedClaimsRecovered` says that each of them leaves `processing/`,
with an exception: recovery itself may push the tombstones past their limit (the finding `AcksWithinLimit`), and from
then on the code refuses to list that directory, every later registration fails, and what a later crash leaves claimed
stays claimed. The part reaches this state, and the property is false without the exception.

Fairness (of the crowded part only): a process inside an operation runs on; the lease of a crashed owner expires, since
nobody renews it; Crumb is started again in its workspace and its request for the lock, which others take in between,
is granted in the end (strong fairness of `Takeover`); tombstones get old. Nobody has to claim, answer or consume
anything.

**Findings.** `AnsweredNotRequeued`: recovery reads the sender's directories without its lock; a response that moves
from one to another between two reads is missed, and the request is queued to be executed a second time.
`AcksWithinLimit`: recovery counts tombstones on disk anew after a compaction and forgets the ones it has planned, so
the directory may end above its limit, and no recovery of that inbox succeeds again.

## 4. Background jobs

A step of `JobStore` is one file operation of `JobStore::update` and `write_definition`: create the lock file, read,
write `job.tmp`, rename the manifest to `job.bak`, rename `job.tmp` to the manifest, remove `job.bak`, remove the lock
file. Each of them may also fail (`WriteFails`, `SwapOutFails`, `SwapInFails`, `DiscardFails`; `Release` may leave the
lock file): where the install fails the code puts the backup back and ignores whether that worked, so a manifest may be
missing with nobody dead; where only the backup cannot be removed, the caller is refused an update that has landed.
Readers take no lock and may find no manifest. A dead process leaves all it has created. `BackgroundJobs` adds
the programs of the processes as a table of what is asked next after success and after refusal (`AskOf`, `AfterOk`,
`AfterRefusal`), and the turn between two updates.

| Run | Bounds | Shows |
|---|---|---|
| `jobs` | one job, three processes of any role, two may die, any change of the file system may fail, two runs of a recurring job | `OneRunner`, `CancelSticks`, `SessionOfThisRun`, `ExclusiveUpdate`, implementation of `JobLifecycle` |
| `job_promotion` | two processes, no crash | violation of `PromptSubmittedOnce` |
| `job_cancel` | two processes, no crash, fairness | violation of `CancelLands` |

Jobs share nothing, so one job is enough; three processes let a third find what two others do to each other; two runs
are needed for anything to be left over from an earlier run. The two processes that may die are alike (`Alike`, a
symmetry of the run). `ExclusiveUpdate` says that a process inside an update holds the lock, and that where a manifest
is missing nothing is lost and nothing goes on: `job.bak` is the job before an update its state permits, `job.tmp` the
job after it, and every later update ends when it finds no manifest. Fairness (`job_cancel` only): a process between or inside
its updates runs on, and a turn ends, for its rounds are bounded and its token is polled.

**Findings.** `PromptSubmittedOnce`: `/background` creates the job queued and due, and claims it in a second step; a
worker in between submits the prompt again. `CancelLands`: an update that meets a held lock is refused and never
repeated, so that a job can stay in cancellation for ever.

## 5. Harness turns

`HarnessTurn` has one record per turn (`turn[t]`): where its thread is (`at`), what `run_inner` counts, the calls of
the current batch still to do, and the result messages owed to the model (`open`). A step is what the thread does
between two points where others interfere: a model round (`CutOff`, `Break`, `Summarise`, `Answer`, `Revise`,
`RequestTools`), a tool call up to its authorization (`Skip`, `Reject`, `Invoke`), the approval channel (`Send`,
`Show`, `Decide`, `Hear`, `GiveUp`), the tool (`Return`, or `Assemble`, `Spawn`, `Help`, `Reconcile` for a team), its
result (`Report`) and the end (`Conclude`). Texts are sizes and requests are kinds; two requests of a kind have the
same tool and arguments. Where the code reads a text to decide (whether an answer check applies, whether a tool
failed), the model chooses freely. Journal writes may fail wherever they happen.

| Run | Bounds | Shows |
|---|---|---|
| `harness_turn` | one turn, three rounds, four calls, four bytes of output, texts of 0, 1 or 3; batches that mix passive, writing, team, malformed and `load_tools` calls; all modes; four answer checks | `LimitsHold`, `AnsweredEachCall`, `JournalTells`, `OwnWaitIsNotWork` |
| `harness_team` | a main turn and two helpers, one round and the summary each, one or two calls | `TypeOK`, `RunsOnlyAllowed`, `OwnWaitIsNotWork`, `HelpersWithTurn`, `CancelEnds` |
| `harness_waiting` | as `harness_team`, two time units | violation of `WaitingIsNotWork` |

The bounds let each limit be hit first, in the middle of a batch and on its last call; with `MaxTime` above
`TurnTimeout` a deadline moved by a wait is still reached. Two helpers are the least team the code accepts, and enough
to fill the one-place channel and to have one wait for the other's prompt. Fairness: threads run, tools return and a
stream yields or fails (`Step` of each turn); the user never has to decide, and `CancelEnds` holds all the same.

The runs switch deadlock checking off because a turn, a job and a bus at rest have nothing left to do.

**Finding.** `WaitingIsNotWork`: helpers
bypass the measurement of the main turn's waits, so the time the user takes over a helper's request counts against
the main turn.

`RunsOnlyAllowed` asks for the user's word about the same tool and arguments, not about this call: `TurnApprovals`
keeps an approval for the rest of the turn, and for the team's helpers too.

## 6. Peer turns

A request goes from the sender's runtime over the bus to a runtime of the receiving workspace, which claims it, enters
it in its task ledger, runs an isolated turn, files the answer, and marks the ledger; the sender and the receiver each
keep an exchange record beside that. None of these stores is updated together with another. `step[<<p, r>>]` is where
runtime `p` is with request `r`, one step for each call that reaches a store; `place`, `reply` and `seen` are the bus,
`task` the task ledger, `sent` and `got` the exchange records. A runtime that stalls loses its lease (`Expire`), its
successor recovers its claims (`Takeover`, `Recover`, `Recovered`), and every later call of the first is refused by
`Live`, but its thread goes on. A ledger write that reports a failure may have landed, for the directory is synced after
the file is in place: `Fails` leaves the record as it was or written, `Becomes` has it written. A runtime may also be shut down with turns under way, or die; then a temporary file may
lie in a ledger's directory, and the ledger refuses to be listed from then on (`Recorded`). For requests in `Faulty`
each store call may fail.

| Run | Bounds | Shows |
|---|---|---|
| `peers` | one fresh request, one answered by an earlier session whose record is still in the ledger; two runtimes one after the other; room for one ledger record; two answers; all calls may fail | `LedgerWitnessed`, `NotesBehind`, `ToldTruly`, `AnswerKnown`, implementation of the contract |

Requests meet only in the room of the ledgers, so one that is under way and one that fills the ledger are enough.
Either runtime may die while the other can still take over or has done so: two runtimes suffice for a claim that is
recovered, worked on anew and then met by the stalled work of the first.

`LedgerWitnessed` is the ledger's side: an ended record has its witness on the bus. It has an exception, which the run
meets (without it TLC finds a counterexample). A rejection can be filed and not yet settled when its claim goes back to
the inbox, by release or by recovery; the request is then claimed to be run, and the runtime stalls in the turn; a
successor begins its recovery, settles the request, the rejection being its response, and dies before it has the
lease; the stalled runtime renews its lease, cannot file its answer, and `reconcile_completed` marks the record
completed, because some response is durable and the record is running: it does not look at which response that is.
So of a request claimed again after a response was filed (`retaken`), "completed" only means that a response is filed
and the request settled. "Rejected" has no exception.

`NotesBehind` says the exchange records, whose failures the code drops, may lag and never lead. `ToldTruly` is about
what the user reads of a turn or a rejection (with the same exception), and `AnswerKnown` that an answered request is
known to be answered unless its work was cut off.
No property says that a claim is taken up again after an orderly shutdown: `unregister` removes the registry entry, the
next registration finds none, recovers nothing, and a claim whose turn outlived the shutdown and then died stays in
`processing/` (a hazard in `PROJECT.json`; the model has these behaviours).

## 7. Edits, checkpoints and background commands

`Checkpoints` has one file, since files share nothing but the listing of their checkpoints. A write goes through the
file operations of `install_checkpointed_write` (`MoveAway`, `Verify`, `Install`, then `Keep` and `Record` for the
checkpoint, `Clear`), each of which may be the last (`Crash`), be undone (`Undo`) or find the file changed. A review
reads a manifest and the file (`Load`), restores in two steps because `fs::write` first empties the file (`Restore`,
`Fill`), and writes the manifest (`Mark`). The user saves at any moment.

`Preserved` says that what the user saved is in the file, in a backup, or with a checkpoint. It does not hold for what
is saved while a write or a restoration is between its comparison and its end, nor for a file that appears after
`write_file` found none: the code compares nothing there. `mine` forgets such content (`Unnoticed`), which is the exact
extent of the exemption. For rejections the comments in `checkpoint.rs` promise more, and `RefusesChanged` states that
promise: see the finding below. `RejectAllUndoes` says that rejecting all pending checkpoints leads back to the start,
although only a wall clock orders them, which may stand still between two edits or be set back (`Times`). Where it did
not advance from one edit to a later one, a rejection may stop early; even then, one that ends with nothing pending
has restored the start.

`Processes` has one Crumb process at a time, its list of jobs, the manifest, and the commands in the world. An
operation under the mutex is a step. Saving may fail, the process may close or die, commands end and flood their logs.

| Run | Bounds | Shows |
|---|---|---|
| `session` | two edits by one call at a time or one each by two at once, three contents, one save by the user; three commands, two at a time, three processes | `Preserved`, `RejectAllUndoes`; `KnownJobs`, `OverIsOver`, `OwnCommands`, `EndsStay` |
| `session_review` | as `session` | violation of `RefusesChanged` |

The run has a behaviour of one of three parts, chosen at the start: the commands (`Processes`, which `MCSession`
extends), one call at a time (`Alone`) or two at once (`Pair`), both instances of `Checkpoints`. The parts share no
state. Three contents tell apart
what the user saved and what two edits wrote; two edits are enough for an order, and as many times as edits
(`Times`) for any order of their times, since only their order is used; three commands let a number be taken
again after a job that ended, and three processes let the second find what the first left and the third what the
second did.

**Finding.** `RefusesChanged`: a rejection reads the file, compares it with the digest of the edit, and then writes over
it; what the user saves between the two is overwritten, although `checkpoint.rs` says (231, 254-255) that a rejection
refuses to overwrite a file changed after the checkpoint and never overwrites a later user edit.

## 8. What is proved

Assumptions are those named in the modules: routes are functions between the given sets, markers are not members of
the sets they mark, limits are positive, bounds are natural numbers. The number of instances, runtimes, requests, jobs, processes is arbitrary
(requests are finite, for counting).

*The bus* (`LocalBusProofs`). None of the safety properties is inductive: whether `unlink` may remove a file depends
on what an earlier step of the same operation saw, and others have run since. `IInv` therefore says what a process in
the middle of an operation holds (`OpOK`: the lock of its instance, and its lease or a stale one), knows of the
delivery in its hand (`HandOK`) and has planned (`PlanOK`). `Isolation` shows that no step of another process
invalidates this. Each action is then reduced to one of seven changes of the directories (`FileChange`), and the
properties are proved to survive each of these. Theorems: `TypeCorrect`, `ResponseFirst`, `AnsweredOnce`, `Durable`,
`SingleCopy`, `ClaimsHaveOwners`, `LimitKept`, `Fenced`, all from `Invariance`. `BusKeepsContract` (`ContractProofs`)
says that the bus implements `DeliveryContract`: each of the seven changes is read, request by request, as a change of
the mapped place, response, waiver and consumption, and is then one step of the contract or none.

*The ledger* (`JobProofs`). `StoreInv` records what the three files of a job contain at each step of an update, and
that its lock is held. It makes the rename that installs a manifest the only step at which a job changes:
`LedgerImplementsLifecycle`. `CallersInv` adds that a process inside an update is where its program asked for it;
`CancellationSticks` and `CallersImplementLifecycle` follow.

*The runs of a job* (`JobProofs`). `SwapInv` says that where a manifest is missing, by an update under way, one
that died or one whose install and rollback failed, both files of that update are kept (`BothKept`) and nobody else is
past its lock and reading (`OnlySwapped`); `UpdatesExclude` follows. `OneRunner` is not inductive: a claim is in
the ledger from the rename that installs it, while the process that made it may still be inside the update and has
read no outcome. `RunInv` therefore says who holds a run (`Holder`, from the rename of its claim to the rename of its
finish), that a job has at most one holder and is then running or cancelling, and that a claim is of the job's current
run or an earlier one, where a claimed run is never queued again. `RunsHaveOneRunner` and `SessionsAreOfThisRun`
follow. `DueInv` says that a run under way, or in an update that claims it, has come due: with it every count
of runs and prompts is bounded by the clock, which `TypeCorrect` needs.

*The background commands* (`ProcessProofs`). `Inv` says that lists are numbered by position and right about what is
over; that the list of a running process goes on from the manifest (`Follows`), however many saves have failed; and
that a process has a handle for every command of its own still alive (`Waited`), so that its commands inject into its
running jobs, of which there are at most `MaxJobs`. `JobsStayKnown`, `OverStaysOver`, `OwnCommandsEnd` and
`EndsStaySaved` follow. `TypeCorrect` adds `Bounded`: no list, saved or not, is longer than the list of commands ever
started, so that a job's number, which names its log, never passes the bound on starts.

*Peer turns* (`PeerProofs`). `PeerInv` says what a work knows (`WorkOK`): only the owner of the lease files, and a
runtime that lost the lease never has it again, so a response to a request the owner works on is the owner's own or
was there when the request was claimed (`retaken`); a record somebody works at is not compacted, so it has come at
least as far as its work. For each request it says that a missing record means nobody got anywhere with it or it is
over, and that an answer or a run rules out a record that says claimed or rejected. Each step of a work is shown to
leave every other work and request alone (`Local`, `OthersKept`), so that only its own are looked at. Theorems:
`TypeCorrect`, `LedgerIsWitnessed`, `NotesLagBehind`, `UsersAreToldTruly`, `AnswersAreKnown`, `PeersKeepContract`.

*Harness turns* (`HarnessProofs`). `IInv` says, for each place a turn's thread can be at, what its counters, its
journal and its clock know of each other. `Bounded`: past the last round a limit is set, and a turn in a tool call has
set none. `Owes`: what has no result yet is exactly what is left to do. `Logged`: in a tool call one request lacks its
end. `Timed`: a turn at work has done as much work as the clock took of its time, and one that waits for the user had
when it began to wait; this is what makes `OwnWaitIsNotWork` inductive. `AllowedOK` ties an "allow" on its way back to
the request it was given for, and `CrewOK` says that whoever is not idle was started for the team. What a thread computes between two
points of interference is shown sound once (`LoopedSound`, `SettledSound`, `EndedSound`), and one lemma
(`ThreadKeeps`) shows that a sound step of one thread keeps the invariant of all. Theorems: `TypeCorrect`,
`LimitsAreKept`, `CallsAreAnswered`, `JournalIsTrue`, `OnlyAllowedRuns`, `WaitIsGivenBack`, `HelpersStayWithTurn`, for
any limits, number of helpers, batches and sizes of text.

*Edits and checkpoints* (`CheckpointProofs`, for any number of writers; it assumes, as `Marks`, that `Absent` and `Torn`
are no contents). `Preserved` is not inductive: while a call or a review is about to overwrite the file without looking
at it, work that is only in the file is lost. `Safe` therefore says that at such a moment (`Unnoticed`) the user's work
is in a backup, with a checkpoint, or left behind; `CallOK` says that a backup which passed the comparison is what the
call read, and that the checkpoint of an edit has the same preimage, so that the backup may go. `UsersWorkSurvives`
and `TypeCorrect` follow, the first with the exemption of `Preserved`: nothing is claimed of what was saved unnoticed.

`RejectionUndoes` (`RejectAllUndoes` of `Checkpoints`) needs a second invariant, `Orderly`: while nothing but edits and
rejections of all of them has happened (`base` is not `Torn`), the pending checkpoints lead from `base` to what the file
holds between two edits. That they do so one after the other (`Chain`) is only true while the clock has
advanced from each edit to each later one (`Rising`): otherwise a rejection may take one of the middle first. What holds
even so is `Flow`: each content is the preimage of as many pending checkpoints as it is the result of, but for `base`
and the file. An edit adds one at the end of the file; a rejection restores a preimage only over its own result, and so
takes one off the end of the file, whichever it is; both keep `Flow`. When none is pending, `Flow` leaves the file equal to
`base`, whatever the order was; and where the times rise, `Chain` shows that the newest is never refused, so that a
rejection that stops early has met a later edit whose time is not later.

*A session* (`SessionProofs`). The run composes the background commands and two instances of `Checkpoints`, of which
one runs. `SessionProofs` instantiates `CheckpointProofs` in the same two ways, shows action by action that the
instances agree, and carries the invariants over: `SessionTypes`, `SavesSurvive`, `EditsAreUndone`,
`CommandsStayKnown`.

Only model-checked: liveness (`CrashedClaimsRecovered`, `CancelEnds`), which is beyond the prover. Every invariant and
every action property of the passing runs is stated by a theorem; those of the crossing part of `bus` are
`InboxWithinLimit`, `ClaimsOwned` and `OperationsFenced` of `LocalBus`, proved for any requests and limits.

## 9. Not modelled

Each component's note in `PROJECT.json` says what is left out and why. What remains falls into four kinds:

- code whose difficulty is not one of order or interference: texts, formats and rendering (the UI, the REPL, model
  tables, memory and graph, the optimiser, the wire types, command policy), which make up most of the repository's
  lines. A state machine says nothing about them that a unit test does not say better;
- clients of foreign programs and services (MCP servers, DSH and CLI harnesses, ACP, the marketplace), whose other
  side is not in the repository: what can go wrong is what that side does;
- readers (listing, inspecting, exporting), which are parts of the actions that use what they read;
- parts of modelled components: staged artifacts and quarantined entries of the bus, the undo ledger of shell
  commands, journals inside `session.rs`, several teams in one turn. `ask_user` is a tool like any other (the code
  counts its wait as work), and a helper thread that panics is left out.

A hazard without a property names in its note what the models do not have. Next would be a model
of the bus's artifacts.
