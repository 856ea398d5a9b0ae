------------------------------ MODULE PeerTurns ------------------------------
(***************************************************************************)
(* A request of a peer, from the receiver's inbox to its two ledgers:      *)
(* crates/crumb-a2a-inbound and its callers in crumb-cli, over the task    *)
(* ledger (crumb-a2a-tasks), the exchange ledger (crumb-a2a-exchanges) and *)
(* the runtime (crumb-a2a-runtime).  One workspace receives; its runtimes  *)
(* are started one after the other, but a stalled one may still be at work *)
(* when the next has taken over its lease.                                 *)
(*                                                                         *)
(* The bus is the delivery contract that LocalBus is shown to implement    *)
(* (DeliveryContract), with the lease that fences its operations.  A bus   *)
(* call is one step under the instance locks, except that a response is    *)
(* filed before its request is settled.  A ledger update is one step under *)
(* the ledger's file lock; a process that dies inside it may leave its     *)
(* temporary file behind.                                                  *)
(*                                                                         *)
(* Abstractions.  Digests, counts and identities are what they identify:   *)
(* a record is its state.  Whoever prompts a call (the user) may do so at  *)
(* any time.  An ended record may be old enough to be compacted at any     *)
(* time, or not.  Exchange updates are best effort and may be skipped.     *)
(***************************************************************************)
EXTENDS Naturals, FiniteSets

CONSTANTS
    Runtimes,     \* the receiver's runtimes, each started at most once
    Requests,
    Past,         \* requests answered in an earlier session
    Watched,      \* bound: the requests whose sender is followed after sending
    Answers,      \* what a turn may reply
    Rejection,    \* the protocol's rejected-task reply
    NoReply,      \* no response yet
    NoRuntime,    \* no registry entry
    MaxRecords,   \* MAX_TASK_RECORDS, MAX_EXCHANGE_RECORDS
    MaxAtOnce,    \* bound on the works under way together
    Faulty        \* bound: the requests whose handling may meet a failing disk,
                  \* limit or thread creation

ASSUME RepliesAssumption ==
    Rejection \notin Answers /\ NoReply \notin Answers \cup {Rejection}

ASSUME RuntimesAssumption == NoRuntime \notin Runtimes

ASSUME BoundsAssumption ==
    /\ IsFiniteSet(Requests) /\ Past \cup Watched \subseteq Requests
    /\ MaxRecords \in Nat /\ MaxAtOnce \in Nat /\ Faulty \subseteq Requests

Replies == Answers \cup {Rejection}

\* The work of one runtime on one request: a claim, then a turn or a rejection.
Works == Runtimes \X Requests

VARIABLES
    place,    \* request -> "none", "pending", "processing" or "settled"
    reply,    \* request -> the response filed with its sender
    seen,     \* requests whose response the sender has consumed
    runtime,  \* runtime -> "new", "recovering", "up", "down" or "dead"
    owner,    \* the runtime named by the registry entry
    stale,    \* its lease has outlived its time to live
    task,     \* request -> state of its task record
    litter,   \* a temporary file of a dead process lies in the task ledger
    note,     \* request -> state of the receiver's exchange record
    sent,     \* request -> state of the sender's exchange record
    step,     \* work -> where it is
    want,     \* work -> "run" or "reject"
    stage,    \* work -> "claim", "turn" (marked running) or "redo" (reconciling)
    answer,   \* work -> the response to file
    \* History: what happened, never read by an action's guard.
    told,     \* <<request, state>>: a caller was told that the request ended so
    ran,      \* requests handed to a model
    abandoned,\* requests some work left neither settled nor returned
    retaken   \* requests claimed again with a response filed

bus == <<place, reply, seen>>
lease == <<runtime, owner, stale>>
ledgers == <<task, litter, note, sent>>
work == <<step, want, stage, answer>>
history == <<told, ran, abandoned, retaken>>
vars == <<bus, lease, ledgers, work, history>>

Places == {"none", "pending", "processing", "settled"}
RuntimeStates == {"new", "recovering", "up", "down", "dead"}
Active == {"claimed", "running"}
Terminal == {"completed", "rejected"}
TaskStates == {"none"} \cup Active \cup Terminal
SentStates == {"none", "sent", "available", "acknowledged"}
Steps == {"idle", "create", "giveBack", "noteClaim", "start", "noteRun", "turn",
          "check", "file", "settle", "prove", "mark", "noteEnd", "reconcile",
          "release"}

\* No operation holds the instance locks.
Unlocked ==
    /\ \A w \in Works : step[w] # "settle"
    /\ \A p \in Runtimes : runtime[p] # "recovering"
\* ensure_running and require_live_owner.
Live(p) == runtime[p] = "up" /\ owner = p /\ ~stale

Go(w, s) == step' = [step EXCEPT ![w] = s]
Resting(w) ==
    /\ step' = [step EXCEPT ![w] = "idle"]
    /\ want' = [want EXCEPT ![w] = "run"]
    /\ stage' = [stage EXCEPT ![w] = "claim"]
    /\ answer' = [answer EXCEPT ![w] = NoReply]
\* What ends a work: its caller is told, and of an end it is remembered.
End(w, outcome) ==
    /\ Resting(w)
    /\ told' = told \cup ({<<w[2], outcome>>} \cap (Requests \X Terminal))

Shift(r, there) == place' = [place EXCEPT ![r] = there]

(***************************************************************************)
(* The two ledgers.                                                        *)
(***************************************************************************)
\* Mutant: a running task can be rejected.
MayBecomeAnyEnd(from, to) ==
    from \in Active /\ (from = to \/ to \in Terminal \/ to = "running")

\* transition of the task ledger.  (The response recorded with a repeated
\* terminal state is the one response of the request.)
MayBecome(from, to) ==
    \/ from = to
    \/ from = "claimed" /\ to \in {"running", "rejected"}
    \/ from = "running" /\ to = "completed"

\* An update of a task record.
Becomes(r, to) ==
    /\ task[r] # "none" /\ MayBecome(task[r], to)
    /\ task' = [task EXCEPT ![r] = to]

\* It fails, and has replaced the record all the same when it was the directory
\* that could not be synced (atomic_replace).
Fails(r, to) ==
    \/ (r \in Faulty \/ task[r] = "none" \/ ~MayBecome(task[r], to)) /\ UNCHANGED task
    \/ r \in Faulty /\ Becomes(r, to)

\* A best-effort update: it may fail where something may.
Tried(r, from, to) == {to} \cup (IF r \in Faulty THEN {from} ELSE {})

\* transition of the exchange ledger, receiver's side.
Noted(r, from, to) ==
    IF \/ from = "claimed" /\ to \in {"running"} \cup Terminal
       \/ from = "running" /\ to \in Terminal
    THEN Tried(r, from, to) ELSE {from}
Note(r, to) == \E n \in Noted(r, note[r], to) : note' = [note EXCEPT ![r] = n]

\* Compaction, before a record is created in a full ledger: ended records
\* beyond the retention horizon go.  Bound: no work outlives the horizon (seven
\* days), so nobody is at work on what is that old.
Unattended == {q \in Requests : \A p \in Runtimes : step[<<p, q>>] = "idle"}
Kept(records, S) == [q \in Requests |-> IF q \in S THEN "none" ELSE records[q]]
Recorded(records) == {q \in Requests : records[q] # "none"}
Full(records) == Cardinality(Recorded(records)) >= MaxRecords
Compacted(records) ==
    IF Full(records)
    THEN {Kept(records, S) : S \in SUBSET {q \in Unattended : records[q] \in Terminal}}
    ELSE {records}

\* What a finished work leaves in the ledgers.
Goal(w) == IF want[w] = "run" THEN "completed" ELSE "rejected"

----------------------------------------------------------------------------
\* What a request of the past left behind, to be compacted one day.
At(there) == [r \in Requests |-> IF r \in Past THEN there ELSE "none"]

Init ==
    /\ place = At("settled")
    /\ \E a \in Answers : reply = [r \in Requests |-> IF r \in Past THEN a ELSE NoReply]
    /\ seen = Past
    /\ runtime = [p \in Runtimes |-> "new"]
    /\ owner = NoRuntime
    /\ stale = FALSE
    /\ task = At("completed")
    /\ litter = FALSE
    /\ note = At("completed")
    /\ sent = At("acknowledged")
    /\ step = [w \in Works |-> "idle"]
    /\ want = [w \in Works |-> "run"]
    /\ stage = [w \in Works |-> "claim"]
    /\ answer = [w \in Works |-> NoReply]
    /\ told = {}
    /\ ran = Past
    /\ abandoned = {}
    /\ retaken = {}

----------------------------------------------------------------------------
(* The sender: its own exchange record follows the bus, best effort. *)

\* enqueue, again for a request already accepted: then only the record is new.
Send(r) ==
    /\ owner # NoRuntime /\ ~stale /\ Unlocked
    /\ IF place[r] = "none" THEN Shift(r, "pending") ELSE UNCHANGED place
    /\ \E s \in IF sent[r] = "none" THEN Tried(r, "none", "sent") ELSE {sent[r]} :
          sent' = [sent EXCEPT ![r] = s]
    /\ UNCHANGED <<reply, seen, lease, task, litter, note, work, history>>

\* list_deliveries.
Notice(r) ==
    /\ Unlocked /\ reply[r] # NoReply /\ r \notin seen
    /\ sent[r] = "sent"
    /\ sent' = [sent EXCEPT ![r] = "available"]
    /\ UNCHANGED <<bus, lease, task, litter, note, work, history>>

\* The response was consumed: the record follows, one state after the other.
NoteConsumed(r) ==
    \E s \in IF sent[r] \in {"sent", "available"}
            THEN Tried(r, sent[r], "acknowledged") \cup Tried(r, "available", "acknowledged")
            ELSE {sent[r]} :
        sent' = [sent EXCEPT ![r] = s]

\* consume_response (and acknowledge_response): consumed first, then noted.
Consume(r) ==
    /\ Unlocked /\ reply[r] # NoReply /\ r \notin seen
    /\ seen' = seen \cup {r}
    /\ NoteConsumed(r)
    /\ UNCHANGED <<place, reply, lease, task, litter, note, work, history>>

----------------------------------------------------------------------------
(* The receiver's runtimes. *)

\* A2aRuntime::start, no registry entry: nothing is recovered.
Register(p) ==
    /\ runtime[p] = "new" /\ Unlocked /\ owner = NoRuntime
    /\ runtime' = [runtime EXCEPT ![p] = "up"]
    /\ owner' = p /\ stale' = FALSE
    /\ UNCHANGED <<bus, ledgers, work, history>>

\* A2aRuntime::start over a stale entry: recovery first, under the lock.
Takeover(p) ==
    /\ runtime[p] = "new" /\ Unlocked /\ owner # NoRuntime /\ stale
    /\ runtime' = [runtime EXCEPT ![p] = "recovering"]
    /\ UNCHANGED <<bus, owner, stale, ledgers, work, history>>

\* Mutant: a recovered claim goes where no inbox is.
RecoverAstray(p, r) ==
    /\ runtime[p] = "recovering" /\ place[r] = "processing"
    /\ Shift(r, "inbox")
    /\ UNCHANGED <<reply, seen, lease, ledgers, work, history>>

\* A claim left behind goes back to the inbox; one that was answered is
\* settled, unless the recovery overlooks the response (see LocalBus).
Recover(p, r) ==
    /\ runtime[p] = "recovering" /\ place[r] = "processing"
    /\ \/ Shift(r, "pending")
       \/ reply[r] # NoReply /\ Shift(r, "settled")
    /\ UNCHANGED <<reply, seen, lease, ledgers, work, history>>

Recovered(p) ==
    /\ runtime[p] = "recovering"
    /\ \A r \in Requests : place[r] # "processing"
    /\ runtime' = [runtime EXCEPT ![p] = "up"]
    /\ owner' = p /\ stale' = FALSE
    /\ UNCHANGED <<bus, ledgers, work, history>>

\* heartbeat_loop: ownership is enough to renew.
Heartbeat(p) ==
    /\ runtime[p] = "up" /\ Unlocked /\ owner = p /\ stale
    /\ stale' = FALSE
    /\ UNCHANGED <<bus, runtime, owner, ledgers, work, history>>

\* No heartbeat for the lease's time to live: a dead process, or a stalled one.
Expire ==
    /\ owner # NoRuntime /\ ~stale
    /\ stale' = TRUE
    /\ UNCHANGED <<bus, runtime, owner, ledgers, work, history>>

\* RuntimeInner::shutdown: a turn that was detached goes on, without its lease.
\* Bound: a successor is left to come.
Shutdown(p) ==
    /\ runtime[p] = "up" /\ Unlocked
    /\ \E q \in Runtimes : runtime[q] = "new"
    /\ runtime' = [runtime EXCEPT ![p] = "down"]
    /\ owner' = IF owner = p THEN NoRuntime ELSE owner
    /\ stale' = (owner # p /\ stale)
    /\ UNCHANGED <<bus, ledgers, work, history>>

Busy(p) == {w \in Works : w[1] = p /\ step[w] # "idle"}
\* Bound: a successor is left to come, or has taken over.
Die(p) ==
    /\ runtime[p] \in {"up", "recovering", "down"}
    /\ \E q \in Runtimes \ {p} : runtime[q] = "new" \/ (runtime[q] = "up" /\ owner = q)
    /\ runtime' = [runtime EXCEPT ![p] = "dead"]
    /\ litter' \in {litter, litter \/ \E w \in Busy(p) : step[w] \in {"create", "start", "mark"}}
    /\ abandoned' = abandoned \cup {w[2] : w \in Busy(p)}
    /\ step' = [w \in Works |-> IF w[1] = p THEN "idle" ELSE step[w]]
    /\ want' = [w \in Works |-> IF w[1] = p THEN "run" ELSE want[w]]
    /\ stage' = [w \in Works |-> IF w[1] = p THEN "claim" ELSE stage[w]]
    /\ answer' = [w \in Works |-> IF w[1] = p THEN NoReply ELSE answer[w]]
    /\ UNCHANGED <<bus, owner, stale, task, note, sent, told, ran, retaken>>

----------------------------------------------------------------------------
(* claim: the transport, the task record, the exchange record. *)

Claim(w, goal) ==
    LET r == w[2] IN
    /\ step[w] = "idle" /\ Live(w[1]) /\ Unlocked
    /\ Cardinality({v \in Works : step[v] # "idle"}) < MaxAtOnce
    /\ place[r] = "pending"
    /\ Shift(r, "processing")
    /\ Go(w, "create")
    /\ want' = [want EXCEPT ![w] = goal]
    /\ answer' = [answer EXCEPT ![w] = IF goal = "run" THEN NoReply ELSE Rejection]
    /\ retaken' = IF reply[r] = NoReply THEN retaken ELSE retaken \cup {r}
    /\ UNCHANGED <<reply, seen, lease, ledgers, stage, told, ran, abandoned>>

AcceptsKnown(r) == task[r] \in Active

\* create_claimed: the record of an earlier attempt is taken up unless it is
\* terminal; a new one needs a clean ledger with room, and may be there although
\* its creation failed.
Create(w) ==
    LET r == w[2] IN
    /\ step[w] = "create"
    /\ \/ AcceptsKnown(r) /\ Go(w, "noteClaim") /\ UNCHANGED task
       \/ task[r] # "none" /\ ~AcceptsKnown(r) /\ Go(w, "giveBack") /\ UNCHANGED task
       \/ /\ task[r] = "none" /\ ~litter
          /\ \E records \in Compacted(task) :
                IF Full(records)
                THEN task' = records /\ Go(w, "giveBack")
                ELSE \/ task' = [records EXCEPT ![r] = "claimed"] /\ Go(w, "noteClaim")
                     \/ /\ r \in Faulty
                        /\ \E s \in {"none", "claimed"} : task' = [records EXCEPT ![r] = s]
                        /\ Go(w, "giveBack")
       \/ /\ task[r] = "none" /\ (litter \/ r \in Faulty)
          /\ Go(w, "giveBack") /\ UNCHANGED task
    /\ UNCHANGED <<bus, lease, litter, note, sent, want, stage, answer, history>>

\* The ledger refused the claim: it goes back, if the lease still allows.
GiveBack(w) ==
    LET r == w[2] IN
    /\ step[w] = "giveBack" /\ Unlocked
    /\ IF Live(w[1]) /\ place[r] = "processing"
       THEN Shift(r, "pending") /\ UNCHANGED abandoned
       ELSE abandoned' = abandoned \cup {r} /\ UNCHANGED place
    /\ End(w, "error")
    /\ UNCHANGED <<reply, seen, lease, ledgers, ran, retaken>>

NoteClaim(w) ==
    LET r == w[2] IN
    /\ step[w] = "noteClaim"
    /\ \/ (note[r] # "none" \/ r \in Faulty) /\ UNCHANGED note
       \/ /\ note[r] = "none"
          /\ \E records \in Compacted(note) :
                note' = IF Full(records) THEN records ELSE [records EXCEPT ![r] = "claimed"]
    /\ Go(w, IF want[w] = "run" THEN "start" ELSE "check")
    /\ UNCHANGED <<bus, lease, task, litter, sent, want, stage, answer, history>>

----------------------------------------------------------------------------
(* run_claimed_peer_turn *)

\* mark_running.
Start(w) ==
    LET r == w[2] IN
    /\ step[w] = "start"
    /\ Becomes(r, "running")
    /\ stage' = [stage EXCEPT ![w] = "turn"]
    /\ Go(w, "noteRun")
    /\ UNCHANGED <<bus, lease, litter, note, sent, want, answer, history>>

\* No thread, no cancellation slot, or no transition in the ledger.
StartFails(w) ==
    LET r == w[2] IN
    /\ step[w] = "start"
    /\ Fails(r, "running")
    /\ Go(w, "release")
    /\ UNCHANGED <<bus, lease, litter, note, sent, want, stage, answer, history>>

\* The model is called.
NoteRun(w) ==
    LET r == w[2] IN
    /\ step[w] = "noteRun"
    /\ Note(r, "running")
    /\ ran' = ran \cup {r}
    /\ Go(w, "turn")
    /\ UNCHANGED <<bus, lease, task, litter, sent, want, stage, answer, told, abandoned, retaken>>

\* execute_isolated_peer_turn.
Turn(w) ==
    /\ step[w] = "turn"
    /\ \/ \E a \in Answers : answer' = [answer EXCEPT ![w] = a] /\ Go(w, "check")
       \/ Go(w, "release") /\ UNCHANGED answer
    /\ UNCHANGED <<bus, lease, ledgers, want, stage, history>>

----------------------------------------------------------------------------
(* complete, reject and, when they fail, reconcile_completed and            *)
(* reconcile_rejected.                                                      *)

\* The states of the record in which the response may be filed.
Checks(w) ==
    task[w[2]] \in IF want[w] = "run" THEN {"running", "completed"} ELSE {"claimed"}

Check(w) ==
    /\ step[w] = "check"
    /\ IF want[w] = "reject" /\ task[w[2]] = "rejected"
       THEN End(w, "rejected")
       ELSE /\ Go(w, IF Checks(w) THEN "file" ELSE "reconcile")
            /\ UNCHANGED <<want, stage, answer, told>>
    /\ UNCHANGED <<bus, lease, ledgers, ran, abandoned, retaken>>

\* Mutant: a stalled runtime may still file.
FilesUnfenced(w) ==
    LET r == w[2] IN
    /\ place[r] \in IF want[w] = "run" THEN {"processing", "settled"} ELSE {"processing"}
    /\ reply[r] \in {NoReply, answer[w]}

\* Mutant: a response already filed is replaced.
FilesOver(w) ==
    LET r == w[2] IN
    /\ Live(w[1])
    /\ place[r] \in IF want[w] = "run" THEN {"processing", "settled"} ELSE {"processing"}

\* complete_claimed_request: the request is claimed (or, completed again,
\* acknowledged) and no other response is filed.
Files(w) ==
    LET r == w[2] IN
    /\ Live(w[1])
    /\ place[r] \in IF want[w] = "run" THEN {"processing", "settled"} ELSE {"processing"}
    /\ reply[r] \in {NoReply, answer[w]}

File(w) ==
    LET r == w[2] IN
    /\ step[w] = "file" /\ Unlocked /\ Files(w)
    /\ reply' = [reply EXCEPT ![r] = answer[w]]
    /\ Go(w, "settle")
    /\ UNCHANGED <<place, seen, lease, ledgers, want, stage, answer, history>>

FileFails(w) ==
    /\ step[w] = "file" /\ Unlocked /\ (w[2] \in Faulty \/ ~Files(w))
    /\ Go(w, "reconcile")
    /\ UNCHANGED <<bus, lease, ledgers, want, stage, answer, history>>

Settle(w) ==
    /\ step[w] = "settle"
    /\ Shift(w[2], "settled")
    /\ Go(w, "prove")
    /\ UNCHANGED <<reply, seen, lease, ledgers, want, stage, answer, history>>

\* The acknowledgement limit, or the disk.
SettleFails(w) ==
    /\ step[w] = "settle" /\ w[2] \in Faulty
    /\ Go(w, "reconcile")
    /\ UNCHANGED <<bus, lease, ledgers, want, stage, answer, history>>

\* Mutant: whoever asks, a settled response is proof enough.
ProvesLoosely(w) == place[w[2]] = "settled" /\ reply[w[2]] # NoReply

\* completed_response_receipt.
Proves(w) == Live(w[1]) /\ place[w[2]] = "settled" /\ reply[w[2]] # NoReply

GoesWrong(w) == Go(w, IF stage[w] = "redo" THEN "release" ELSE "reconcile")

Prove(w) ==
    /\ step[w] = "prove" /\ Unlocked
    /\ IF Proves(w) THEN Go(w, "mark") ELSE GoesWrong(w)
    /\ UNCHANGED <<bus, lease, ledgers, want, stage, answer, history>>

\* mark_completed or mark_rejected.
Mark(w) ==
    LET r == w[2] IN
    /\ step[w] = "mark"
    /\ Becomes(r, Goal(w))
    /\ Go(w, "noteEnd")
    /\ UNCHANGED <<bus, lease, litter, note, sent, want, stage, answer, history>>

MarkFails(w) ==
    LET r == w[2] IN
    /\ step[w] = "mark"
    /\ Fails(r, Goal(w))
    /\ GoesWrong(w)
    /\ UNCHANGED <<bus, lease, litter, note, sent, want, stage, answer, history>>

NoteEnd(w) ==
    /\ step[w] = "noteEnd"
    /\ Note(w[2], Goal(w))
    /\ End(w, Goal(w))
    /\ UNCHANGED <<bus, lease, task, litter, sent, ran, abandoned, retaken>>

\* Mutant: what reconciliation finds is taken for done.
ReconcileAsDone(w) ==
    /\ step[w] = "reconcile"
    /\ End(w, Goal(w))
    /\ UNCHANGED <<bus, lease, ledgers, ran, abandoned, retaken>>

Reconcile(w) ==
    LET r == w[2] IN
    /\ step[w] = "reconcile"
    /\ IF task[r] = Goal(w)
       THEN End(w, Goal(w))
       ELSE /\ stage' = [stage EXCEPT ![w] = "redo"]
            /\ Go(w, IF task[r] = (IF want[w] = "run" THEN "running" ELSE "claimed")
                     THEN "prove" ELSE "release")
            /\ UNCHANGED <<want, answer, told>>
    /\ UNCHANGED <<bus, lease, ledgers, ran, abandoned, retaken>>

----------------------------------------------------------------------------
(* release_retryable, and what the caller reports. *)

Releases(w) == task[w[2]] \in Active /\ Live(w[1]) /\ place[w[2]] = "processing"

\* (touch_retryable leaves the state of the exchange record.)
Release(w) ==
    /\ step[w] = "release" /\ Unlocked /\ Releases(w)
    /\ Shift(w[2], "pending")
    /\ End(w, IF want[w] = "reject" THEN "error" ELSE "retry")
    /\ UNCHANGED <<reply, seen, lease, ledgers, ran, abandoned, retaken>>

\* Before the turn the outcome of the release is not looked at.
ReleaseFails(w) ==
    /\ step[w] = "release" /\ Unlocked /\ (w[2] \in Faulty \/ ~Releases(w))
    /\ End(w, IF want[w] = "reject" THEN "error"
              ELSE IF stage[w] = "claim" THEN "retry" ELSE "recovery")
    /\ abandoned' = abandoned \cup {w[2]}
    /\ UNCHANGED <<bus, lease, ledgers, ran, retaken>>

----------------------------------------------------------------------------
WorkStep(w) ==
    \/ Create(w) \/ GiveBack(w) \/ NoteClaim(w)
    \/ Start(w) \/ StartFails(w) \/ NoteRun(w) \/ Turn(w)
    \/ Check(w) \/ File(w) \/ FileFails(w) \/ Settle(w) \/ SettleFails(w)
    \/ Prove(w) \/ Mark(w) \/ MarkFails(w) \/ NoteEnd(w) \/ Reconcile(w)
    \/ Release(w) \/ ReleaseFails(w)

RuntimeStep(p) ==
    \/ Register(p) \/ Takeover(p) \/ Recovered(p) \/ Heartbeat(p)
    \/ Shutdown(p) \/ Die(p)
    \/ \E r \in Requests : Recover(p, r)

Next ==
    \/ \E r \in Requests : Send(r)
    \/ \E r \in Watched : Notice(r) \/ Consume(r)
    \/ \E p \in Runtimes : RuntimeStep(p)
    \/ Expire
    \/ \E w \in Works : WorkStep(w) \/ \E goal \in {"run", "reject"} : Claim(w, goal)

Spec == Init /\ [][Next]_vars

----------------------------------------------------------------------------
(* The values of the state. *)
TypeOK ==
    /\ place \in [Requests -> Places]
    /\ reply \in [Requests -> Replies \cup {NoReply}]
    /\ seen \subseteq Requests
    /\ runtime \in [Runtimes -> RuntimeStates]
    /\ owner \in Runtimes \cup {NoRuntime}
    /\ stale \in BOOLEAN
    /\ task \in [Requests -> TaskStates]
    /\ litter \in BOOLEAN
    /\ note \in [Requests -> TaskStates]
    /\ sent \in [Requests -> SentStates]
    /\ step \in [Works -> Steps]
    /\ want \in [Works -> {"run", "reject"}]
    /\ stage \in [Works -> {"claim", "turn", "redo"}]
    /\ answer \in [Works -> Replies \cup {NoReply}]
    /\ told \subseteq Requests \X Terminal
    /\ ran \subseteq Requests
    /\ abandoned \subseteq Requests
    /\ retaken \subseteq Requests

\* The task ledger is never ahead of the bus: a record that says rejected
\* belongs to a settled request whose one response is the rejection, and one
\* that says completed to a settled request whose response is an answer,
\* however many runtimes worked on it and wherever they died (mark_completed
\* and mark_rejected are called with a transport receipt only).  The exception
\* is a request claimed again after a response was filed: reconcile_completed
\* takes any durable response for that of the turn, so that it may say
\* completed of a request the sender sees rejected.
LedgerWitnessed ==
    \A r \in Requests :
        /\ task[r] = "completed" =>
              place[r] = "settled" /\ (reply[r] \in Answers \/ r \in retaken)
        /\ task[r] = "rejected" => place[r] = "settled" /\ reply[r] = Rejection

\* The exchange records, written afterwards and best effort, lag behind what
\* they tell of but never contradict it: the receiver's its task ledger, the
\* sender's the bus.
NotesBehind ==
    \A r \in Requests :
        /\ note[r] = "running" => task[r] \in {"none", "running", "completed"}
        /\ note[r] \in Terminal => task[r] \in {"none", note[r]}
        /\ sent[r] \in {"available", "acknowledged"} => reply[r] # NoReply
        /\ sent[r] = "acknowledged" => r \in seen

\* What the user is told of a work holds: "response queued" means that an
\* answer is filed and the request settled (or, if it was claimed again with a
\* response filed, that response); "rejected, no model was invoked"
\* that the rejection is, and that no runtime, stalled or dead, ever handed
\* the request to a model.
ToldTruly ==
    \A r \in Requests :
        /\ <<r, "completed">> \in told =>
              place[r] = "settled" /\ (reply[r] \in Answers \/ r \in retaken)
        /\ <<r, "rejected">> \in told =>
              place[r] = "settled" /\ reply[r] = Rejection /\ r \notin ran

\* The window between the answer on the bus and the task record is closed by
\* the reconciliation inside the work, and only a work that died or could not
\* give its claim back leaves it open: otherwise a settled request nobody
\* works on has an ended record (or one compacted since).
AnswerKnown ==
    \A r \in Requests \ abandoned :
        place[r] = "settled" /\ (\A p \in Runtimes : step[<<p, r>>] = "idle")
            => task[r] \in Terminal \cup {"none"}

\* The bus used here is the delivery contract, for the requests of this
\* session: the one the file-by-file transport implements.
Fresh == Requests \ Past
PlaceInContract ==
    [r \in Fresh |-> CASE place[r] = "pending" -> "queued"
                       [] place[r] = "processing" -> "claimed"
                       [] OTHER -> place[r]]
Contract ==
    INSTANCE DeliveryContract
        WITH Requests <- Fresh, place <- PlaceInContract,
             reply <- [r \in Fresh |-> reply[r]], seen <- seen \ Past, waived <- {}
ImplementsContract == Contract!Spec
=============================================================================
