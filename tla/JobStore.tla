------------------------------- MODULE JobStore -------------------------------
(***************************************************************************)
(* The background-job ledger, crates/crumb-agent/src/jobs.rs: one          *)
(* directory per job with its manifest, replaced through job.tmp and       *)
(* job.bak under a lock file that exists while a process updates the job.  *)
(*                                                                         *)
(* A step is one change of the file system.  A process may die between any *)
(* two steps, and any change may fail; nothing removes what is left        *)
(* behind, the lock file included.  Readers take no lock and see the       *)
(* manifest or nothing.                                                    *)
(*                                                                         *)
(* Abstractions.  The request, its digest and the configuration snapshot   *)
(* never change and are left out.  The clock is the number of a job's run  *)
(* that has come due.  A new job's directory is filled before anybody can  *)
(* know its identifier: creation is one step.                              *)
(***************************************************************************)
EXTENDS Naturals

CONSTANTS
    Jobs, Procs,
    LastRun,        \* bound: no run after this one comes due
    DiskMayFail,    \* bound: whether changing the file system may fail
    NoJob,          \* no such file
    Nobody, NoSession

ASSUME BoundAssumption == LastRun \in Nat /\ DiskMayFail \in BOOLEAN

ASSUME MarkersAssumption == Nobody \notin Procs /\ NoSession \notin Procs

VARIABLES
    manifest,   \* job -> definition in job.json
    backup,     \* job -> definition in job.bak
    temp,       \* job -> definition in job.tmp
    lock,       \* job -> the process that created its lock file
    now,        \* job -> the last run that has come due
    call,       \* process -> the update it is executing
    outcome,    \* process -> how its last update ended: "none", "ok", "refused"
    crashed     \* processes that died

files == <<manifest, backup, temp, lock>>
store == <<files, now, call, outcome, crashed>>

States == {"queued", "running", "cancelling", "completed", "failed", "cancelled"}
Asks == {"claim", "attach", "cancel", "succeed", "fail"}
Steps == {"idle", "locked", "written", "swapped", "installed", "cleaned"}

\* JobSchedule: Immediate, Once and Recurring.  The run a job waits for counts
\* from 1; an immediate job waits for run 0.
Schedules == {[run |-> 0, repeat |-> FALSE], [run |-> 1, repeat |-> FALSE],
              [run |-> 1, repeat |-> TRUE]}

\* Mutant: a new job starts in a state nobody handles.
FreshUnqueued(s) == [state |-> "created", run |-> s.run, repeat |-> s.repeat, session |-> NoSession]

Fresh(s) == [state |-> "queued", run |-> s.run, repeat |-> s.repeat, session |-> NoSession]
Idle == [step |-> "idle", job |-> NoJob, ask |-> "none"]

\* The contents of a manifest.  A process attaches the session of its own agent: the
\* session is named after the process.
Definition == [state : States, run : Nat, repeat : BOOLEAN, session : Procs \cup {NoSession}]

ASSUME NoJobAssumption == NoJob \notin Definition /\ NoJob \notin Jobs

\* Every file of the ledger has its type, and every process's call.
StoreTypeOK ==
    /\ manifest \in [Jobs -> Definition \cup {NoJob}]
    /\ backup \in [Jobs -> Definition \cup {NoJob}]
    /\ temp \in [Jobs -> Definition \cup {NoJob}]
    /\ lock \in [Jobs -> Procs \cup {Nobody}]
    /\ now \in [Jobs -> 0 .. LastRun]
    /\ call \in [Procs -> [step : Steps, job : Jobs \cup {NoJob}, ask : Asks \cup {"none"}]]
    /\ outcome \in [Procs -> {"none", "ok", "refused"}]
    /\ crashed \in SUBSET Procs

Exists(j) == manifest[j] # NoJob \/ backup[j] # NoJob

\* What a reader of the ledger finds, the swap of the manifest put aside.
Ledger == [j \in Jobs |-> IF manifest[j] # NoJob THEN manifest[j] ELSE backup[j]]

----------------------------------------------------------------------------
(* The updates: claim_due and mark_running, attach_session, request_cancel *)
(* and finish.                                                             *)

\* The states an update starts from.
Permits(d, ask) ==
    /\ ask = "claim" => d.state = "queued"
    /\ ask = "attach" => d.state = "running"
    /\ ask = "cancel" => d.state \in {"queued", "running"}
    /\ ask \in {"succeed", "fail"} => d.state \in {"running", "cancelling"}

\* Mutant: a running job can be claimed again.
AllowsSecondClaim(j, d, ask) ==
    IF ask = "claim" THEN d.state \in {"queued", "running"} /\ d.run <= now[j]
    ELSE Permits(d, ask)

\* A claim also waits for its run to come due.
Allows(j, d, ask) == Permits(d, ask) /\ (ask = "claim" => d.run <= now[j])

\* Mutant: a requested cancellation is not looked at.
FinishedRegardless(d, ask) ==
    IF ask = "fail" THEN [d EXCEPT !.state = "failed"]
    ELSE IF d.repeat
    THEN [d EXCEPT !.state = "queued", !.run = @ + 1, !.session = NoSession]
    ELSE [d EXCEPT !.state = "completed"]

\* Mutant: a recurring job keeps the session of its last run.
FinishedWithSession(d, ask) ==
    IF d.state = "cancelling" THEN [d EXCEPT !.state = "cancelled"]
    ELSE IF ask = "fail" THEN [d EXCEPT !.state = "failed"]
    ELSE IF d.repeat THEN [d EXCEPT !.state = "queued", !.run = @ + 1]
    ELSE [d EXCEPT !.state = "completed"]

Finished(d, ask) ==
    IF d.state = "cancelling" THEN [d EXCEPT !.state = "cancelled"]
    ELSE IF ask = "fail" THEN [d EXCEPT !.state = "failed"]
    ELSE IF d.repeat
    THEN [d EXCEPT !.state = "queued", !.run = @ + 1, !.session = NoSession]
    ELSE [d EXCEPT !.state = "completed"]

Updated(p, d, ask) ==
    CASE ask = "claim" -> [d EXCEPT !.state = "running"]
      [] ask = "attach" -> [d EXCEPT !.session = p]
      [] ask = "cancel" ->
            [d EXCEPT !.state = IF d.state = "queued" THEN "cancelled" ELSE "cancelling"]
      [] ask \in {"succeed", "fail"} -> Finished(d, ask)

----------------------------------------------------------------------------
StoreInit ==
    /\ manifest = [j \in Jobs |-> NoJob]
    /\ backup = [j \in Jobs |-> NoJob]
    /\ temp = [j \in Jobs |-> NoJob]
    /\ lock = [j \in Jobs |-> Nobody]
    /\ now = [j \in Jobs |-> 0]
    /\ call = [p \in Procs |-> Idle]
    /\ outcome = [p \in Procs |-> "none"]
    /\ crashed = {}

At(p, step) == call[p].step = step
Move(p, step) == call' = [call EXCEPT ![p] = [@ EXCEPT !.step = step]]
Return(p, how) ==
    /\ call' = [call EXCEPT ![p] = Idle]
    /\ outcome' = [outcome EXCEPT ![p] = how]
Free(p) == call[p] = Idle /\ p \notin crashed

\* Dropping the JobLock removes the lock file; a failure of that is ignored.
Release(j) ==
    \/ lock' = [lock EXCEPT ![j] = Nobody]
    \/ DiskMayFail /\ lock' = lock

\* create: the job appears with the rename of its first manifest.
Create(p, j, s) ==
    /\ Free(p) /\ ~Exists(j) /\ lock[j] = Nobody
    /\ manifest' = [manifest EXCEPT ![j] = Fresh(s)]
    /\ UNCHANGED <<backup, temp, lock, now, call, outcome, crashed>>

\* Mutant: an existing lock file is taken over.
AcquireHeld(p, j, ask) ==
    /\ Free(p) /\ Exists(j)
    /\ lock' = [lock EXCEPT ![j] = p]
    /\ call' = [call EXCEPT ![p] = [step |-> "locked", job |-> j, ask |-> ask]]
    /\ UNCHANGED <<manifest, backup, temp, now, outcome, crashed>>

\* JobLock::acquire: create_new on the lock file ...
Acquire(p, j, ask) ==
    /\ Free(p) /\ Exists(j) /\ lock[j] = Nobody
    /\ lock' = [lock EXCEPT ![j] = p]
    /\ call' = [call EXCEPT ![p] = [step |-> "locked", job |-> j, ask |-> ask]]
    /\ UNCHANGED <<manifest, backup, temp, now, outcome, crashed>>

\* ... or "job is busy": no update waits for the lock.
Busy(p, j) ==
    /\ Free(p) /\ Exists(j) /\ lock[j] # Nobody
    /\ outcome' = [outcome EXCEPT ![p] = "refused"]
    /\ UNCHANGED <<files, now, call, crashed>>

\* Under the lock the manifest is loaded and judged.
Accepted(p) ==
    LET j == call[p].job IN
    /\ manifest[j] # NoJob
    /\ Allows(j, manifest[j], call[p].ask)
    /\ temp[j] = NoJob

Refuse(p) ==
    LET j == call[p].job IN
    /\ At(p, "locked") /\ ~Accepted(p)
    /\ Release(j)
    /\ Return(p, "refused")
    /\ UNCHANGED <<manifest, backup, temp, now, crashed>>

\* write_definition: job.tmp is written and synced ...
Write(p) ==
    LET j == call[p].job IN
    /\ At(p, "locked") /\ Accepted(p)
    /\ temp' = [temp EXCEPT ![j] = Updated(p, manifest[j], call[p].ask)]
    /\ Move(p, "written")
    /\ UNCHANGED <<manifest, backup, lock, now, outcome, crashed>>

\* ... or that fails and may leave job.tmp behind ...
WriteFails(p) ==
    LET j == call[p].job IN
    /\ DiskMayFail
    /\ At(p, "locked") /\ Accepted(p)
    /\ temp' \in {temp, [temp EXCEPT ![j] = Updated(p, manifest[j], call[p].ask)]}
    /\ Release(j)
    /\ Return(p, "refused")
    /\ UNCHANGED <<manifest, backup, now, crashed>>

\* ... the manifest becomes job.bak ...
SwapOut(p) ==
    LET j == call[p].job IN
    /\ At(p, "written")
    /\ backup' = [backup EXCEPT ![j] = manifest[j]]
    /\ manifest' = [manifest EXCEPT ![j] = NoJob]
    /\ Move(p, "swapped")
    /\ UNCHANGED <<temp, lock, now, outcome, crashed>>

\* ... or stays the manifest, and job.tmp stays too ...
SwapOutFails(p) ==
    /\ DiskMayFail
    /\ At(p, "written")
    /\ Release(call[p].job)
    /\ Return(p, "refused")
    /\ UNCHANGED <<manifest, backup, temp, now, crashed>>

\* ... job.tmp becomes the manifest ...
SwapIn(p) ==
    LET j == call[p].job IN
    /\ At(p, "swapped")
    /\ manifest' = [manifest EXCEPT ![j] = temp[j]]
    /\ temp' = [temp EXCEPT ![j] = NoJob]
    /\ Move(p, "installed")
    /\ UNCHANGED <<backup, lock, now, outcome, crashed>>

\* ... or cannot, and job.bak is the manifest again, if that rename succeeds:
\* its failure is ignored ...
SwapInFails(p) ==
    LET j == call[p].job IN
    /\ DiskMayFail
    /\ At(p, "swapped")
    /\ \/ /\ manifest' = [manifest EXCEPT ![j] = backup[j]]
          /\ backup' = [backup EXCEPT ![j] = NoJob]
       \/ UNCHANGED <<manifest, backup>>
    /\ Release(j)
    /\ Return(p, "refused")
    /\ UNCHANGED <<temp, now, crashed>>

\* ... job.bak is removed ...
Discard(p) ==
    LET j == call[p].job IN
    /\ At(p, "installed")
    /\ backup' = [backup EXCEPT ![j] = NoJob]
    /\ Move(p, "cleaned")
    /\ UNCHANGED <<manifest, temp, lock, now, outcome, crashed>>

\* ... or stays, and the caller is told that its update failed although the
\* new manifest is installed ...
DiscardFails(p) ==
    /\ DiskMayFail
    /\ At(p, "installed")
    /\ Release(call[p].job)
    /\ Return(p, "refused")
    /\ UNCHANGED <<manifest, backup, temp, now, crashed>>

\* ... and the update is done.
Unlock(p) ==
    /\ At(p, "cleaned")
    /\ Release(call[p].job)
    /\ Return(p, "ok")
    /\ UNCHANGED <<manifest, backup, temp, now, crashed>>

\* The process dies; its files, lock file included, stay.
Crash(p) ==
    /\ p \notin crashed
    /\ crashed' = crashed \cup {p}
    /\ call' = [call EXCEPT ![p] = Idle]
    /\ UNCHANGED <<files, now, outcome>>

\* The clock reaches the job's next run.
Due(j) ==
    /\ now[j] < LastRun
    /\ now' = [now EXCEPT ![j] = @ + 1]
    /\ UNCHANGED <<files, call, outcome, crashed>>

\* The caller has read how its update ended.
Consume(p) ==
    /\ outcome[p] # "none"
    /\ outcome' = [outcome EXCEPT ![p] = "none"]

Proceed(p) ==
    \/ Refuse(p) \/ Write(p) \/ SwapOut(p) \/ SwapIn(p) \/ Discard(p) \/ Unlock(p)
    \/ WriteFails(p) \/ SwapOutFails(p) \/ SwapInFails(p) \/ DiscardFails(p)

StoreNext ==
    \/ \E p \in Procs :
          \/ Proceed(p) \/ Crash(p)
          \/ Consume(p) /\ UNCHANGED <<files, now, call, crashed>>
          \/ \E j \in Jobs :
                \/ Busy(p, j)
                \/ \E s \in Schedules : Create(p, j, s)
                \/ \E a \in Asks : Acquire(p, j, a)
    \/ \E j \in Jobs : Due(j)

StoreSpec == StoreInit /\ [][StoreNext]_store

----------------------------------------------------------------------------
Lifecycle == INSTANCE JobLifecycle WITH job <- Ledger, Sessions <- Procs

\* The file-by-file ledger, crashes and failures of the disk included, changes a
\* job only the way the job lifecycle allows, and only at the rename that installs
\* a manifest.
ImplementsLifecycle == Lifecycle!Spec
=============================================================================
