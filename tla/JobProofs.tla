------------------------------- MODULE JobProofs -------------------------------
(***************************************************************************)
(* What holds of the job ledger and of its callers for any number of jobs, *)
(* processes and runs, crashes and failing writes included.                *)
(*                                                                         *)
(* The inductive invariant of the ledger says who holds the lock and what  *)
(* the three files contain at every step of an update: it is what makes    *)
(* the rename that installs a manifest the one point where a job changes,  *)
(* so that the file-by-file ledger implements the job lifecycle.  On it    *)
(* rest who updates a job (SwapInv), who runs it (RunInv) and that a run   *)
(* under way has come due (DueInv).                                        *)
(***************************************************************************)
EXTENDS BackgroundJobs, TLAPS

\* What an update in progress knows of the files of its job.
UpdateOK(p) ==
    LET j == call[p].job
        ask == call[p].ask
    IN  call[p].step # "idle" =>
            /\ j \in Jobs /\ lock[j] = p /\ ask \in Asks
            /\ call[p].step = "written" =>
                  /\ manifest[j] \in Definition
                  /\ Permits(manifest[j], ask)
                  /\ temp[j] = Updated(p, manifest[j], ask)
            /\ call[p].step = "swapped" =>
                  /\ manifest[j] = NoJob
                  /\ backup[j] \in Definition
                  /\ Permits(backup[j], ask)
                  /\ temp[j] = Updated(p, backup[j], ask)
            /\ call[p].step = "installed" => manifest[j] \in Definition

StoreInv == StoreTypeOK /\ \A p \in Procs : UpdateOK(p)

----------------------------------------------------------------------------
(* The updates of a definition *)

\* An update of a definition is a definition.
LEMMA UpdatedType ==
    ASSUME NEW p \in Procs, NEW d \in Definition, NEW ask \in Asks,
           Permits(d, ask)
    PROVE  Updated(p, d, ask) \in Definition
<1>1. CASE ask = "claim"
  BY <1>1 DEF Updated, Definition, States
<1>2. CASE ask = "attach"
  BY <1>2 DEF Updated, Definition, States
<1>3. CASE ask = "cancel"
  BY <1>3 DEF Updated, Definition, States
<1>4. CASE ask \in {"succeed", "fail"}
  <2>1. Updated(p, d, ask) = Finished(d, ask)
    BY <1>4 DEF Updated
  <2>2. Finished(d, ask) \in Definition
    <3>1. CASE d.state = "cancelling"
      BY <3>1 DEF Finished, Definition, States
    <3>2. CASE d.state # "cancelling" /\ ask = "fail"
      BY <3>2 DEF Finished, Definition, States
    <3>3. CASE d.state # "cancelling" /\ ask # "fail" /\ d.repeat
      <4>1. Finished(d, ask) = [d EXCEPT !.state = "queued", !.run = d.run + 1,
                                         !.session = NoSession]
        BY <3>3 DEF Finished
      <4>2. d.run + 1 \in Nat
        BY DEF Definition
      <4>. QED  BY <4>1, <4>2 DEF Definition, States
    <3>4. CASE d.state # "cancelling" /\ ask # "fail" /\ ~d.repeat
      BY <3>4 DEF Finished, Definition, States
    <3>. QED  BY <3>1, <3>2, <3>3, <3>4
  <2>. QED  BY <2>1, <2>2
<1>. QED  BY <1>1, <1>2, <1>3, <1>4 DEF Asks

\* An allowed update starts from a permitted state.
LEMMA AllowedPermitted ==
    ASSUME NEW j, NEW d, NEW ask \in Asks, Allows(j, d, ask)
    PROVE  Permits(d, ask)
BY DEF Allows

----------------------------------------------------------------------------
(* The ledger's inductive invariant *)

\* At the start the ledger is empty and nobody updates it.
LEMMA LedgerStarts == StoreInit => StoreInv
<1>. SUFFICES ASSUME StoreInit PROVE StoreInv
  OBVIOUS
<1>1. StoreTypeOK
  BY BoundAssumption DEF StoreInit, StoreTypeOK, Idle, Steps
<1>2. \A p \in Procs : UpdateOK(p)
  BY DEF StoreInit, UpdateOK, Idle
<1>. QED  BY <1>1, <1>2 DEF StoreInv

\* The record of an update that moved on.
LEMMA Moved ==
    ASSUME StoreTypeOK, NEW p \in Procs, NEW step \in Steps, Move(p, step)
    PROVE  /\ call' \in [Procs -> [step : Steps, job : Jobs \cup {NoJob},
                                    ask : Asks \cup {"none"}]]
           /\ call'[p].step = step /\ call'[p].job = call[p].job
           /\ call'[p].ask = call[p].ask
           /\ \A q \in Procs \ {p} : call'[q] = call[q]
BY DEF StoreTypeOK, Move

\* The record of an update that ended.
LEMMA Returned ==
    ASSUME StoreTypeOK, NEW p \in Procs, NEW how \in {"ok", "refused"}, Return(p, how)
    PROVE  /\ call' \in [Procs -> [step : Steps, job : Jobs \cup {NoJob},
                                    ask : Asks \cup {"none"}]]
           /\ outcome' \in [Procs -> {"none", "ok", "refused"}]
           /\ call'[p].step = "idle"
           /\ \A q \in Procs \ {p} : call'[q] = call[q]
BY DEF StoreTypeOK, Return, Idle, Steps

\* Releasing a lock, its file removed or not, touches no other.
LEMMA Released ==
    ASSUME StoreTypeOK, NEW j \in Jobs, Release(j)
    PROVE  /\ lock' \in [Jobs -> Procs \cup {Nobody}]
           /\ \A k \in Jobs \ {j} : lock'[k] = lock[k]
BY DEF StoreTypeOK, Release

\* An update of p leaves alone what another process knows of its own job.
LEMMA Undisturbed ==
    ASSUME NEW p \in Procs, NEW q \in Procs \ {p}, NEW j \in Jobs,
           UpdateOK(q), call'[q] = call[q],
           lock[j] \in {p, Nobody} \/ UNCHANGED <<manifest, backup, temp, lock>>,
           \A k \in Jobs \ {j} : /\ manifest'[k] = manifest[k] /\ backup'[k] = backup[k]
                                 /\ temp'[k] = temp[k] /\ lock'[k] = lock[k]
    PROVE  UpdateOK(q)'
<1>. DEFINE k == call[q].job
<1>1. CASE call[q].step = "idle"
  BY <1>1 DEF UpdateOK
<1>2. CASE call[q].step # "idle"
  <2>1. k \in Jobs /\ lock[k] = q
    BY <1>2 DEF UpdateOK
  <2>2. /\ manifest'[k] = manifest[k] /\ backup'[k] = backup[k]
        /\ temp'[k] = temp[k] /\ lock'[k] = lock[k]
    BY <2>1, MarkersAssumption
  <2>. QED  BY <1>2, <2>1, <2>2 DEF UpdateOK
<1>. QED  BY <1>1, <1>2

\* What a step of process p has to show: the type invariant, its own update,
\* and that it touches only a job whose lock it holds or nobody does.
LEMMA OneUpdate ==
    ASSUME StoreInv, NEW p \in Procs, NEW j \in Jobs, StoreTypeOK', UpdateOK(p)',
           \A q \in Procs \ {p} : call'[q] = call[q],
           lock[j] \in {p, Nobody} \/ UNCHANGED <<manifest, backup, temp, lock>>,
           \A k \in Jobs \ {j} : /\ manifest'[k] = manifest[k] /\ backup'[k] = backup[k]
                                 /\ temp'[k] = temp[k] /\ lock'[k] = lock[k]
    PROVE  StoreInv'
<1>1. ASSUME NEW q \in Procs PROVE UpdateOK(q)'
  <2>1. CASE q = p
    BY <2>1
  <2>2. CASE q # p
    <3>1. UpdateOK(q) /\ call'[q] = call[q]
      BY <2>2 DEF StoreInv
    <3>. QED  BY <2>2, <3>1, Undisturbed
  <2>. QED  BY <2>1, <2>2
<1>. QED  BY <1>1 DEF StoreInv

\* A new job has a definition.
LEMMA FreshType == ASSUME NEW s \in Schedules PROVE Fresh(s) \in Definition
<1>1. s.run \in Nat /\ s.repeat \in BOOLEAN
  <2>1. CASE s = [run |-> 0, repeat |-> FALSE]
    BY <2>1
  <2>2. CASE s = [run |-> 1, repeat |-> FALSE]
    BY <2>2
  <2>3. CASE s = [run |-> 1, repeat |-> TRUE]
    BY <2>3
  <2>. QED  BY <2>1, <2>2, <2>3 DEF Schedules
<1>. QED  BY <1>1 DEF Fresh, Definition, States

\* A new job appears where no file was.
LEMMA CreateInv ==
    ASSUME StoreInv, NEW p \in Procs, NEW j \in Jobs, NEW s \in Schedules, Create(p, j, s)
    PROVE  StoreInv'
<1>1. Fresh(s) \in Definition
  BY FreshType
<1>2. StoreTypeOK'
  BY <1>1 DEF StoreInv, StoreTypeOK, Create
<1>3. UpdateOK(p)'
  BY DEF Create, Free, Idle, UpdateOK
<1>4. \A k \in Jobs \ {j} : manifest'[k] = manifest[k]
  BY DEF StoreInv, StoreTypeOK, Create
<1>. QED  BY <1>2, <1>3, <1>4, OneUpdate DEF Create

\* A free lock file is created by one process.
LEMMA AcquireInv ==
    ASSUME StoreInv, NEW p \in Procs, NEW j \in Jobs, NEW ask \in Asks, Acquire(p, j, ask)
    PROVE  StoreInv'
<1>1. StoreTypeOK'
  BY DEF StoreInv, StoreTypeOK, Acquire, Steps
<1>2. call'[p] = [step |-> "locked", job |-> j, ask |-> ask] /\ lock'[j] = p
  BY DEF StoreInv, StoreTypeOK, Acquire
<1>3. UpdateOK(p)'
  BY <1>2 DEF UpdateOK
<1>4. \A q \in Procs \ {p} : call'[q] = call[q]
  BY DEF StoreInv, StoreTypeOK, Acquire
<1>5. \A k \in Jobs \ {j} : lock'[k] = lock[k]
  BY DEF StoreInv, StoreTypeOK, Acquire
<1>. QED  BY <1>1, <1>3, <1>4, <1>5, OneUpdate DEF Acquire

\* The process inside an update works on a job whose lock it holds.
LEMMA Holding ==
    ASSUME StoreInv, NEW p \in Procs, call[p].step # "idle"
    PROVE  call[p].job \in Jobs /\ lock[call[p].job] = p /\ call[p].ask \in Asks
BY DEF StoreInv, UpdateOK

\* A refused update leaves everything but the lock file as it was.
LEMMA RefuseInv ==
    ASSUME StoreInv, NEW p \in Procs, Refuse(p)
    PROVE  StoreInv'
<1>. DEFINE j == call[p].job
<1>1. j \in Jobs /\ lock[j] = p
  BY Holding DEF Refuse, At
<1>2. StoreTypeOK'
  BY <1>1, Returned, Released DEF StoreInv, StoreTypeOK, Refuse
<1>3. UpdateOK(p)' /\ \A q \in Procs \ {p} : call'[q] = call[q]
  BY Returned DEF StoreInv, Refuse, UpdateOK
<1>4. \A k \in Jobs \ {j} : lock'[k] = lock[k]
  BY <1>1, Released DEF StoreInv, Refuse
<1>. QED  BY <1>1, <1>2, <1>3, <1>4, OneUpdate DEF Refuse

\* What an accepted update is about to write is a definition.
LEMMA Updating ==
    ASSUME StoreInv, NEW p \in Procs, At(p, "locked"), Accepted(p)
    PROVE  LET j == call[p].job IN
           /\ j \in Jobs /\ lock[j] = p
           /\ manifest[j] \in Definition /\ Permits(manifest[j], call[p].ask)
           /\ Updated(p, manifest[j], call[p].ask) \in Definition
<1>. DEFINE j == call[p].job
<1>1. j \in Jobs /\ lock[j] = p /\ call[p].ask \in Asks
  BY Holding DEF At
<1>2. manifest[j] \in Definition /\ Allows(j, manifest[j], call[p].ask)
  BY <1>1 DEF Accepted, StoreInv, StoreTypeOK
<1>3. Permits(manifest[j], call[p].ask)
  BY <1>1, <1>2, AllowedPermitted
<1>. QED  BY <1>1, <1>2, <1>3, UpdatedType

\* job.tmp holds the updated manifest.
LEMMA WriteInv ==
    ASSUME StoreInv, NEW p \in Procs, Write(p)
    PROVE  StoreInv'
<1>. DEFINE j == call[p].job
<1>1. /\ j \in Jobs /\ lock[j] = p
      /\ manifest[j] \in Definition /\ Permits(manifest[j], call[p].ask)
      /\ Updated(p, manifest[j], call[p].ask) \in Definition
  BY Updating DEF Write
<1>2. StoreTypeOK'
  BY <1>1, Moved DEF StoreInv, StoreTypeOK, Write, Steps
<1>3. temp'[j] = Updated(p, manifest[j], call[p].ask)
  BY <1>1 DEF Write, StoreInv, StoreTypeOK
<1>4. /\ call'[p].step = "written" /\ call'[p].job = j /\ call'[p].ask = call[p].ask
      /\ \A q \in Procs \ {p} : call'[q] = call[q]
  BY Moved DEF StoreInv, Write, Steps
<1>5. manifest' = manifest /\ lock' = lock /\ backup' = backup
  BY DEF Write
<1>6. call[p].ask \in Asks
  BY Holding DEF Write, At
<1>7. Updated(p, manifest[j], call[p].ask)' = Updated(p, manifest[j], call[p].ask)
  BY <1>4, <1>5 DEF Updated, Finished
<1>8. UpdateOK(p)'
  BY <1>1, <1>3, <1>4, <1>5, <1>6, <1>7 DEF UpdateOK, Permits
<1>9. \A k \in Jobs \ {j} : temp'[k] = temp[k]
  BY <1>1 DEF StoreInv, StoreTypeOK, Write
<1>. QED  BY <1>1, <1>2, <1>4, <1>5, <1>8, <1>9, OneUpdate

\* A failed write may leave a file that nobody reads, and gives the lock back.
LEMMA WriteFailsInv ==
    ASSUME StoreInv, NEW p \in Procs, WriteFails(p)
    PROVE  StoreInv'
<1>. DEFINE j == call[p].job
<1>1. j \in Jobs /\ lock[j] = p /\ Updated(p, manifest[j], call[p].ask) \in Definition
  BY Updating DEF WriteFails
<1>2. StoreTypeOK'
  BY <1>1, Returned, Released DEF StoreInv, StoreTypeOK, WriteFails
<1>3. UpdateOK(p)' /\ \A q \in Procs \ {p} : call'[q] = call[q]
  BY Returned DEF StoreInv, WriteFails, UpdateOK
<1>4. \A k \in Jobs \ {j} : temp'[k] = temp[k] /\ lock'[k] = lock[k]
  BY <1>1, Released DEF StoreInv, StoreTypeOK, WriteFails
<1>. QED  BY <1>1, <1>2, <1>3, <1>4, OneUpdate DEF WriteFails

\* The old manifest is kept as the backup.
LEMMA SwapOutInv ==
    ASSUME StoreInv, NEW p \in Procs, SwapOut(p)
    PROVE  StoreInv'
<1>. DEFINE j == call[p].job
<1>1. /\ j \in Jobs /\ lock[j] = p /\ call[p].ask \in Asks
      /\ manifest[j] \in Definition /\ Permits(manifest[j], call[p].ask)
      /\ temp[j] = Updated(p, manifest[j], call[p].ask)
  BY DEF SwapOut, At, StoreInv, UpdateOK
<1>2. StoreTypeOK'
  BY <1>1, Moved DEF StoreInv, StoreTypeOK, SwapOut, Steps
<1>3. /\ call'[p].step = "swapped" /\ call'[p].job = j /\ call'[p].ask = call[p].ask
      /\ \A q \in Procs \ {p} : call'[q] = call[q]
  BY Moved DEF StoreInv, SwapOut, Steps
<1>4. backup'[j] = manifest[j] /\ manifest'[j] = NoJob /\ temp' = temp /\ lock' = lock
  BY <1>1 DEF SwapOut, StoreInv, StoreTypeOK
<1>5. Updated(p, backup[j], call[p].ask)' = Updated(p, manifest[j], call[p].ask)
  BY <1>3, <1>4 DEF Updated, Finished
<1>6. UpdateOK(p)'
  BY <1>1, <1>3, <1>4, <1>5 DEF UpdateOK, Permits
<1>7. \A k \in Jobs \ {j} : backup'[k] = backup[k] /\ manifest'[k] = manifest[k]
  BY <1>1 DEF StoreInv, StoreTypeOK, SwapOut
<1>. QED  BY <1>1, <1>2, <1>3, <1>4, <1>6, <1>7, OneUpdate

\* The new manifest is installed.
LEMMA SwapInInv ==
    ASSUME StoreInv, NEW p \in Procs, SwapIn(p)
    PROVE  StoreInv'
<1>. DEFINE j == call[p].job
<1>1. /\ j \in Jobs /\ lock[j] = p /\ call[p].ask \in Asks
      /\ backup[j] \in Definition /\ Permits(backup[j], call[p].ask)
      /\ temp[j] = Updated(p, backup[j], call[p].ask)
  BY DEF SwapIn, At, StoreInv, UpdateOK
<1>2. temp[j] \in Definition
  BY <1>1, UpdatedType
<1>3. StoreTypeOK'
  BY <1>1, <1>2, Moved DEF StoreInv, StoreTypeOK, SwapIn, Steps
<1>4. /\ call'[p].step = "installed" /\ call'[p].job = j /\ call'[p].ask = call[p].ask
      /\ \A q \in Procs \ {p} : call'[q] = call[q]
  BY Moved DEF StoreInv, SwapIn, Steps
<1>5. manifest'[j] = temp[j] /\ lock' = lock /\ backup' = backup
  BY <1>1 DEF SwapIn, StoreInv, StoreTypeOK
<1>6. UpdateOK(p)'
  BY <1>1, <1>2, <1>4, <1>5 DEF UpdateOK
<1>7. \A k \in Jobs \ {j} : temp'[k] = temp[k] /\ manifest'[k] = manifest[k]
  BY <1>1 DEF StoreInv, StoreTypeOK, SwapIn
<1>. QED  BY <1>1, <1>3, <1>4, <1>5, <1>6, <1>7, OneUpdate

\* Renames and a removal that fail: the manifest may be the backup again.
LEMMA FailInv ==
    ASSUME StoreInv, NEW p \in Procs, SwapOutFails(p) \/ SwapInFails(p) \/ DiscardFails(p)
    PROVE  StoreInv'
<1>. DEFINE j == call[p].job
<1>1. j \in Jobs /\ lock[j] = p /\ Release(j) /\ Return(p, "refused")
  BY Holding DEF SwapOutFails, SwapInFails, DiscardFails, At
<1>2. /\ manifest' \in [Jobs -> Definition \cup {NoJob}]
      /\ backup' \in [Jobs -> Definition \cup {NoJob}]
      /\ temp' = temp /\ now' = now /\ crashed' = crashed
      /\ \A k \in Jobs \ {j} : manifest'[k] = manifest[k] /\ backup'[k] = backup[k]
  BY <1>1 DEF SwapOutFails, SwapInFails, DiscardFails, StoreInv, StoreTypeOK
<1>3. StoreTypeOK'
  BY <1>1, <1>2, Returned, Released DEF StoreInv, StoreTypeOK
<1>4. UpdateOK(p)' /\ \A q \in Procs \ {p} : call'[q] = call[q]
  BY <1>1, Returned DEF StoreInv, UpdateOK
<1>5. \A k \in Jobs \ {j} : lock'[k] = lock[k]
  BY <1>1, Released DEF StoreInv
<1>. QED  BY <1>1, <1>2, <1>3, <1>4, <1>5, OneUpdate

\* The backup is removed, then the lock file.
LEMMA CleanInv ==
    ASSUME StoreInv, NEW p \in Procs, Discard(p) \/ Unlock(p)
    PROVE  StoreInv'
<1>. DEFINE j == call[p].job
<1>1. j \in Jobs /\ lock[j] = p /\ call[p].ask \in Asks
  BY Holding DEF Discard, Unlock, At
<1>2. CASE Discard(p)
  <2>1. StoreTypeOK'
    BY <1>2, Moved DEF StoreInv, StoreTypeOK, Discard, Steps
  <2>2. /\ call'[p].step = "cleaned" /\ call'[p].job = j /\ call'[p].ask = call[p].ask
        /\ \A q \in Procs \ {p} : call'[q] = call[q]
    BY <1>2, Moved DEF StoreInv, Discard, Steps
  <2>3. lock' = lock /\ manifest' = manifest /\ temp' = temp
    BY <1>2 DEF Discard
  <2>4. UpdateOK(p)'
    BY <1>1, <2>2, <2>3 DEF UpdateOK
  <2>5. \A k \in Jobs \ {j} : backup'[k] = backup[k]
    BY <1>1, <1>2 DEF StoreInv, StoreTypeOK, Discard
  <2>. QED  BY <1>1, <2>1, <2>2, <2>3, <2>4, <2>5, OneUpdate
<1>3. CASE Unlock(p)
  <2>1. StoreTypeOK'
    BY <1>1, <1>3, Returned, Released DEF StoreInv, StoreTypeOK, Unlock
  <2>2. UpdateOK(p)' /\ \A q \in Procs \ {p} : call'[q] = call[q]
    BY <1>3, Returned DEF StoreInv, Unlock, UpdateOK
  <2>3. \A k \in Jobs \ {j} : lock'[k] = lock[k]
    BY <1>1, <1>3, Released DEF StoreInv, Unlock
  <2>. QED  BY <1>1, <1>3, <2>1, <2>2, <2>3, OneUpdate DEF Unlock
<1>. QED  BY <1>2, <1>3

\* A dead process updates nothing any more; what it left stays as it was.
LEMMA CrashInv ==
    ASSUME StoreInv, NEW p \in Procs, Crash(p)
    PROVE  StoreInv'
<1>1. StoreTypeOK'
  BY DEF StoreInv, StoreTypeOK, Crash, Idle, Steps, files
<1>2. ASSUME NEW q \in Procs PROVE UpdateOK(q)'
  <2>1. CASE q = p
    BY <2>1 DEF StoreInv, StoreTypeOK, Crash, Idle, UpdateOK
  <2>2. CASE q # p
    <3>1. UpdateOK(q) /\ call'[q] = call[q]
      BY <2>2 DEF StoreInv, StoreTypeOK, Crash
    <3>. QED  BY <3>1 DEF Crash, files, UpdateOK
  <2>. QED  BY <2>1, <2>2
<1>. QED  BY <1>1, <1>2 DEF StoreInv

\* Steps that change no file and no update.
LEMMA QuietInv ==
    ASSUME StoreInv, UNCHANGED <<files, call>>, StoreTypeOK'
    PROVE  StoreInv'
<1>1. ASSUME NEW q \in Procs PROVE UpdateOK(q)'
  <2>1. UpdateOK(q)
    BY DEF StoreInv
  <2>. QED  BY <2>1 DEF UpdateOK, files
<1>. QED  BY <1>1 DEF StoreInv

\* Every step of the ledger, and every stutter, preserves its invariant.
LEMMA StoreStep == StoreInv /\ [StoreNext]_store => StoreInv'
<1>. SUFFICES ASSUME StoreInv, [StoreNext]_store PROVE StoreInv'
  OBVIOUS
<1>1. ASSUME NEW p \in Procs, Proceed(p) PROVE StoreInv'
  BY <1>1, RefuseInv, WriteInv, WriteFailsInv, SwapOutInv, SwapInInv, CleanInv, FailInv
     DEF Proceed
<1>2. ASSUME NEW p \in Procs, outcome' = [outcome EXCEPT ![p] = "refused"]
                                \/ outcome' = [outcome EXCEPT ![p] = "none"],
             UNCHANGED <<files, now, call, crashed>>
      PROVE StoreInv'
  <2>1. StoreTypeOK'
    BY <1>2 DEF StoreInv, StoreTypeOK, files
  <2>. QED  BY <1>2, <2>1, QuietInv
<1>3. ASSUME NEW j \in Jobs, Due(j) PROVE StoreInv'
  <2>1. StoreTypeOK'
    BY <1>3, BoundAssumption DEF StoreInv, StoreTypeOK, Due, files
  <2>. QED  BY <1>3, <2>1, QuietInv DEF Due
<1>4. CASE UNCHANGED store
  <2>1. StoreTypeOK'
    BY <1>4 DEF StoreInv, StoreTypeOK, store, files
  <2>. QED  BY <1>4, <2>1, QuietInv DEF store
<1>. QED  BY <1>1, <1>2, <1>3, <1>4, CreateInv, AcquireInv, CrashInv
          DEF StoreNext, Busy, Consume

----------------------------------------------------------------------------
(* The file-by-file ledger implements the job lifecycle: a job changes at  *)
(* the rename that installs its manifest and nowhere else.                 *)

\* What a reader finds of each job is a definition or nothing.
LEMMA LedgerType ==
    ASSUME StoreTypeOK, NEW j \in Jobs
    PROVE  Ledger[j] \in Definition \cup {NoJob}
BY DEF StoreTypeOK, Ledger

\* A ledger that changes at one job only changes there the way it is told.
LEMMA LedgerAt ==
    ASSUME NEW j \in Jobs, NEW d,
           \A k \in Jobs \ {j} : manifest'[k] = manifest[k] /\ backup'[k] = backup[k],
           manifest'[j] = d, d # NoJob
    PROVE  Ledger' = [Ledger EXCEPT ![j] = d]
<1>1. \A k \in Jobs : Ledger'[k] = IF k = j THEN d ELSE Ledger[k]
  BY DEF Ledger
<1>2. Ledger' = [k \in Jobs |-> Ledger'[k]] /\ Ledger = [k \in Jobs |-> Ledger[k]]
  BY DEF Ledger
<1>. QED  BY <1>1, <1>2

\* The updated definition is one step of the lifecycle away.
LEMMA UpdateIsTransition ==
    ASSUME NEW p \in Procs, NEW j \in Jobs, NEW ask \in Asks,
           Ledger[j] \in Definition, Permits(Ledger[j], ask),
           Ledger' = [Ledger EXCEPT ![j] = Updated(p, Ledger[j], ask)]
    PROVE  Lifecycle!Next
<1>. DEFINE d == Ledger[j]
<1>0. d # NoJob
  BY NoJobAssumption
<1>1. SUFFICES Lifecycle!Change(j)
  BY <1>0 DEF Lifecycle!Next
<1>2. CASE ask = "claim"
  BY <1>2 DEF Updated, Permits, Lifecycle!Change, Lifecycle!Claim, Lifecycle!Turn
<1>3. CASE ask = "attach"
  BY <1>3 DEF Updated, Permits, Lifecycle!Change, Lifecycle!Attach, Lifecycle!Turn
<1>4. CASE ask = "cancel"
  <2>1. CASE d.state = "queued"
    BY <1>4, <2>1 DEF Updated, Lifecycle!Change, Lifecycle!Cancel, Lifecycle!Turn
  <2>2. CASE d.state = "running"
    BY <1>4, <2>2 DEF Updated, Lifecycle!Change, Lifecycle!Cancel, Lifecycle!Turn
  <2>. QED  BY <1>4, <2>1, <2>2 DEF Permits
<1>5. CASE ask \in {"succeed", "fail"}
  <2>1. Updated(p, d, ask) = Finished(d, ask)
    BY <1>5 DEF Updated
  <2>2. CASE d.state = "cancelling"
    BY <2>1, <2>2 DEF Finished, Lifecycle!Change, Lifecycle!Stop, Lifecycle!Turn
  <2>3. CASE d.state = "running" /\ ask = "fail"
    BY <2>1, <2>3 DEF Finished, Lifecycle!Change, Lifecycle!Fail, Lifecycle!Turn
  <2>4. CASE d.state = "running" /\ ask = "succeed"
    BY <2>1, <2>4 DEF Finished, Lifecycle!Change, Lifecycle!Succeed, Lifecycle!Turn
  <2>. QED  BY <1>5, <2>2, <2>3, <2>4 DEF Permits
<1>. QED  BY <1>2, <1>3, <1>4, <1>5 DEF Asks

\* The rename that installs a manifest is the step of the lifecycle.
LEMMA SwapInRefines ==
    ASSUME StoreInv, NEW p \in Procs, SwapIn(p)
    PROVE  Lifecycle!Next
<1>. DEFINE j == call[p].job
            ask == call[p].ask
<1>1. /\ j \in Jobs /\ ask \in Asks /\ manifest[j] = NoJob
      /\ backup[j] \in Definition /\ Permits(backup[j], ask)
      /\ temp[j] = Updated(p, backup[j], ask)
  BY DEF SwapIn, At, StoreInv, UpdateOK
<1>2. Ledger[j] = backup[j]
  BY <1>1 DEF Ledger
<1>3. temp[j] \in Definition /\ temp[j] # NoJob
  BY <1>1, UpdatedType, NoJobAssumption
<1>4. Ledger' = [Ledger EXCEPT ![j] = temp[j]]
  <2>1. manifest'[j] = temp[j] /\ backup' = backup
    BY <1>1 DEF SwapIn, StoreInv, StoreTypeOK
  <2>2. \A k \in Jobs \ {j} : manifest'[k] = manifest[k]
    BY <1>1 DEF SwapIn, StoreInv, StoreTypeOK
  <2>3. ASSUME NEW d, d = temp[j]
        PROVE  Ledger' = [Ledger EXCEPT ![j] = d]
    BY <1>1, <1>3, <2>1, <2>2, <2>3, LedgerAt
  <2>. QED  BY <2>3
<1>5. Ledger' = [Ledger EXCEPT ![j] = Updated(p, Ledger[j], ask)]
  BY <1>1, <1>2, <1>4
<1>. QED  BY <1>1, <1>2, <1>5, UpdateIsTransition

\* A new job appears in its first state.
LEMMA CreateRefines ==
    ASSUME StoreInv, NEW p \in Procs, NEW j \in Jobs, NEW s \in Schedules, Create(p, j, s)
    PROVE  Lifecycle!Next
<1>1. Fresh(s) # NoJob
  <2>1. Fresh(s) \in Definition
    BY FreshType
  <2>. QED  BY <2>1, NoJobAssumption
<1>2. Ledger[j] = NoJob
  BY DEF Create, Exists, Ledger
<1>3. \A k \in Jobs \ {j} : manifest'[k] = manifest[k] /\ backup'[k] = backup[k]
  BY DEF StoreInv, StoreTypeOK, Create
<1>4. manifest'[j] = Fresh(s)
  BY DEF StoreInv, StoreTypeOK, Create
<1>5. Ledger' = [Ledger EXCEPT ![j] = Fresh(s)]
  BY <1>1, <1>3, <1>4, LedgerAt
<1>6. Fresh(s) = Lifecycle!Fresh(s) /\ s \in Lifecycle!Schedules
  BY DEF Fresh, Lifecycle!Fresh, Schedules, Lifecycle!Schedules
<1>. QED  BY <1>2, <1>5, <1>6 DEF Lifecycle!Next, Lifecycle!Create

\* Moving the manifest aside, moving it back and removing the backup change no job.
LEMMA SwapOutStutters ==
    ASSUME StoreInv, NEW p \in Procs, SwapOut(p) \/ SwapInFails(p) \/ Discard(p)
    PROVE  Ledger' = Ledger
<1>. DEFINE j == call[p].job
<1>1. /\ j \in Jobs
      /\ SwapOut(p) \/ Discard(p) => manifest[j] \in Definition
      /\ SwapInFails(p) => manifest[j] = NoJob /\ backup[j] \in Definition
  BY DEF SwapOut, SwapInFails, Discard, At, StoreInv, UpdateOK
<1>2. ASSUME NEW k \in Jobs PROVE Ledger'[k] = Ledger[k]
  <2>1. CASE SwapOut(p)
    BY <1>1, <2>1, NoJobAssumption DEF SwapOut, StoreInv, StoreTypeOK, Ledger
  <2>2. CASE Discard(p)
    BY <1>1, <2>2, NoJobAssumption DEF Discard, StoreInv, StoreTypeOK, Ledger
  <2>3. CASE SwapInFails(p)
    BY <1>1, <2>3, NoJobAssumption DEF SwapInFails, StoreInv, StoreTypeOK, Ledger
  <2>. QED  BY <2>1, <2>2, <2>3
<1>3. Ledger' = [k \in Jobs |-> Ledger'[k]] /\ Ledger = [k \in Jobs |-> Ledger[k]]
  BY DEF Ledger
<1>. QED  BY <1>2, <1>3

\* Every step of the ledger is a step of the lifecycle or changes no job.
LEMMA StepRefines == StoreInv /\ [StoreNext]_store => [Lifecycle!Next]_Ledger
<1>. SUFFICES ASSUME StoreInv, [StoreNext]_store PROVE Lifecycle!Next \/ Ledger' = Ledger
  OBVIOUS
<1>1. CASE UNCHANGED <<manifest, backup>>
  BY <1>1 DEF Ledger
<1>2. ASSUME NEW p \in Procs, Proceed(p) PROVE Lifecycle!Next \/ Ledger' = Ledger
  <2>1. CASE SwapIn(p)
    BY <2>1, SwapInRefines
  <2>2. CASE SwapOut(p) \/ SwapInFails(p) \/ Discard(p)
    BY <2>2, SwapOutStutters
  <2>3. CASE \/ Refuse(p) \/ Write(p) \/ WriteFails(p)
             \/ SwapOutFails(p) \/ DiscardFails(p) \/ Unlock(p)
    BY <2>3, <1>1 DEF Refuse, Write, WriteFails, SwapOutFails, DiscardFails, Unlock
  <2>. QED  BY <1>2, <2>1, <2>2, <2>3 DEF Proceed
<1>3. CASE UNCHANGED files
  BY <1>1, <1>3 DEF files
<1>4. ASSUME NEW p \in Procs, NEW j \in Jobs, NEW a \in Asks, Acquire(p, j, a)
      PROVE  Ledger' = Ledger
  BY <1>4 DEF Acquire, Ledger
<1>. QED  BY <1>2, <1>3, <1>4, CreateRefines
          DEF StoreNext, Busy, Consume, Crash, Due, store

\* The ledger's files, locks and calls keep their types and the invariant of
\* every update in progress, whatever its callers do.
THEOREM LedgerInvariance == StoreSpec => []StoreInv
<1>. QED  BY LedgerStarts, StoreStep, PTL DEF StoreSpec

\* The job ledger, one file operation at a time and with crashes and failures at
\* any of them, implements the job lifecycle.
THEOREM LedgerImplementsLifecycle == StoreSpec => ImplementsLifecycle
<1>1. StoreInit => Lifecycle!Init
  BY DEF StoreInit, Lifecycle!Init, Ledger
<1>. QED  BY <1>1, LedgerInvariance, StepRefines, PTL
          DEF StoreSpec, ImplementsLifecycle, Lifecycle!Spec

----------------------------------------------------------------------------
(* The callers: a process inside an update is at the point of its program  *)
(* that asked for it, and a cancellation that was written down stays.      *)

Stopping(j) == Ledger[j] # NoJob /\ Ledger[j].state \in {"cancelling", "cancelled"}

CallerTypes ==
    /\ pc \in [Procs -> Pcs]
    /\ mine \in [Procs -> Jobs \cup {NoJob}]
    /\ cancelled \in SUBSET Jobs

\* What one process knows of the update it asked for.
CallerOK(p) ==
    /\ pc[p] # "off" => mine[p] \in Jobs
    /\ call[p].step # "idle" \/ outcome[p] # "none" => pc[p] \in Asking
    /\ call[p].step # "idle" =>
          call[p].job = mine[p] /\ call[p].ask = AskOf[pc[p]] /\ outcome[p] = "none"
    /\ pc[p] \in Asking /\ AskOf[pc[p]] = "cancel" /\
       (call[p].step \in {"installed", "cleaned"} \/ outcome[p] = "ok")
          => Stopping(mine[p])

CallersInv ==
    /\ StoreInv
    /\ CallerTypes
    /\ \A p \in Procs : CallerOK(p)
    /\ \A j \in cancelled : Stopping(j)

\* The ledger asks a process's program answers to.
LEMMA AskType == ASSUME NEW l \in Asking
                 PROVE  /\ AskOf[l] \in Asks /\ AfterOk[l] \in Pcs \ {"off"}
                        /\ AfterRefusal[l] \in Pcs \ {"off"}
                        /\ l \notin {"off", "turn", "prepare", "working", "carrying", "done"}
BY DEF Asking, AskOf, AfterOk, AfterRefusal, Pcs, Asks

\* A cancellation once written is undone by no step of the ledger.
LEMMA StoppingStays ==
    ASSUME StoreInv, [StoreNext]_store, NEW j \in Jobs, Stopping(j)
    PROVE  Stopping(j)'
<1>1. [Lifecycle!Next]_Ledger
  BY StepRefines
<1>2. CASE Ledger' = Ledger
  BY <1>2 DEF Stopping
<1>3. ASSUME NEW k \in Jobs, NEW s \in Lifecycle!Schedules, Lifecycle!Create(k, s)
      PROVE  Stopping(j)'
  <2>1. j # k
    BY <1>3 DEF Lifecycle!Create, Stopping
  <2>2. Ledger'[j] = Ledger[j]
    BY <1>3, <2>1 DEF Lifecycle!Create, Ledger
  <2>. QED  BY <2>2 DEF Stopping
<1>4. ASSUME NEW k \in Jobs, Ledger[k] # NoJob, Lifecycle!Change(k)
      PROVE  Stopping(j)'
  <2>1. CASE j # k
    <3>1. Ledger'[j] = Ledger[j]
      BY <1>4, <2>1 DEF Lifecycle!Change, Lifecycle!Claim, Lifecycle!Attach,
         Lifecycle!Cancel, Lifecycle!Succeed, Lifecycle!Fail, Lifecycle!Stop,
         Lifecycle!Turn, Ledger
    <3>. QED  BY <3>1 DEF Stopping
  <2>2. CASE j = k
    <3>1. Lifecycle!Stop(j)
      BY <1>4, <2>2 DEF Stopping, Lifecycle!Change, Lifecycle!Claim, Lifecycle!Attach,
         Lifecycle!Cancel, Lifecycle!Succeed, Lifecycle!Fail, Lifecycle!Turn
    <3>2. Ledger[j] \in Definition
      BY LedgerType DEF StoreInv, Stopping
    <3>3. Ledger'[j] = [Ledger[j] EXCEPT !.state = "cancelled"]
      BY <3>1 DEF Lifecycle!Stop, Lifecycle!Turn, Ledger
    <3>4. Ledger'[j].state = "cancelled" /\ Ledger'[j] \in Definition
      BY <3>2, <3>3 DEF Definition, States
    <3>. QED  BY <3>4, NoJobAssumption DEF Stopping
  <2>. QED  BY <2>1, <2>2
<1>. QED  BY <1>1, <1>2, <1>3, <1>4 DEF Lifecycle!Next

\* At the start nobody asked for anything.
LEMMA CallersStart == Init => CallersInv
<1>. SUFFICES ASSUME Init PROVE CallersInv
  OBVIOUS
<1>1. StoreInv
  BY LedgerStarts DEF Init
<1>2. CallerTypes
  BY DEF Init, CallerTypes, Pcs
<1>3. \A p \in Procs : CallerOK(p)
  BY DEF Init, StoreInit, Idle, CallerOK, Asking, AskOf
<1>4. cancelled = {}
  BY DEF Init
<1>. QED  BY <1>1, <1>2, <1>3, <1>4 DEF CallersInv

\* What a step of process p has to show.
LEMMA OneCaller ==
    ASSUME CallersInv, NEW p \in Procs, [StoreNext]_store, CallerTypes', CallerOK(p)',
           \A q \in Procs \ {p} : /\ pc'[q] = pc[q] /\ mine'[q] = mine[q]
                                 /\ call'[q] = call[q] /\ outcome'[q] = outcome[q],
           \A j \in cancelled' \ cancelled : Stopping(j)'
    PROVE  CallersInv'
<1>1. StoreInv'
  BY StoreStep DEF CallersInv
<1>2. ASSUME NEW q \in Procs \ {p} PROVE CallerOK(q)'
  <2>1. CallerOK(q)
    BY DEF CallersInv
  <2>2. mine[q] \in Jobs /\ Stopping(mine[q]) => Stopping(mine[q])'
    <3>. SUFFICES ASSUME mine[q] \in Jobs, Stopping(mine[q]) PROVE Stopping(mine[q])'
      OBVIOUS
    <3>1. PICK j \in Jobs : j = mine[q]
      OBVIOUS
    <3>2. mine'[q] = j /\ Stopping(j)
      BY <3>1
    <3>3. Stopping(j)'
      BY <3>2, StoppingStays DEF CallersInv
    <3>. QED  BY <3>2, <3>3 DEF Stopping
  <2>3. pc[q] \in Asking => pc[q] # "off"
    BY AskType
  <2>. QED  BY <2>1, <2>2, <2>3 DEF CallerOK, Stopping
<1>3. \A j \in cancelled : Stopping(j)'
  BY StoppingStays DEF CallersInv, CallerTypes
<1>. QED  BY <1>1, <1>2, <1>3 DEF CallersInv

\* Updates that return, refused or not.
LEMMA AskInv ==
    ASSUME CallersInv, NEW p \in Procs, Ask(p)
    PROVE  CallersInv'
<1>1. pc[p] \in Asking /\ AskOf[pc[p]] \in Asks /\ mine[p] \in Jobs
  BY AskType DEF Ask, CallersInv, CallerOK
<1>2. CASE Acquire(p, mine[p], AskOf[pc[p]])
  <2>1. StoreNext
    BY <1>1, <1>2 DEF StoreNext
  <2>2. /\ call'[p] = [step |-> "locked", job |-> mine[p], ask |-> AskOf[pc[p]]]
        /\ \A q \in Procs \ {p} : call'[q] = call[q]
    BY <1>2 DEF Acquire, CallersInv, StoreInv, StoreTypeOK
  <2>3. outcome' = outcome /\ outcome[p] = "none" /\ pc' = pc /\ mine' = mine
        /\ cancelled' = cancelled
    BY <1>2 DEF Ask, Acquire, history
  <2>4. CallerOK(p)'
    BY <1>1, <2>2, <2>3 DEF CallerOK
  <2>5. CallerTypes'
    BY <2>3 DEF CallersInv, CallerTypes
  <2>. QED  BY <2>1, <2>2, <2>3, <2>4, <2>5, OneCaller
<1>3. CASE Busy(p, mine[p])
  <2>1. StoreNext
    BY <1>1, <1>3 DEF StoreNext
  <2>2. /\ outcome'[p] = "refused" /\ call' = call /\ call[p].step = "idle"
        /\ \A q \in Procs \ {p} : outcome'[q] = outcome[q]
    BY <1>3 DEF Busy, Free, Idle, CallersInv, StoreInv, StoreTypeOK
  <2>3. pc' = pc /\ mine' = mine /\ cancelled' = cancelled
    BY DEF Ask, history
  <2>4. CallerOK(p)'
    BY <1>1, <2>2, <2>3 DEF CallerOK
  <2>5. CallerTypes'
    BY <2>3 DEF CallersInv, CallerTypes
  <2>. QED  BY <2>1, <2>2, <2>3, <2>4, <2>5, OneCaller
<1>. QED  BY <1>2, <1>3 DEF Ask

\* The rename that installs a cancelled definition makes the job stop.
LEMMA CancelInstalled ==
    ASSUME StoreInv, NEW p \in Procs, SwapIn(p), call[p].ask = "cancel"
    PROVE  Stopping(call[p].job)'
<1>. DEFINE j == call[p].job
<1>1. /\ j \in Jobs /\ backup[j] \in Definition /\ Permits(backup[j], "cancel")
      /\ temp[j] = Updated(p, backup[j], "cancel") /\ temp[j] \in Definition
  <2>1. /\ j \in Jobs /\ backup[j] \in Definition /\ Permits(backup[j], "cancel")
        /\ temp[j] = Updated(p, backup[j], "cancel")
    BY DEF SwapIn, At, StoreInv, UpdateOK
  <2>. QED  BY <2>1, UpdatedType DEF Asks
<1>2. temp[j].state \in {"cancelling", "cancelled"}
  BY <1>1 DEF Updated, Permits, Definition
<1>3. manifest'[j] = temp[j] /\ call'[p].job = j
  BY <1>1, Moved DEF SwapIn, StoreInv, StoreTypeOK, Steps
<1>4. Ledger'[j] = temp[j]
  BY <1>1, <1>3, NoJobAssumption DEF Ledger
<1>. QED  BY <1>1, <1>2, <1>3, <1>4, NoJobAssumption DEF Stopping

\* The steps inside an update.
LEMMA UpdateInv ==
    ASSUME CallersInv, NEW p \in Procs, Update(p)
    PROVE  CallersInv'
<1>1. Proceed(p) /\ pc' = pc /\ mine' = mine /\ cancelled' = cancelled
  BY DEF Update, history
<1>2. StoreNext
  BY <1>1 DEF StoreNext
<1>3. CallerTypes'
  BY <1>1 DEF CallersInv, CallerTypes
<1>4. call[p].step # "idle"
  BY <1>1 DEF Proceed, Refuse, Write, WriteFails, SwapOut, SwapOutFails, SwapIn, SwapInFails,
             Discard, DiscardFails, Unlock, At
<1>5. /\ pc[p] \in Asking /\ mine[p] \in Jobs /\ outcome[p] = "none"
      /\ call[p].job = mine[p] /\ call[p].ask = AskOf[pc[p]] /\ pc[p] # "off"
  BY <1>4, AskType DEF CallersInv, CallerOK
<1>6. CASE Write(p) \/ SwapOut(p)
  <2>1. /\ call'[p].step \in {"written", "swapped"} /\ call'[p].job = call[p].job
        /\ call'[p].ask = call[p].ask /\ outcome' = outcome
        /\ \A q \in Procs \ {p} : call'[q] = call[q]
    BY <1>6, Moved DEF Write, SwapOut, CallersInv, StoreInv, Steps
  <2>2. CallerOK(p)'
    BY <1>1, <1>5, <2>1 DEF CallerOK
  <2>. QED  BY <1>1, <1>2, <1>3, <2>1, <2>2, OneCaller
<1>7. CASE SwapIn(p)
  <2>1. /\ call'[p].step = "installed" /\ call'[p].job = call[p].job
        /\ call'[p].ask = call[p].ask /\ outcome' = outcome
        /\ \A q \in Procs \ {p} : call'[q] = call[q]
    BY <1>7, Moved DEF SwapIn, CallersInv, StoreInv, Steps
  <2>2. call[p].ask = "cancel" => Stopping(call[p].job)'
    BY <1>7, CancelInstalled DEF CallersInv
  <2>3. CallerOK(p)'
    BY <1>1, <1>5, <2>1, <2>2 DEF CallerOK, Stopping
  <2>. QED  BY <1>1, <1>2, <1>3, <2>1, <2>3, OneCaller
<1>8. ASSUME Discard(p) \/ Unlock(p), NEW j \in Jobs, j = mine[p]
      PROVE  CallersInv'
  <2>1. call[p].step \in {"installed", "cleaned"}
    BY <1>8 DEF Discard, Unlock, At
  <2>2. AskOf[pc[p]] = "cancel" => Stopping(j)
    BY <1>5, <1>8, <2>1 DEF CallersInv, CallerOK
  <2>3. AskOf[pc[p]] = "cancel" => Stopping(j)'
    BY <1>2, <2>2, StoppingStays DEF CallersInv
  <2>4. /\ \/ /\ call'[p].step = "cleaned" /\ call'[p].job = call[p].job
              /\ call'[p].ask = call[p].ask /\ outcome' = outcome
           \/ call'[p].step = "idle"
        /\ \A q \in Procs \ {p} : call'[q] = call[q] /\ outcome'[q] = outcome[q]
    BY <1>8, Moved, Returned DEF Discard, Unlock, Return, CallersInv, StoreInv, StoreTypeOK, Steps
  <2>5. CallerOK(p)'
    BY <1>1, <1>5, <1>8, <2>3, <2>4 DEF CallerOK, Stopping
  <2>. QED  BY <1>1, <1>2, <1>3, <2>4, <2>5, OneCaller
<1>9. CASE \/ Refuse(p) \/ WriteFails(p)
           \/ SwapOutFails(p) \/ SwapInFails(p) \/ DiscardFails(p)
  <2>0. Return(p, "refused")
    BY <1>9 DEF Refuse, WriteFails, SwapOutFails, SwapInFails, DiscardFails
  <2>1. /\ call'[p].step = "idle" /\ outcome'[p] = "refused"
        /\ \A q \in Procs \ {p} : call'[q] = call[q] /\ outcome'[q] = outcome[q]
    BY <2>0, Returned DEF Return, CallersInv, StoreInv, StoreTypeOK
  <2>2. CallerOK(p)'
    BY <1>1, <1>5, <2>1 DEF CallerOK
  <2>. QED  BY <1>1, <1>2, <1>3, <2>1, <2>2, OneCaller
<1>. QED  BY <1>1, <1>5, <1>6, <1>7, <1>8, <1>9 DEF Proceed

\* The process has read how its update ended and goes on.
LEMMA GoOnInv ==
    ASSUME CallersInv, NEW p \in Procs, Resume(p) \/ GiveUp(p)
    PROVE  CallersInv'
<1>1. Consume(p) /\ UNCHANGED <<files, now, call, crashed, mine>>
  BY DEF Resume, GiveUp, files
<1>2. StoreNext
  BY <1>1 DEF StoreNext
<1>3. outcome[p] # "none" /\ pc[p] \in Asking /\ mine[p] \in Jobs /\ call[p].step = "idle"
  BY <1>1, AskType DEF Consume, CallersInv, CallerOK
<1>4. PICK l \in Pcs \ {"off"} : pc' = [pc EXCEPT ![p] = l]
  BY <1>3, AskType DEF Resume, GiveUp, Goto
<1>5. /\ outcome'[p] = "none"
      /\ \A q \in Procs \ {p} : outcome'[q] = outcome[q] /\ pc'[q] = pc[q]
  BY <1>1, <1>4 DEF Consume, CallersInv, StoreInv, StoreTypeOK, CallerTypes
<1>6. CallerOK(p)'
  BY <1>1, <1>3, <1>5 DEF CallerOK
<1>7. \A j \in cancelled' \ cancelled : j = mine[p] /\ AskOf[pc[p]] = "cancel" /\ outcome[p] = "ok"
  BY DEF Resume, GiveUp, history
<1>8. ASSUME NEW j \in cancelled' \ cancelled PROVE Stopping(j)'
  <2>1. j = mine[p] /\ Stopping(j) /\ j \in Jobs
    BY <1>3, <1>7 DEF CallersInv, CallerOK
  <2>. QED  BY <2>1, <1>2, StoppingStays DEF CallersInv
<1>9. CallerTypes'
  BY <1>1, <1>3, <1>4, <1>7 DEF CallersInv, CallerTypes
<1>. QED  BY <1>1, <1>2, <1>5, <1>6, <1>8, <1>9, OneCaller

\* Processes that start, and new jobs.
LEMMA StartInv ==
    ASSUME CallersInv, NEW p \in Procs, NEW j \in Jobs,
           CreateJob(p, j) \/ StartWorker(p, j) \/ StartCancel(p, j) \/ Promote(p, j)
    PROVE  CallersInv'
<1>1. [StoreNext]_store /\ call' = call /\ outcome' = outcome /\ cancelled' = cancelled
  <2>1. [run |-> 0, repeat |-> FALSE] \in Schedules
    BY DEF Schedules
  <2>2. ASSUME NEW s \in Schedules, Create(p, j, s) PROVE StoreNext
    BY <2>2 DEF StoreNext
  <2>. QED  BY <2>1, <2>2 DEF CreateJob, StartWorker, StartCancel, Promote, Create, store, history
<1>2. pc[p] = "off"
  BY DEF CreateJob, StartWorker, StartCancel, Promote, Live
<1>3. call[p].step = "idle" /\ outcome[p] = "none"
  BY <1>2, AskType DEF CallersInv, CallerOK
<1>4. \/ pc' = pc /\ mine' = mine
      \/ \E l \in Pcs \ {"off"} : /\ pc' = [pc EXCEPT ![p] = l]
                                 /\ mine' = [mine EXCEPT ![p] = j]
  BY DEF CreateJob, StartWorker, StartCancel, Promote, Become, Goto, Pcs, Asking, AskOf
<1>5. CallerTypes' /\ CallerOK(p)'
  BY <1>1, <1>2, <1>3, <1>4 DEF CallersInv, CallerTypes, CallerOK
<1>6. \A q \in Procs \ {p} : pc'[q] = pc[q] /\ mine'[q] = mine[q]
  BY <1>4 DEF CallersInv, CallerTypes
<1>. QED  BY <1>1, <1>5, <1>6, OneCaller

\* The work between updates.
LEMMA WorkInv ==
    ASSUME CallersInv, NEW p \in Procs,
           Prepare(p) \/ Notice(p) \/ Interrupt(p) \/ TurnSucceeds(p) \/ TurnFails(p)
    PROVE  CallersInv'
<1>1. UNCHANGED store /\ call' = call /\ outcome' = outcome /\ cancelled' = cancelled
      /\ mine' = mine
  BY DEF Prepare, Notice, Interrupt, TurnSucceeds, TurnFails, store, history
<1>2. pc[p] \in {"prepare", "working", "carrying"}
  BY DEF Prepare, Notice, Interrupt, TurnSucceeds, TurnFails, Live
<1>3. call[p].step = "idle" /\ outcome[p] = "none" /\ mine[p] \in Jobs
  BY <1>2, AskType DEF CallersInv, CallerOK
<1>4. \/ pc' = pc
      \/ \E l \in Pcs \ {"off"} : pc' = [pc EXCEPT ![p] = l]
  BY DEF Prepare, Notice, Interrupt, TurnSucceeds, TurnFails, Goto, Pcs, Asking, AskOf
<1>5. CallerTypes' /\ CallerOK(p)'
  BY <1>1, <1>2, <1>3, <1>4 DEF CallersInv, CallerTypes, CallerOK
<1>6. \A q \in Procs \ {p} : pc'[q] = pc[q]
  BY <1>4 DEF CallersInv, CallerTypes
<1>. QED  BY <1>1, <1>5, <1>6, OneCaller

\* Every step of the callers preserves the invariant.
LEMMA CallersStep == CallersInv /\ [Next]_vars => CallersInv'
<1>. SUFFICES ASSUME CallersInv, [Next]_vars PROVE CallersInv'
  OBVIOUS
<1>1. ASSUME NEW p \in Procs, Die(p) PROVE CallersInv'
  <2>1. /\ StoreNext /\ pc' = pc /\ mine' = mine /\ outcome' = outcome
        /\ cancelled' = cancelled
    BY <1>1 DEF Die, Crash, StoreNext, history
  <2>2. call'[p].step = "idle" /\ \A q \in Procs \ {p} : call'[q] = call[q]
    BY <1>1 DEF Die, Crash, Idle, CallersInv, StoreInv, StoreTypeOK
  <2>3. CallerOK(p)' /\ CallerTypes'
    <3>1. pc[p] \in Asking /\ AskOf[pc[p]] = "cancel" /\ outcome[p] = "ok" => Stopping(mine[p])'
      <4>. SUFFICES ASSUME pc[p] \in Asking, AskOf[pc[p]] = "cancel", outcome[p] = "ok",
                           NEW j, j = mine[p]
                    PROVE  Stopping(j)'
        BY <2>1 DEF Stopping
      <4>1. j \in Jobs /\ Stopping(j)
        BY AskType DEF CallersInv, CallerOK
      <4>. QED  BY <2>1, <4>1, StoppingStays DEF CallersInv
    <3>. QED  BY <2>1, <2>2, <3>1 DEF CallersInv, CallerOK, CallerTypes, Stopping
  <2>. QED  BY <2>1, <2>2, <2>3, OneCaller
<1>2. ASSUME [StoreNext]_store, UNCHANGED <<pc, mine, call, outcome, cancelled>>
      PROVE  CallersInv'
  <2>1. StoreInv'
    BY <1>2, StoreStep DEF CallersInv
  <2>2. ASSUME NEW j \in Jobs, Stopping(j) PROVE Stopping(j)'
    BY <1>2, <2>2, StoppingStays DEF CallersInv
  <2>3. ASSUME NEW q \in Procs PROVE CallerOK(q)'
    <3>1. CallerOK(q)
      BY DEF CallersInv
    <3>2. mine[q] \in Jobs /\ Stopping(mine[q]) => Stopping(mine[q])'
      <4>. SUFFICES ASSUME NEW j \in Jobs, j = mine[q], Stopping(j) PROVE Stopping(j)'
        BY <1>2 DEF Stopping
      <4>. QED  BY <2>2
    <3>3. pc[q] \in Asking => pc[q] # "off"
      BY AskType
    <3>. QED  BY <1>2, <3>1, <3>2, <3>3 DEF CallerOK, Stopping
  <2>. QED  BY <1>2, <2>1, <2>2, <2>3 DEF CallersInv, CallerTypes
<1>3. ASSUME NEW j \in Jobs, Tick(j) PROVE CallersInv'
  BY <1>2, <1>3 DEF Tick, Due, StoreNext, history
<1>4. CASE UNCHANGED vars
  BY <1>2, <1>4 DEF vars, store, history
<1>. QED  BY <1>1, <1>3, <1>4, AskInv, UpdateInv, GoOnInv, StartInv, WorkInv DEF Next, Step

\* The types of the callers and the invariant of their updates, for any number
\* of jobs, processes and runs.
THEOREM CallersInvariance == Spec => []CallersInv
<1>. QED  BY CallersStart, CallersStep, PTL DEF Spec

\* A cancel call that was accepted is never undone by a finish, a claim or a
\* requeue.
THEOREM CancellationSticks == Spec => []CancelSticks
<1>1. CallersInv => CancelSticks
  BY DEF CallersInv, CancelSticks, Stopping
<1>. QED  BY <1>1, CallersInvariance, PTL

\* Workers, promoting sessions and users use the ledger by its own steps only.
LEMMA CallersUseTheLedger == CallersInv /\ [Next]_vars => [StoreNext]_store
<1>. SUFFICES ASSUME CallersInv, [Next]_vars PROVE StoreNext \/ UNCHANGED store
  OBVIOUS
<1>1. ASSUME NEW p \in Procs, Ask(p) PROVE StoreNext
  <2>1. AskOf[pc[p]] \in Asks /\ mine[p] \in Jobs
    BY <1>1, AskType DEF Ask, CallersInv, CallerOK
  <2>. QED  BY <1>1, <2>1 DEF Ask, StoreNext
<1>2. ASSUME NEW p \in Procs, Update(p) PROVE StoreNext
  BY <1>2 DEF Update, StoreNext
<1>3. ASSUME NEW p \in Procs, Resume(p) \/ GiveUp(p) PROVE StoreNext
  BY <1>3 DEF Resume, GiveUp, StoreNext, files
<1>4. ASSUME NEW p \in Procs,
             Prepare(p) \/ Notice(p) \/ Interrupt(p) \/ TurnSucceeds(p) \/ TurnFails(p)
      PROVE  UNCHANGED store
  BY <1>4 DEF Prepare, Notice, Interrupt, TurnSucceeds, TurnFails
<1>5. ASSUME NEW p \in Procs, NEW j \in Jobs,
             CreateJob(p, j) \/ StartWorker(p, j) \/ StartCancel(p, j) \/ Promote(p, j)
      PROVE  StoreNext \/ UNCHANGED store
  <2>1. [run |-> 0, repeat |-> FALSE] \in Schedules
    BY DEF Schedules
  <2>2. ASSUME NEW s \in Schedules, Create(p, j, s) PROVE StoreNext
    BY <2>2 DEF StoreNext
  <2>. QED  BY <1>5, <2>1, <2>2 DEF CreateJob, StartWorker, StartCancel, Promote
<1>. QED  BY <1>1, <1>2, <1>3, <1>4, <1>5 DEF Next, Step, Die, Tick, StoreNext, vars

\* However workers, ticks, promotions and cancels interleave and crash, each
\* job goes through the job lifecycle.
THEOREM CallersImplementLifecycle == Spec => ImplementsLifecycle
<1>1. Init => Lifecycle!Init
  BY DEF Init, StoreInit, Lifecycle!Init, Ledger
<1>2. CallersInv /\ [Next]_vars => [Lifecycle!Next]_Ledger
  BY CallersUseTheLedger, StepRefines DEF CallersInv
<1>. QED  BY <1>1, <1>2, CallersInvariance, PTL
          DEF Spec, ImplementsLifecycle, Lifecycle!Spec

----------------------------------------------------------------------------
(* A manifest is missing inside the swap, or where somebody died in it or  *)
(* both of its renames failed.  The job before the update and the job      *)
(* after it are both there, and no update starts from neither.             *)

HalfSwapped(j) == backup[j] # NoJob /\ manifest[j] = NoJob

\* A definition and an update of it.
Successive(d, u) == \E p \in Procs, a \in Asks : Permits(d, a) /\ u = Updated(p, d, a)

BothKept(j) == Successive(backup[j], temp[j])

\* Nobody has got past the lock of the job but to swap its files.
OnlySwapped(j) ==
    \A p \in Procs :
        call[p].step # "idle" /\ call[p].job = j => call[p].step \in {"locked", "swapped"}

SwapInv ==
    /\ \A p \in crashed : call[p].step = "idle"
    /\ \A j \in Jobs : HalfSwapped(j) => BothKept(j) /\ OnlySwapped(j)

\* A step of a process inside an update of job j, or starting one.
LEMMA SwapFrame ==
    ASSUME StoreInv, SwapInv, NEW p \in Procs \ crashed, NEW j \in Jobs,
           crashed' = crashed,
           call'[p].step = "idle" \/ call'[p].job = j,
           \A q \in Procs \ {p} : call'[q] = call[q],
           \A k \in Jobs \ {j} : /\ manifest'[k] = manifest[k] /\ backup'[k] = backup[k]
                                 /\ temp'[k] = temp[k],
           HalfSwapped(j)' => BothKept(j)' /\ OnlySwapped(j)'
    PROVE  SwapInv'
<1>1. ASSUME NEW q \in crashed PROVE call'[q].step = "idle"
  BY DEF SwapInv, StoreInv, StoreTypeOK
<1>2. ASSUME NEW k \in Jobs \ {j}, HalfSwapped(k)'
      PROVE  BothKept(k)' /\ OnlySwapped(k)'
  <2>1. BothKept(k) /\ OnlySwapped(k)
    BY <1>2 DEF SwapInv, HalfSwapped
  <2>2. BothKept(k)'
    BY <2>1 DEF BothKept
  <2>3. OnlySwapped(k)'
    BY <2>1 DEF OnlySwapped
  <2>. QED  BY <2>2, <2>3
<1>. QED  BY <1>1, <1>2 DEF SwapInv

\* Another process inside an update works on another job.
LEMMA Alone ==
    ASSUME StoreInv, NEW p \in Procs, NEW q \in Procs \ {p},
           call[p].step # "idle", call[q].step # "idle"
    PROVE  call[q].job # call[p].job
BY Holding

\* The steps of an update at one job.
LEMMA SwapProceed ==
    ASSUME StoreInv, SwapInv, NEW p \in Procs, Proceed(p)
    PROVE  SwapInv'
<1>1. call[p].step # "idle" /\ crashed' = crashed
  BY DEF Proceed, Refuse, Write, WriteFails, SwapOut, SwapOutFails, SwapIn, SwapInFails,
         Discard, DiscardFails, Unlock, At
<1>2. PICK j \in Jobs : j = call[p].job /\ p \notin crashed
  BY <1>1, Holding DEF SwapInv
<1>3. \A k \in Jobs \ {j} : /\ manifest'[k] = manifest[k] /\ backup'[k] = backup[k]
                            /\ temp'[k] = temp[k]
  BY <1>2 DEF Proceed, Refuse, Write, WriteFails, SwapOut, SwapOutFails, SwapIn, SwapInFails,
              Discard, DiscardFails, Unlock, StoreInv, StoreTypeOK
<1>4. \A q \in Procs \ {p} : call'[q] = call[q]
  BY DEF Proceed, Refuse, Write, WriteFails, SwapOut, SwapOutFails, SwapIn, SwapInFails,
         Discard, DiscardFails, Unlock, Move, Return, StoreInv, StoreTypeOK
<1>5. call'[p].step = "idle" \/ call'[p].job = j
  BY <1>2 DEF Proceed, Refuse, Write, WriteFails, SwapOut, SwapOutFails, SwapIn, SwapInFails,
              Discard, DiscardFails, Unlock, Move, Return, Idle, StoreInv, StoreTypeOK
\* Only p is inside an update of j.
<1>6. call'[p].step \in {"idle", "swapped"} => OnlySwapped(j)'
  <2>. SUFFICES ASSUME call'[p].step \in {"idle", "swapped"}, NEW q \in Procs,
                       call'[q].step # "idle", call'[q].job = j
                PROVE  call'[q].step \in {"locked", "swapped"}
    BY DEF OnlySwapped
  <2>. QED  BY <1>1, <1>2, <1>4, Alone
<1>7. HalfSwapped(j)' => BothKept(j)' /\ OnlySwapped(j)'
  <2>1. CASE Write(p) \/ WriteFails(p)
    <3>1. manifest'[j] = manifest[j] /\ manifest[j] # NoJob
      BY <1>2, <2>1 DEF Write, WriteFails, Accepted
    <3>. QED  BY <3>1 DEF HalfSwapped
  <2>2. CASE Refuse(p)
    <3>1. call'[p].step = "idle" /\ UNCHANGED <<manifest, backup, temp>>
      BY <2>2, Returned DEF Refuse, StoreInv
    <3>2. HalfSwapped(j)' => BothKept(j)'
      BY <3>1 DEF SwapInv, HalfSwapped, BothKept
    <3>. QED  BY <1>6, <3>1, <3>2
  <2>3. CASE SwapOutFails(p) \/ DiscardFails(p) \/ Unlock(p)
    <3>1. /\ call[p].step \in {"written", "installed", "cleaned"}
          /\ manifest' = manifest /\ backup' = backup
      BY <2>3 DEF SwapOutFails, DiscardFails, Unlock, At
    <3>2. ~OnlySwapped(j)
      BY <1>2, <3>1 DEF OnlySwapped
    <3>. QED  BY <3>1, <3>2 DEF SwapInv, HalfSwapped
  <2>4. CASE SwapOut(p)
    <3>1. /\ call[p].ask \in Asks /\ Permits(manifest[j], call[p].ask)
          /\ temp[j] = Updated(p, manifest[j], call[p].ask)
      BY <1>2, <2>4 DEF SwapOut, At, StoreInv, UpdateOK
    <3>2. backup'[j] = manifest[j] /\ temp' = temp /\ call'[p].step = "swapped"
      BY <1>2, <2>4, Moved DEF SwapOut, StoreInv, StoreTypeOK, Steps
    <3>3. Successive(manifest[j], temp[j])
      BY <3>1 DEF Successive
    <3>. QED  BY <1>6, <3>2, <3>3 DEF BothKept
  <2>5. CASE SwapIn(p)
    <3>1. temp[j] \in Definition
      BY <1>2, <2>5, UpdatedType DEF SwapIn, At, StoreInv, UpdateOK
    <3>2. manifest'[j] = temp[j]
      BY <1>2, <2>5 DEF SwapIn, StoreInv, StoreTypeOK
    <3>. QED  BY <3>1, <3>2, NoJobAssumption DEF HalfSwapped
  <2>6. CASE SwapInFails(p)
    <3>1. /\ call[p].ask \in Asks /\ Permits(backup[j], call[p].ask)
          /\ temp[j] = Updated(p, backup[j], call[p].ask)
      BY <1>2, <2>6 DEF SwapInFails, At, StoreInv, UpdateOK
    <3>2. temp' = temp /\ call'[p].step = "idle" /\ (backup'[j] = NoJob \/ backup' = backup)
      BY <1>2, <2>6, Returned DEF SwapInFails, StoreInv, StoreTypeOK
    <3>3. Successive(backup[j], temp[j])
      BY <3>1 DEF Successive
    <3>. QED  BY <1>6, <3>2, <3>3 DEF HalfSwapped, BothKept
  <2>7. CASE Discard(p)
    <3>1. backup'[j] = NoJob
      BY <1>2, <2>7 DEF Discard, StoreInv, StoreTypeOK
    <3>. QED  BY <3>1 DEF HalfSwapped
  <2>. QED  BY <2>1, <2>2, <2>3, <2>4, <2>5, <2>6, <2>7 DEF Proceed
<1>. QED  BY <1>1, <1>2, <1>3, <1>4, <1>5, <1>7, SwapFrame

\* A step that changes no file of a job and starts no update past its lock.
LEMMA SwapQuiet ==
    ASSUME SwapInv, UNCHANGED <<manifest, backup, temp>>,
           \A p \in crashed' : call'[p].step = "idle",
           \A p \in Procs : call'[p].step \in {"idle", "locked"} \/ call'[p] = call[p]
    PROVE  SwapInv'
<1>1. ASSUME NEW j \in Jobs, HalfSwapped(j)' PROVE BothKept(j)' /\ OnlySwapped(j)'
  <2>1. BothKept(j) /\ OnlySwapped(j)
    BY <1>1 DEF SwapInv, HalfSwapped
  <2>2. BothKept(j)'
    BY <2>1 DEF BothKept
  <2>3. OnlySwapped(j)'
    BY <2>1 DEF OnlySwapped
  <2>. QED  BY <2>2, <2>3
<1>. QED  BY <1>1 DEF SwapInv

\* Every step of the ledger keeps it.
LEMMA SwapStep == StoreInv /\ SwapInv /\ [StoreNext]_store => SwapInv'
<1>. SUFFICES ASSUME StoreInv, SwapInv, [StoreNext]_store PROVE SwapInv'
  OBVIOUS
<1>1. ASSUME NEW p \in Procs, NEW j \in Jobs, NEW s \in Schedules, Create(p, j, s)
      PROVE  SwapInv'
  <2>1. p \notin crashed /\ call[p].step = "idle"
    BY <1>1 DEF Create, Free, Idle
  <2>2. Fresh(s) # NoJob
    BY FreshType, NoJobAssumption
  <2>3. manifest'[j] # NoJob /\ \A k \in Jobs \ {j} : manifest'[k] = manifest[k]
    BY <1>1, <2>2 DEF Create, StoreInv, StoreTypeOK
  <2>. QED  BY <1>1, <2>1, <2>3, SwapFrame DEF Create, HalfSwapped
<1>2. ASSUME NEW p \in Procs, NEW j \in Jobs, NEW a \in Asks, Acquire(p, j, a)
      PROVE  SwapInv'
  <2>1. /\ p \notin crashed /\ call'[p].step = "locked" /\ crashed' = crashed
        /\ \A q \in Procs \ {p} : call'[q] = call[q]
        /\ UNCHANGED <<manifest, backup, temp>>
    BY <1>2 DEF Acquire, Free, StoreInv, StoreTypeOK
  <2>2. \A q \in crashed' : call'[q].step = "idle"
    BY <2>1 DEF SwapInv, StoreInv, StoreTypeOK
  <2>. QED  BY <2>1, <2>2, SwapQuiet
<1>3. ASSUME NEW p \in Procs, Crash(p) PROVE SwapInv'
  <2>1. /\ crashed' = crashed \cup {p} /\ call'[p].step = "idle"
        /\ \A q \in Procs \ {p} : call'[q] = call[q]
        /\ UNCHANGED <<manifest, backup, temp>>
    BY <1>3 DEF Crash, files, Idle, StoreInv, StoreTypeOK
  <2>2. \A q \in crashed' : call'[q].step = "idle"
    BY <2>1 DEF SwapInv, StoreInv, StoreTypeOK
  <2>. QED  BY <2>1, <2>2, SwapQuiet
<1>4. CASE UNCHANGED <<files, call, crashed>>
  <2>1. \A q \in crashed' : call'[q].step = "idle"
    BY <1>4 DEF SwapInv
  <2>. QED  BY <1>4, <2>1, SwapQuiet DEF files
<1>. QED  BY <1>1, <1>2, <1>3, <1>4, SwapProceed DEF StoreNext, Busy, Consume, Due, store

\* The lock file serialises updates (JobLock::acquire, write_definition): whoever
\* is inside an update holds it; and where a manifest is missing, after a death or
\* failing renames too, the job before the update and after it are both kept.
THEOREM UpdatesExclude == Spec => []ExclusiveUpdate
<1>1. Init => SwapInv
  BY DEF Init, StoreInit, SwapInv, Idle, HalfSwapped
<1>2. CallersInv /\ SwapInv /\ [Next]_vars => SwapInv'
  BY CallersUseTheLedger, SwapStep DEF CallersInv
<1>3. CallersInv /\ SwapInv => ExclusiveUpdate
  BY Holding DEF CallersInv, ExclusiveUpdate, SwapInv, HalfSwapped, BothKept, Successive,
                 OnlySwapped
<1>. QED  BY <1>1, <1>2, <1>3, CallersInvariance, PTL DEF Spec

----------------------------------------------------------------------------
(* Who has a run of a job in its hands.  A claim is in the ledger from the *)
(* rename that installs it, and the claimer may still be inside the update *)
(* or not have read its outcome; a finish is over from its rename on, and  *)
(* when it failed, which it may after its rename.                          *)

Landed(p) == call[p].step \in {"installed", "cleaned"} \/ outcome[p] = "ok"
Claiming == {"claim", "adopt"}

Holder(p) ==
    /\ p \notin crashed
    /\ \/ pc[p] \in {"prepare", "attach", "join", "working", "carrying", "interrupt"}
       \/ pc[p] \in {"succeed", "fail"} /\ ~Landed(p) /\ outcome[p] # "refused"
       \/ pc[p] \in Claiming /\ Landed(p)

\* The job's current run is under way; it is the holder's, or about to be.
HolderOK(p) ==
    LET j == mine[p] IN
    /\ j \in Jobs /\ Ledger[j] # NoJob /\ Ledger[j].state \in {"running", "cancelling"}
    /\ pc[p] \notin Claiming => Run(p) \in claims
    /\ pc[p] \in Claiming => \A c \in claims : c.job = j => c.run # Ledger[j].run

\* A claim is of the job's current run or an earlier one, and a run that was
\* claimed is never waited for again.
ClaimOK(c) ==
    /\ c.job \in Jobs /\ c.run \in Nat /\ Ledger[c.job] # NoJob
    /\ c.run <= Ledger[c.job].run
    /\ c.run = Ledger[c.job].run => Ledger[c.job].state # "queued"

RunInv ==
    /\ \A p \in Procs : Holder(p) => HolderOK(p)
    /\ \A p, q \in Procs : Holder(p) /\ Holder(q) /\ mine[p] = mine[q] => p = q
    /\ \A c \in claims : ClaimOK(c)
    /\ OneRunner
    /\ SessionOfThisRun

\* A step that changes no job and claims nothing, and after which only those
\* hold a run who did before.
LEMMA HoldersRemain ==
    ASSUME RunInv, Ledger' = Ledger, claims' = claims,
           \A q \in Procs : Holder(q)' =>
               Holder(q) /\ mine'[q] = mine[q] /\ (pc'[q] \in Claiming <=> pc[q] \in Claiming)
    PROVE  RunInv'
<1>1. ASSUME NEW q \in Procs, Holder(q)' PROVE HolderOK(q)'
  BY <1>1 DEF RunInv, HolderOK, Run
<1>2. \A q, r \in Procs : Holder(q)' /\ Holder(r)' /\ mine'[q] = mine'[r] => q = r
  BY DEF RunInv
<1>3. \A c \in claims' : ClaimOK(c)'
  BY DEF RunInv, ClaimOK
<1>4. OneRunner' /\ SessionOfThisRun'
  BY DEF RunInv, OneRunner, SessionOfThisRun
<1>. QED  BY <1>1, <1>2, <1>3, <1>4 DEF RunInv

\* The same for a step of one process.
LEMMA HolderRemains ==
    ASSUME RunInv, Ledger' = Ledger, claims' = claims, NEW p \in Procs,
           crashed \subseteq crashed',
           \A q \in Procs \ {p} : /\ pc'[q] = pc[q] /\ mine'[q] = mine[q]
                                 /\ call'[q] = call[q] /\ outcome'[q] = outcome[q],
           Holder(p)' => Holder(p) /\ mine'[p] = mine[p]
                         /\ (pc'[p] \in Claiming <=> pc[p] \in Claiming)
    PROVE  RunInv'
<1>1. ASSUME NEW q \in Procs \ {p}, Holder(q)' PROVE Holder(q)
  BY <1>1 DEF Holder, Landed
<1>. QED  BY <1>1, HoldersRemain

\* A process is inside an update exactly when its program asked for one.
LEMMA Quiet ==
    ASSUME CallersInv, NEW p \in Procs, pc[p] \notin Asking
    PROVE  call[p].step = "idle" /\ outcome[p] = "none"
BY DEF CallersInv, CallerOK, StoreInv, StoreTypeOK

----------------------------------------------------------------------------
(* Each step. *)

LEMMA AskRuns ==
    ASSUME CallersInv, RunInv, NEW p \in Procs, Ask(p)
    PROVE  RunInv'
<1>1. /\ pc' = pc /\ mine' = mine /\ claims' = claims /\ outcome[p] = "none"
      /\ manifest' = manifest /\ backup' = backup /\ crashed' = crashed
      /\ call[p].step = "idle"
  BY DEF Ask, history, Acquire, Busy, files, Free, Idle
<1>2. Ledger' = Ledger
  BY <1>1 DEF Ledger
<1>3. CASE Acquire(p, mine[p], AskOf[pc[p]])
  <2>1. /\ call'[p].step = "locked" /\ outcome' = outcome
        /\ \A q \in Procs \ {p} : call'[q] = call[q]
    BY <1>3 DEF Acquire, CallersInv, StoreInv, StoreTypeOK
  <2>2. ~Landed(p) /\ ~Landed(p)'
    BY <1>1, <2>1 DEF Landed
  <2>3. Holder(p)' => Holder(p)
    BY <1>1, <2>2 DEF Holder
  <2>. QED  BY <1>1, <1>2, <2>1, <2>3, HolderRemains
<1>4. CASE Busy(p, mine[p])
  <2>1. /\ outcome'[p] = "refused" /\ call' = call
        /\ \A q \in Procs \ {p} : outcome'[q] = outcome[q]
    BY <1>4 DEF Busy, CallersInv, StoreInv, StoreTypeOK
  <2>2. ~Landed(p) /\ ~Landed(p)'
    BY <1>1, <2>1 DEF Landed
  <2>3. Holder(p)' => Holder(p)
    BY <1>1, <2>2 DEF Holder
  <2>. QED  BY <1>1, <1>2, <2>1, <2>3, HolderRemains
<1>. QED  BY <1>3, <1>4 DEF Ask

\* The steps of an update but the rename that installs the manifest.
LEMMA UpdateRuns ==
    ASSUME CallersInv, RunInv, NEW p \in Procs, Update(p), ~SwapIn(p)
    PROVE  RunInv'
<1>1. pc' = pc /\ mine' = mine /\ claims' = claims
  BY DEF Update, history
<1>2. /\ call[p].step # "idle" /\ outcome[p] = "none" /\ crashed' = crashed
  <2>1. call[p].step # "idle" /\ crashed' = crashed
    BY DEF Update, Proceed, Refuse, Write, WriteFails, SwapOut, SwapOutFails, SwapIn, SwapInFails,
           Discard, DiscardFails, Unlock, At
  <2>. QED  BY <2>1 DEF CallersInv, CallerOK
<1>3. Ledger' = Ledger
  <2>1. CASE SwapOut(p) \/ SwapInFails(p) \/ Discard(p)
    BY <2>1, SwapOutStutters DEF CallersInv
  <2>2. CASE \/ Refuse(p) \/ Write(p) \/ WriteFails(p)
             \/ SwapOutFails(p) \/ DiscardFails(p) \/ Unlock(p)
    BY <2>2 DEF Refuse, Write, WriteFails, SwapOutFails, DiscardFails, Unlock, Ledger
  <2>. QED  BY <2>1, <2>2 DEF Update, Proceed
<1>4. \A q \in Procs \ {p} : call'[q] = call[q] /\ outcome'[q] = outcome[q]
  BY DEF Update, Proceed, Refuse, Write, WriteFails, SwapOut, SwapOutFails, SwapIn, SwapInFails,
         Discard, DiscardFails, Unlock, Move, Return, CallersInv, StoreInv, StoreTypeOK
<1>5. (Landed(p)' <=> Landed(p)) \/ (~Landed(p)' /\ outcome'[p] = "refused")
  <2>1. CASE \/ Refuse(p) \/ WriteFails(p)
             \/ SwapOutFails(p) \/ SwapInFails(p) \/ DiscardFails(p)
    <3>0. Return(p, "refused")
      BY <2>1 DEF Refuse, WriteFails, SwapOutFails, SwapInFails, DiscardFails
    <3>1. call'[p].step = "idle" /\ outcome'[p] = "refused"
      BY <3>0, Returned DEF Return, CallersInv, StoreInv, StoreTypeOK
    <3>. QED  BY <3>1 DEF Landed
  <2>2. CASE Write(p) \/ SwapOut(p)
    <3>1. /\ call'[p].step \in {"written", "swapped"} /\ outcome' = outcome
          /\ call[p].step \in {"locked", "written"}
      BY <2>2, Moved DEF Write, SwapOut, At, CallersInv, StoreInv, Steps
    <3>. QED  BY <1>2, <3>1 DEF Landed
  <2>3. CASE Discard(p)
    <3>1. call'[p].step = "cleaned" /\ call[p].step = "installed"
      BY <2>3, Moved DEF Discard, At, CallersInv, StoreInv, Steps
    <3>. QED  BY <3>1 DEF Landed
  <2>4. CASE Unlock(p)
    <3>1. outcome'[p] = "ok" /\ call[p].step = "cleaned"
      BY <2>4 DEF Unlock, Return, At, CallersInv, StoreInv, StoreTypeOK
    <3>. QED  BY <3>1 DEF Landed
  <2>. QED  BY <2>1, <2>2, <2>3, <2>4 DEF Update, Proceed
<1>6. Holder(p)' => Holder(p)
  BY <1>1, <1>2, <1>5 DEF Holder
<1>. QED  BY <1>1, <1>2, <1>3, <1>4, <1>6, HolderRemains

LEMMA GiveUpRuns ==
    ASSUME CallersInv, RunInv, NEW p \in Procs, GiveUp(p)
    PROVE  RunInv'
<1>1. /\ mine' = mine /\ claims' = claims /\ call' = call /\ crashed' = crashed
      /\ Ledger' = Ledger /\ outcome[p] = "refused" /\ pc[p] \in Asking
  BY DEF GiveUp, history, Ledger, CallersInv, CallerOK
<1>2. call[p].step = "idle"
  BY <1>1 DEF CallersInv, CallerOK
<1>3. /\ outcome'[p] = "none" /\ pc'[p] = AfterRefusal[pc[p]]
      /\ \A q \in Procs \ {p} : outcome'[q] = outcome[q] /\ pc'[q] = pc[q]
  BY DEF GiveUp, Consume, Goto, CallersInv, CallerTypes, StoreInv, StoreTypeOK
<1>4. ~Landed(p) /\ ~Landed(p)'
  BY <1>1, <1>2, <1>3 DEF Landed
<1>5. \/ pc'[p] \in {"done", "withdraw"}
      \/ pc'[p] = "fail" /\ pc[p] \in {"attach", "join"}
  BY <1>1, <1>3 DEF AfterRefusal, Asking, AskOf
<1>6. Holder(p)' => Holder(p) /\ pc[p] \notin Claiming /\ pc'[p] \notin Claiming
  BY <1>1, <1>4, <1>5 DEF Holder, Claiming
<1>. QED  BY <1>1, <1>3, <1>6, HolderRemains

LEMMA WorkRuns ==
    ASSUME CallersInv, RunInv, NEW p \in Procs,
           \/ Prepare(p) \/ Notice(p) \/ Interrupt(p) \/ TurnSucceeds(p) \/ TurnFails(p)
           \/ \E j \in Jobs : StartWorker(p, j) \/ StartCancel(p, j)
    PROVE  RunInv'
<1>1. /\ claims' = claims /\ call' = call /\ outcome' = outcome /\ crashed' = crashed
      /\ Ledger' = Ledger
  BY DEF Prepare, Notice, Interrupt, TurnSucceeds, TurnFails, StartWorker, StartCancel,
         store, files, history, Ledger
<1>2. /\ pc[p] \in {"off", "prepare", "working", "carrying"} /\ p \notin crashed
      /\ pc[p] \notin Asking /\ pc[p] \notin Claiming
  BY DEF Prepare, Notice, Interrupt, TurnSucceeds, TurnFails, StartWorker, StartCancel,
         Live, Asking, AskOf, Claiming
<1>3. call[p].step = "idle" /\ outcome[p] = "none"
  BY <1>2, Quiet
<1>4. ~Landed(p) /\ ~Landed(p)'
  BY <1>1, <1>3 DEF Landed
<1>5. CASE pc[p] = "off"
  <2>1. PICK j \in Jobs : StartWorker(p, j) \/ StartCancel(p, j)
    BY <1>5 DEF Prepare, Notice, Interrupt, TurnSucceeds, TurnFails, Live
  <2>2. /\ pc'[p] \in {"claim", "cancel"}
        /\ \A q \in Procs \ {p} : pc'[q] = pc[q] /\ mine'[q] = mine[q]
    BY <2>1 DEF StartWorker, StartCancel, Become, Goto, CallersInv, CallerTypes
  <2>3. ~Holder(p)'
    BY <1>4, <2>2 DEF Holder
  <2>. QED  BY <1>1, <2>2, <2>3, HolderRemains
<1>6. CASE pc[p] # "off"
  <2>1. Holder(p)
    BY <1>2, <1>6 DEF Holder
  <2>2. /\ mine' = mine /\ pc'[p] \in {"prepare", "working", "carrying", "attach", "fail",
                                        "succeed", "interrupt", "done"}
        /\ \A q \in Procs \ {p} : pc'[q] = pc[q]
    BY <1>2, <1>6 DEF Prepare, Notice, Interrupt, TurnSucceeds, TurnFails, StartWorker,
       StartCancel, Live, Goto, CallersInv, CallerTypes
  <2>3. pc'[p] \notin Claiming
    BY <2>2 DEF Claiming
  <2>. QED  BY <1>1, <1>2, <2>1, <2>2, <2>3, HolderRemains
<1>. QED  BY <1>5, <1>6

LEMMA DieRuns ==
    ASSUME CallersInv, RunInv, NEW p \in Procs, Die(p)
    PROVE  RunInv'
<1>1. /\ claims' = claims /\ pc' = pc /\ mine' = mine /\ outcome' = outcome
      /\ crashed' = crashed \cup {p} /\ Ledger' = Ledger
      /\ \A q \in Procs \ {p} : call'[q] = call[q]
  BY DEF Die, Crash, history, files, Ledger, CallersInv, StoreInv, StoreTypeOK
<1>2. ~Holder(p)'
  BY <1>1 DEF Holder
<1>. QED  BY <1>1, <1>2, HolderRemains

\* A job that was not there before has no holder and no claim.
LEMMA CreateRuns ==
    ASSUME CallersInv, RunInv, NEW p \in Procs, NEW j \in Jobs,
           CreateJob(p, j) \/ Promote(p, j)
    PROVE  RunInv'
<1>1. PICK s \in Schedules : Create(p, j, s)
  BY DEF CreateJob, Promote, Schedules
<1>2. /\ claims' = claims /\ call' = call /\ outcome' = outcome /\ crashed' = crashed
      /\ pc[p] = "off"
  BY <1>1 DEF CreateJob, Promote, history, Create, Live
<1>3. PICK d \in Definition : d = Fresh(s)
  BY FreshType
<1>4. Ledger[j] = NoJob /\ Ledger'[j] = d /\ d.session = NoSession
      /\ \A k \in Jobs \ {j} : Ledger'[k] = Ledger[k]
  <2>1. Ledger[j] = NoJob
    BY <1>1 DEF Create, Exists, Ledger
  <2>2. manifest'[j] = d /\ backup' = backup
        /\ \A k \in Jobs \ {j} : manifest'[k] = manifest[k]
    BY <1>1, <1>3 DEF Create, CallersInv, StoreInv, StoreTypeOK
  <2>3. d # NoJob /\ d.session = NoSession
    BY <1>3, NoJobAssumption DEF Fresh
  <2>. QED  BY <2>1, <2>2, <2>3 DEF Ledger
<1>5. call[p].step = "idle" /\ outcome[p] = "none"
  BY <1>2, Quiet DEF Asking, AskOf
<1>6. pc'[p] \in {"off", "adopt"}
      /\ \A q \in Procs \ {p} : pc'[q] = pc[q] /\ mine'[q] = mine[q]
  BY <1>2 DEF CreateJob, Promote, Become, Goto, CallersInv, CallerTypes
<1>7. ~Holder(p)'
  BY <1>2, <1>5, <1>6 DEF Holder, Landed
<1>8. ASSUME NEW q \in Procs, Holder(q)'
      PROVE  /\ q # p /\ Holder(q) /\ pc'[q] = pc[q] /\ mine'[q] = mine[q]
             /\ Ledger'[mine[q]] = Ledger[mine[q]]
  <2>1. q # p
    BY <1>7, <1>8
  <2>2. Holder(q)
    BY <1>2, <1>6, <1>8, <2>1 DEF Holder, Landed
  <2>3. mine[q] \in Jobs /\ Ledger[mine[q]] # NoJob
    BY <2>2 DEF RunInv, HolderOK
  <2>. QED  BY <1>4, <1>6, <2>1, <2>2, <2>3
<1>9. ASSUME NEW q \in Procs, Holder(q)' PROVE HolderOK(q)'
  BY <1>2, <1>8, <1>9 DEF RunInv, HolderOK, Run
<1>10. \A q, r \in Procs : Holder(q)' /\ Holder(r)' /\ mine'[q] = mine'[r] => q = r
  BY <1>8 DEF RunInv
<1>11. ASSUME NEW c \in claims' PROVE ClaimOK(c)'
  <2>1. ClaimOK(c) /\ Ledger'[c.job] = Ledger[c.job]
    BY <1>2, <1>4, <1>11 DEF RunInv, ClaimOK
  <2>. QED  BY <2>1 DEF ClaimOK
<1>12. SessionOfThisRun'
  BY <1>2, <1>4 DEF RunInv, SessionOfThisRun
<1>. QED  BY <1>2, <1>9, <1>10, <1>11, <1>12 DEF RunInv, OneRunner

\* The process has read that its update succeeded; a claim is its own now.
LEMMA ResumeRuns ==
    ASSUME CallersInv, RunInv, NEW p \in Procs, Resume(p)
    PROVE  RunInv'
<1>1. /\ mine' = mine /\ call' = call /\ crashed' = crashed /\ p \notin crashed
      /\ Ledger' = Ledger /\ outcome[p] = "ok" /\ pc[p] \in Asking
      /\ claims' = IF AskOf[pc[p]] = "claim" THEN claims \cup {Run(p)} ELSE claims
  BY DEF Resume, Ledger, CallersInv, CallerOK
<1>2. call[p].step = "idle"
  BY <1>1 DEF CallersInv, CallerOK
<1>3. /\ outcome'[p] = "none" /\ pc'[p] = AfterOk[pc[p]]
      /\ \A q \in Procs \ {p} : outcome'[q] = outcome[q] /\ pc'[q] = pc[q]
  BY DEF Resume, Consume, Goto, CallersInv, CallerTypes, StoreInv, StoreTypeOK
<1>4. Landed(p) /\ ~Landed(p)'
  BY <1>1, <1>2, <1>3 DEF Landed
<1>5. CASE AskOf[pc[p]] # "claim"
  <2>1. pc[p] \notin Claiming
    BY <1>5 DEF Claiming, AskOf
  <2>2. \/ pc'[p] = "done"
        \/ pc'[p] \in {"working", "carrying", "fail"} /\ pc[p] \in {"attach", "join", "interrupt"}
    BY <1>1, <1>3, <2>1 DEF AfterOk, Asking, AskOf, Claiming
  <2>3. Holder(p)' => Holder(p) /\ pc'[p] \notin Claiming
    BY <1>1, <2>2 DEF Holder, Claiming
  <2>. QED  BY <1>1, <1>3, <1>5, <2>1, <2>3, HolderRemains
<1>6. CASE AskOf[pc[p]] = "claim"
  <2>1. pc[p] \in Claiming /\ pc'[p] \in {"prepare", "join"} /\ pc'[p] \notin Claiming
    BY <1>1, <1>3, <1>6 DEF AfterOk, Asking, AskOf, Claiming
  <2>2. Holder(p)
    BY <1>1, <1>4, <2>1 DEF Holder
  <2>3. PICK j \in Jobs : j = mine[p]
    BY <2>2 DEF RunInv, HolderOK
  <2>4. Ledger[j] \in Definition /\ Ledger[j] # NoJob
        /\ Ledger[j].state \in {"running", "cancelling"}
    BY <2>2, <2>3, LedgerType DEF RunInv, HolderOK, CallersInv, StoreInv
  <2> DEFINE r == [job |-> j, run |-> Ledger[j].run, by |-> p]
  <2>5. claims' = claims \cup {r} /\ Run(p) = r /\ Run(p)' = r
    BY <1>1, <1>6, <2>3 DEF Run
  <2>6. \A c \in claims : ~(c.job = r.job /\ c.run = r.run)
    BY <2>1, <2>2, <2>3 DEF RunInv, HolderOK
  <2> HIDE DEF r
  <2>7. r.job = j /\ r.run = Ledger[j].run /\ r.by = p
    BY DEF r
  <2>8. ASSUME NEW q \in Procs, Holder(q)' PROVE Holder(q) /\ pc'[q] \in {"prepare", "join"} \cup {pc[q]}
    BY <1>1, <1>3, <2>1, <2>2, <2>8 DEF Holder, Landed
  <2>9. ASSUME NEW q \in Procs, Holder(q)' PROVE HolderOK(q)'
    <3>1. CASE q = p
      BY <1>1, <2>1, <2>3, <2>4, <2>5, <3>1 DEF HolderOK
    <3>2. CASE q # p
      <4>1. Holder(q) /\ HolderOK(q) /\ mine[q] # j
        BY <2>2, <2>3, <2>8, <2>9, <3>2 DEF RunInv
      <4>2. pc'[q] = pc[q] /\ Run(q)' = Run(q)
        BY <1>1, <1>3, <3>2 DEF Run
      <4>. QED  BY <1>1, <2>5, <2>7, <4>1, <4>2 DEF HolderOK
    <3>. QED  BY <3>1, <3>2
  <2>10. \A q, s \in Procs : Holder(q)' /\ Holder(s)' /\ mine'[q] = mine'[s] => q = s
    BY <1>1, <2>8 DEF RunInv
  <2>11. ASSUME NEW c \in claims' PROVE ClaimOK(c)'
    <3>1. CASE c \in claims
      BY <1>1, <3>1 DEF RunInv, ClaimOK
    <3>2. CASE c = r
      <4>1. r.run \in Nat
        BY <2>4, <2>7 DEF Definition
      <4>. QED  BY <1>1, <2>4, <2>7, <3>2, <4>1 DEF ClaimOK
    <3>. QED  BY <2>5, <2>11, <3>1, <3>2
  <2>12. OneRunner'
    BY <2>5, <2>6 DEF RunInv, OneRunner
  <2>13. SessionOfThisRun'
    BY <1>1, <2>5 DEF RunInv, SessionOfThisRun
  <2>. QED  BY <2>9, <2>10, <2>11, <2>12, <2>13 DEF RunInv
<1>. QED  BY <1>5, <1>6

\* What an update makes of a definition, as far as runs go.
LEMMA UpdatedRun ==
    ASSUME NEW p \in Procs, NEW d \in Definition, NEW ask \in Asks, Permits(d, ask)
    PROVE  LET u == Updated(p, d, ask) IN
           /\ u \in Definition
           /\ ask = "claim" => /\ d.state = "queued" /\ u.state = "running"
                               /\ u.run = d.run /\ u.session = d.session
           /\ ask = "attach" => /\ u.state = "running" /\ u.run = d.run /\ u.session = p
           /\ ask = "cancel" => /\ u.run = d.run /\ u.session = d.session
                                /\ d.state = "running" => u.state = "cancelling"
                                /\ d.state \in {"queued", "running"}
                                /\ u.state # "queued"
           /\ ask \in {"succeed", "fail"} =>
                \/ u.run = d.run /\ u.session = d.session /\ u.state # "queued"
                \/ u.run = d.run + 1 /\ u.session = NoSession
<1>0. Updated(p, d, ask) \in Definition
  BY UpdatedType
<1>1. CASE ask = "claim"
  BY <1>0, <1>1 DEF Updated, Permits, Definition
<1>2. CASE ask = "attach"
  BY <1>0, <1>2 DEF Updated, Permits, Definition
<1>3. CASE ask = "cancel"
  BY <1>0, <1>3 DEF Updated, Permits, Definition
<1>4. CASE ask \in {"succeed", "fail"}
  <2>1. Updated(p, d, ask) = Finished(d, ask)
    BY <1>4 DEF Updated
  <2>2. CASE d.state = "cancelling"
    BY <1>0, <1>4, <2>1, <2>2 DEF Finished, Definition
  <2>3. CASE d.state # "cancelling" /\ ask = "fail"
    BY <1>0, <1>4, <2>1, <2>3 DEF Finished, Definition
  <2>4. CASE d.state # "cancelling" /\ ask # "fail" /\ d.repeat
    <3>1. PICK n \in Nat : n = d.run + 1
      BY DEF Definition
    <3>2. Finished(d, ask) = [d EXCEPT !.state = "queued", !.run = n, !.session = NoSession]
      BY <2>4, <3>1 DEF Finished
    <3>3. Finished(d, ask).run = n /\ Finished(d, ask).session = NoSession
      BY <3>2 DEF Definition
    <3>. QED  BY <1>0, <1>4, <2>1, <3>1, <3>3
  <2>5. CASE d.state # "cancelling" /\ ask # "fail" /\ ~d.repeat
    BY <1>0, <1>4, <2>1, <2>5 DEF Finished, Definition
  <2>. QED  BY <2>2, <2>3, <2>4, <2>5
<1>. QED  BY <1>1, <1>2, <1>3, <1>4 DEF Asks

\* The rename that installs an updated manifest.
LEMMA SwapInRuns ==
    ASSUME CallersInv, SwapInv, RunInv, NEW p \in Procs, Update(p), SwapIn(p)
    PROVE  RunInv'
<1>1. /\ pc' = pc /\ mine' = mine /\ claims' = claims /\ outcome' = outcome
      /\ crashed' = crashed /\ call[p].step = "swapped"
  BY DEF Update, history, SwapIn, At
<1>2. p \notin crashed
  BY <1>1 DEF SwapInv
<1>3. PICK j \in Jobs : j = mine[p] /\ call[p].job = j
  BY <1>1, AskType DEF CallersInv, CallerOK
<1>4. PICK ask \in Asks : ask = call[p].ask /\ ask = AskOf[pc[p]] /\ pc[p] \in Asking
  BY <1>1, AskType DEF CallersInv, CallerOK
<1>5. PICK d \in Definition : d = backup[j] /\ Permits(d, ask) /\ manifest[j] = NoJob
                              /\ temp[j] = Updated(p, d, ask)
  BY <1>1, <1>3, <1>4 DEF CallersInv, StoreInv, UpdateOK
<1>6. PICK u \in Definition : u = Updated(p, d, ask)
  BY <1>5, UpdatedType
<1>7. /\ Ledger[j] = d /\ Ledger'[j] = u /\ u # NoJob
      /\ \A k \in Jobs \ {j} : Ledger'[k] = Ledger[k]
  <2>1. manifest'[j] = u /\ backup' = backup
        /\ \A k \in Jobs \ {j} : manifest'[k] = manifest[k]
    BY <1>3, <1>5, <1>6 DEF SwapIn, CallersInv, StoreInv, StoreTypeOK
  <2>. QED  BY <1>5, <2>1, NoJobAssumption DEF Ledger
<1>8. /\ ~Landed(p) /\ Landed(p)'
      /\ \A q \in Procs \ {p} : call'[q] = call[q]
  <2>1. call'[p].step = "installed" /\ \A q \in Procs \ {p} : call'[q] = call[q]
    BY Moved DEF SwapIn, CallersInv, StoreInv, Steps
  <2>2. outcome[p] = "none"
    BY <1>1 DEF CallersInv, CallerOK
  <2>. QED  BY <1>1, <2>1, <2>2 DEF Landed
<1>9. \A q \in Procs \ {p} : Holder(q)' <=> Holder(q)
  BY <1>1, <1>8 DEF Holder, Landed
<1>10. /\ ask = "claim" <=> pc[p] \in Claiming
       /\ ask = "attach" => pc[p] \in {"attach", "join"}
       /\ ask = "cancel" => pc[p] \in {"cancel", "withdraw", "interrupt"}
       /\ ask \in {"succeed", "fail"} => pc[p] \in {"succeed", "fail"}
  BY <1>4 DEF AskOf, Asking, Claiming
<1>11. /\ ask = "claim" => /\ d.state = "queued" /\ u.state = "running"
                           /\ u.run = d.run /\ u.session = d.session
       /\ ask = "attach" => /\ u.state = "running" /\ u.run = d.run /\ u.session = p
       /\ ask = "cancel" => /\ u.run = d.run /\ u.session = d.session
                            /\ d.state = "running" => u.state = "cancelling"
                            /\ d.state \in {"queued", "running"}
                            /\ u.state # "queued"
       /\ ask \in {"succeed", "fail"} =>
             \/ u.run = d.run /\ u.session = d.session /\ u.state # "queued"
             \/ u.run = d.run + 1 /\ u.session = NoSession
  BY <1>5, <1>6, UpdatedRun
<1>12. d.run \in Nat /\ d.session \in Procs \cup {NoSession}
  BY DEF Definition
\* Who may update the job as its holder is the holder.
<1>13. ask \in {"attach", "succeed", "fail"} => Holder(p)
  <2>1. outcome[p] = "none"
    BY <1>1 DEF CallersInv, CallerOK
  <2>. QED  BY <1>2, <1>8, <1>10, <2>1 DEF Holder
<1>14. ASSUME NEW q \in Procs, Holder(q), mine[q] = j
       PROVE  /\ ask # "claim" /\ d.state \in {"running", "cancelling"}
              /\ ask \in {"attach", "succeed", "fail"} => q = p
  <2>1. d.state \in {"running", "cancelling"}
    BY <1>7, <1>14 DEF RunInv, HolderOK
  <2>. QED  BY <1>3, <1>11, <1>13, <1>14, <2>1 DEF RunInv
\* Only the claimer comes to hold the job, and only the finisher lets go of it.
<1>15. ASSUME NEW q \in Procs, Holder(q)', mine[q] = j
       PROVE  \/ q = p /\ ask = "claim"
              \/ /\ Holder(q) /\ ask \in {"attach", "cancel"}
                 /\ u.state \in {"running", "cancelling"} /\ u.run = d.run
  <2>1. CASE q = p
    <3>1. ask \notin {"succeed", "fail"}
      BY <1>1, <1>8, <1>10, <1>15, <2>1 DEF Holder, Claiming
    <3>2. ask = "cancel" => Holder(p)
      BY <1>1, <1>2, <1>10, <1>15, <2>1 DEF Holder, Claiming
    <3>. QED  BY <1>11, <1>13, <1>14, <1>15, <2>1, <3>1, <3>2 DEF Asks
  <2>2. CASE q # p
    <3>1. Holder(q)
      BY <1>9, <1>15, <2>2
    <3>2. ask = "cancel" /\ d.state = "running"
      BY <1>11, <1>14, <1>15, <2>2, <3>1 DEF Asks
    <3>. QED  BY <1>11, <3>1, <3>2
  <2>. QED  BY <2>1, <2>2
<1>16. ASSUME NEW q \in Procs, Holder(q)' PROVE HolderOK(q)'
  <2>1. CASE mine[q] # j
    <3>1. Holder(q) /\ HolderOK(q)
      BY <1>3, <1>9, <1>16, <2>1 DEF RunInv
    <3>2. Ledger'[mine[q]] = Ledger[mine[q]]
      BY <1>7, <2>1, <3>1 DEF HolderOK
    <3>. QED  BY <1>1, <3>1, <3>2 DEF HolderOK, Run
  <2>2. CASE mine[q] = j /\ q = p /\ ask = "claim"
    <3>1. u.run = d.run /\ u.state = "running" /\ d.state = "queued"
      BY <1>11, <2>2
    <3>2. \A c \in claims : c.job = j => c.run # u.run
      BY <1>7, <3>1 DEF RunInv, ClaimOK
    <3>. QED  BY <1>1, <1>7, <1>10, <2>2, <3>1, <3>2 DEF HolderOK
  <2>3. CASE mine[q] = j /\ ~(q = p /\ ask = "claim")
    <3>1. Holder(q) /\ u.state \in {"running", "cancelling"} /\ u.run = d.run
      BY <1>15, <1>16, <2>3
    <3>2. HolderOK(q)
      BY <3>1 DEF RunInv
    <3>3. Run(q)' = Run(q)
      BY <1>1, <1>7, <2>3, <3>1 DEF Run
    <3>. QED  BY <1>1, <1>7, <2>3, <3>1, <3>2, <3>3 DEF HolderOK
  <2>. QED  BY <2>1, <2>2, <2>3
<1>17. ASSUME NEW q \in Procs, NEW r \in Procs, Holder(q)', Holder(r)', mine'[q] = mine'[r]
       PROVE  q = r
  <2>1. CASE mine[q] = j
    <3>1. CASE ask = "claim"
      BY <1>1, <1>15, <1>17, <2>1, <3>1
    <3>2. CASE ask # "claim"
      <4>1. Holder(q) /\ Holder(r)
        BY <1>1, <1>15, <1>17, <2>1, <3>2
      <4>. QED  BY <1>1, <1>17, <4>1 DEF RunInv
    <3>. QED  BY <3>1, <3>2
  <2>2. CASE mine[q] # j
    <3>1. Holder(q) /\ Holder(r)
      BY <1>1, <1>3, <1>9, <1>17, <2>2
    <3>. QED  BY <1>1, <1>17, <3>1 DEF RunInv
  <2>. QED  BY <2>1, <2>2
<1>18. ASSUME NEW c \in claims PROVE ClaimOK(c)'
  <2>1. ClaimOK(c)
    BY DEF RunInv
  <2>2. CASE c.job = j
    <3>1. c.run \in Nat /\ c.run <= d.run
      BY <1>7, <2>1, <2>2 DEF ClaimOK
    <3>2. \/ u.run = d.run /\ u.state # "queued"
          \/ u.run = d.run + 1
      BY <1>11 DEF Asks
    <3>3. c.run <= u.run /\ (c.run = u.run => u.state # "queued")
      BY <1>12, <3>1, <3>2
    <3>. QED  BY <1>7, <2>2, <3>1, <3>3 DEF ClaimOK
  <2>3. CASE c.job # j
    BY <1>7, <2>1, <2>3 DEF ClaimOK
  <2>. QED  BY <2>2, <2>3
<1>19. SessionOfThisRun'
  <2> SUFFICES ASSUME NEW k \in Jobs, Ledger'[k] # NoJob, Ledger'[k].session # NoSession
               PROVE  [job |-> k, run |-> Ledger'[k].run, by |-> Ledger'[k].session] \in claims
    BY <1>1 DEF SessionOfThisRun
  <2>1. CASE k # j
    BY <1>7, <2>1 DEF RunInv, SessionOfThisRun
  <2>2. CASE k = j /\ ask = "attach"
    <3>1. Holder(p) /\ pc[p] \notin Claiming
      BY <1>10, <1>13, <2>2
    <3>2. Run(p) \in claims
      BY <3>1 DEF RunInv, HolderOK
    <3>3. Run(p) = [job |-> j, run |-> u.run, by |-> u.session]
      BY <1>3, <1>7, <1>11, <2>2 DEF Run
    <3>. QED  BY <1>7, <2>2, <3>2, <3>3
  <2>3. CASE k = j /\ ask # "attach"
    <3>1. u.run = d.run /\ u.session = d.session
      BY <1>7, <1>11, <2>3 DEF Asks
    <3>2. d # NoJob /\ d.session # NoSession
      BY <1>7, <2>3, <3>1, NoJobAssumption
    <3>3. [job |-> j, run |-> d.run, by |-> d.session] \in claims
      BY <1>7, <3>2 DEF RunInv, SessionOfThisRun
    <3>. QED  BY <1>7, <2>3, <3>1, <3>3
  <2>. QED  BY <2>1, <2>2, <2>3
<1>20. OneRunner'
  BY <1>1 DEF RunInv, OneRunner
<1>. QED  BY <1>1, <1>16, <1>17, <1>18, <1>19, <1>20 DEF RunInv

----------------------------------------------------------------------------
LEMMA RunStep == CallersInv /\ SwapInv /\ RunInv /\ [Next]_vars => RunInv'
<1>. SUFFICES ASSUME CallersInv, SwapInv, RunInv, [Next]_vars PROVE RunInv'
  OBVIOUS
<1>1. ASSUME NEW p \in Procs, Update(p) PROVE RunInv'
  BY <1>1, UpdateRuns, SwapInRuns
<1>2. ASSUME UNCHANGED <<manifest, backup, call, outcome, crashed, pc, mine, claims>>
      PROVE  RunInv'
  <2>1. Ledger' = Ledger
    BY <1>2 DEF Ledger
  <2>2. \A q \in Procs : Holder(q)' => Holder(q)
    BY <1>2 DEF Holder, Landed
  <2>. QED  BY <1>2, <2>1, <2>2, HoldersRemain
<1>3. ASSUME NEW j \in Jobs, Tick(j) PROVE RunInv'
  BY <1>2, <1>3 DEF Tick, Due, files, history
<1>4. CASE UNCHANGED vars
  BY <1>2, <1>4 DEF vars, store, files, history
<1>. QED  BY <1>1, <1>3, <1>4, AskRuns, GiveUpRuns, WorkRuns, DieRuns, CreateRuns, ResumeRuns
          DEF Next, Step

LEMMA RunsStart == Init => RunInv
<1>. SUFFICES ASSUME Init PROVE RunInv
  OBVIOUS
<1>1. \A p \in Procs : ~Holder(p)
  BY DEF Init, StoreInit, Holder, Claiming
<1>2. \A j \in Jobs : Ledger[j] = NoJob
  BY DEF Init, StoreInit, Ledger
<1>. QED  BY <1>1, <1>2 DEF Init, RunInv, OneRunner, SessionOfThisRun

LEMMA RunInvariance == Spec => []RunInv
<1>1. Init => SwapInv
  BY DEF Init, StoreInit, SwapInv, Idle, HalfSwapped
<1>2. CallersInv /\ SwapInv /\ [Next]_vars => SwapInv'
  BY CallersUseTheLedger, SwapStep DEF CallersInv
<1>. QED  BY <1>1, <1>2, RunsStart, RunStep, CallersInvariance, PTL DEF Spec

\* However many ticks, workers and promoting sessions compete, crash or are
\* refused, one run of a job is claimed by one process (claim_due, mark_running).
THEOREM RunsHaveOneRunner == Spec => []OneRunner
<1>1. RunInv => OneRunner
  BY DEF RunInv
<1>. QED  BY <1>1, RunInvariance, PTL

\* The session recorded for a job is the one of the process that claimed its
\* current run (attach_session, finish).
THEOREM SessionsAreOfThisRun == Spec => []SessionOfThisRun
<1>1. RunInv => SessionOfThisRun
  BY DEF RunInv
<1>. QED  BY <1>1, RunInvariance, PTL

----------------------------------------------------------------------------
(* A run under way has come due: so the runs that are claimed and the      *)
(* prompts submitted for them stay within the bound on runs.               *)

Started(d) == d # NoJob /\ d.state \in {"running", "cancelling"}

\* A process inside an update that claims its job's run.
ClaimsRun(p) == call[p].step \in {"written", "swapped"} /\ call[p].ask = "claim"

DueInv ==
    /\ \A j \in Jobs : Started(Ledger[j]) => Ledger[j].run <= now[j]
    /\ \A p \in Procs : ClaimsRun(p) => Ledger[call[p].job].run <= now[call[p].job]

\* A step that changes no job, and after which only those claim who did before.
LEMMA DueFrame ==
    ASSUME StoreInv, DueInv, Ledger' = Ledger,
           \/ now' = now
           \/ call' = call /\ \E j \in Jobs : Due(j),
           \A q \in Procs : ClaimsRun(q)' => ClaimsRun(q) /\ call'[q].job = call[q].job
    PROVE  DueInv'
<1>1. \A j \in Jobs : now[j] \in Nat /\ now'[j] \in Nat /\ now[j] <= now'[j]
  <2>1. \A j \in Jobs : now[j] \in 0 .. LastRun
    BY DEF StoreInv, StoreTypeOK
  <2>2. CASE now' = now
    BY <2>1, <2>2, BoundAssumption
  <2>3. CASE \E j \in Jobs : Due(j)
    <3>1. PICK j \in Jobs : Due(j)
      BY <2>3
    <3>2. \A k \in Jobs : now'[k] = IF k = j THEN now[k] + 1 ELSE now[k]
      BY <3>1 DEF Due, StoreInv, StoreTypeOK
    <3>. QED  BY <2>1, <3>2, BoundAssumption
  <2>. QED  BY <2>2, <2>3
<1>2. \A j \in Jobs : Ledger[j] # NoJob => Ledger[j].run \in Nat
  BY LedgerType DEF StoreInv, Definition
<1>3. ASSUME NEW j \in Jobs, Started(Ledger[j])' PROVE Ledger'[j].run <= now'[j]
  <2>1. Started(Ledger[j]) /\ Ledger[j].run <= now[j]
    BY <1>3 DEF DueInv, Started
  <2>. QED  BY <1>1, <1>2, <2>1 DEF Started
<1>4. ASSUME NEW q \in Procs, ClaimsRun(q)' PROVE Ledger'[call'[q].job].run <= now'[call'[q].job]
  <2>1. PICK j \in Jobs : j = call[q].job /\ call'[q].job = j /\ ClaimsRun(q)
    BY <1>4, Holding DEF ClaimsRun
  <2>2. Ledger[j].run <= now[j]
    BY <2>1 DEF DueInv
  <2>3. Ledger[j] # NoJob
    BY <2>1, NoJobAssumption DEF ClaimsRun, StoreInv, UpdateOK, Ledger
  <2>. QED  BY <1>1, <1>2, <2>1, <2>2, <2>3
<1>. QED  BY <1>3, <1>4 DEF DueInv

\* The steps of an update but the two that matter.
LEMMA ProceedDue ==
    ASSUME StoreInv, DueInv, NEW p \in Procs,
           \/ Refuse(p) \/ WriteFails(p) \/ SwapOut(p) \/ Discard(p) \/ Unlock(p)
           \/ SwapOutFails(p) \/ SwapInFails(p) \/ DiscardFails(p)
    PROVE  DueInv'
<1>1. Ledger' = Ledger
  <2>1. CASE SwapOut(p) \/ SwapInFails(p) \/ Discard(p)
    BY <2>1, SwapOutStutters
  <2>2. CASE Refuse(p) \/ WriteFails(p) \/ SwapOutFails(p) \/ DiscardFails(p) \/ Unlock(p)
    BY <2>2 DEF Refuse, WriteFails, SwapOutFails, DiscardFails, Unlock, Ledger
  <2>. QED  BY <2>1, <2>2
<1>2. now' = now
  BY DEF Refuse, WriteFails, SwapOut, SwapOutFails, SwapInFails, Discard, DiscardFails, Unlock
<1>3. ASSUME NEW q \in Procs, ClaimsRun(q)' PROVE ClaimsRun(q) /\ call'[q].job = call[q].job
  <2>1. CASE \/ Refuse(p) \/ WriteFails(p) \/ Unlock(p)
             \/ SwapOutFails(p) \/ SwapInFails(p) \/ DiscardFails(p)
    <3>1. call'[p].step = "idle" /\ \A r \in Procs \ {p} : call'[r] = call[r]
      BY <2>1, Returned DEF Refuse, WriteFails, Unlock, SwapOutFails, SwapInFails, DiscardFails,
         StoreInv
    <3>. QED  BY <1>3, <3>1 DEF ClaimsRun
  <2>2. CASE SwapOut(p)
    <3>1. /\ call'[p].job = call[p].job /\ call'[p].ask = call[p].ask /\ call[p].step = "written"
          /\ \A r \in Procs \ {p} : call'[r] = call[r]
      BY <2>2, Moved DEF SwapOut, At, StoreInv, Steps
    <3>. QED  BY <1>3, <3>1 DEF ClaimsRun
  <2>3. CASE Discard(p)
    <3>1. call'[p].step = "cleaned" /\ \A r \in Procs \ {p} : call'[r] = call[r]
      BY <2>3, Moved DEF Discard, StoreInv, Steps
    <3>. QED  BY <1>3, <3>1 DEF ClaimsRun
  <2>. QED  BY <2>1, <2>2, <2>3
<1>. QED  BY <1>1, <1>2, <1>3, DueFrame

\* An accepted claim is of a run that has come due.
LEMMA WriteDue == ASSUME StoreInv, DueInv, NEW p \in Procs, Write(p) PROVE DueInv'
<1>1. PICK j \in Jobs : j = call[p].job
  BY Holding DEF Write, At
<1>2. Ledger' = Ledger /\ now' = now /\ call[p].step = "locked" /\ Ledger[j] = manifest[j]
  BY <1>1 DEF Write, Ledger, At, Accepted
<1>3. /\ call'[p].job = j /\ call'[p].ask = call[p].ask
      /\ \A q \in Procs \ {p} : call'[q] = call[q]
  BY <1>1, Moved DEF Write, StoreInv, Steps
<1>4. call[p].ask = "claim" => Ledger[j].run <= now[j]
  BY <1>1, <1>2 DEF Write, Accepted, Allows
<1>5. ASSUME NEW q \in Procs, ClaimsRun(q)' PROVE Ledger'[call'[q].job].run <= now'[call'[q].job]
  <2>1. CASE q = p
    BY <1>2, <1>3, <1>4, <1>5, <2>1 DEF ClaimsRun
  <2>2. CASE q # p
    BY <1>2, <1>3, <1>5, <2>2 DEF ClaimsRun, DueInv
  <2>. QED  BY <2>1, <2>2
<1>. QED  BY <1>2, <1>5 DEF DueInv, Started

\* What an update starts or keeps under way was due.
LEMMA UpdatedState ==
    ASSUME NEW p \in Procs, NEW d \in Definition, NEW ask \in Asks, Permits(d, ask),
           Started(Updated(p, d, ask))
    PROVE  Updated(p, d, ask).run = d.run /\ (ask = "claim" \/ Started(d))
<1>1. d # NoJob
  BY NoJobAssumption
<1>2. CASE ask \in {"claim", "attach", "cancel"}
  BY <1>1, <1>2 DEF Updated, Permits, Started, Definition
<1>3. CASE ask \in {"succeed", "fail"}
  <2>1. Finished(d, ask).state \in {"cancelled", "failed", "queued", "completed"}
    <3>1. CASE d.state = "cancelling"
      BY <3>1 DEF Finished, Definition
    <3>2. CASE d.state # "cancelling" /\ ask = "fail"
      BY <3>2 DEF Finished, Definition
    <3>3. CASE d.state # "cancelling" /\ ask # "fail" /\ d.repeat
      <4>1. PICK n \in Nat : n = d.run + 1
        BY DEF Definition
      <4>2. Finished(d, ask) = [d EXCEPT !.state = "queued", !.run = n, !.session = NoSession]
        BY <3>3, <4>1 DEF Finished
      <4>. QED  BY <4>2 DEF Definition
    <3>4. CASE d.state # "cancelling" /\ ask # "fail" /\ ~d.repeat
      BY <3>4 DEF Finished, Definition
    <3>. QED  BY <3>1, <3>2, <3>3, <3>4
  <2>2. Updated(p, d, ask) = Finished(d, ask)
    BY <1>3 DEF Updated
  <2>. QED  BY <2>1, <2>2 DEF Started
<1>. QED  BY <1>2, <1>3 DEF Asks

LEMMA SwapInDue == ASSUME StoreInv, DueInv, NEW p \in Procs, SwapIn(p) PROVE DueInv'
<1>1. PICK j \in Jobs : j = call[p].job /\ lock[j] = p
  BY Holding DEF SwapIn, At
<1>2. PICK ask \in Asks : ask = call[p].ask
  BY Holding DEF SwapIn, At
<1>3. PICK d \in Definition : d = backup[j] /\ Permits(d, ask) /\ manifest[j] = NoJob
                              /\ temp[j] = Updated(p, d, ask)
  BY <1>1, <1>2 DEF SwapIn, At, StoreInv, UpdateOK
<1>4. PICK u \in Definition : u = Updated(p, d, ask)
  BY <1>3, UpdatedType
<1>5. /\ Ledger[j] = d /\ Ledger'[j] = u /\ now' = now
      /\ \A k \in Jobs \ {j} : Ledger'[k] = Ledger[k]
  <2>1. manifest'[j] = u /\ backup' = backup /\ now' = now
        /\ \A k \in Jobs \ {j} : manifest'[k] = manifest[k]
    BY <1>1, <1>3, <1>4 DEF SwapIn, StoreInv, StoreTypeOK
  <2>. QED  BY <1>3, <2>1, NoJobAssumption DEF Ledger
<1>6. call'[p].step = "installed" /\ \A q \in Procs \ {p} : call'[q] = call[q]
  BY Moved DEF SwapIn, StoreInv, Steps
<1>7. ask = "claim" => d.run <= now[j]
  BY <1>1, <1>2, <1>5 DEF DueInv, ClaimsRun, SwapIn, At
<1>8. Started(d) => d.run <= now[j]
  BY <1>5 DEF DueInv
<1>9. Started(u) => u.run <= now[j]
  BY <1>3, <1>4, <1>7, <1>8, UpdatedState
<1>10. ASSUME NEW k \in Jobs, Started(Ledger[k])' PROVE Ledger'[k].run <= now'[k]
  <2>1. CASE k = j
    BY <1>5, <1>9, <1>10, <2>1 DEF Started
  <2>2. CASE k # j
    BY <1>5, <1>10, <2>2 DEF Started, DueInv
  <2>. QED  BY <2>1, <2>2
<1>11. ASSUME NEW q \in Procs, ClaimsRun(q)' PROVE Ledger'[call'[q].job].run <= now'[call'[q].job]
  <2>1. q # p /\ call'[q] = call[q] /\ ClaimsRun(q)
    BY <1>6, <1>11 DEF ClaimsRun
  <2>2. call[q].job \in Jobs /\ lock[call[q].job] = q
    BY <2>1, Holding DEF ClaimsRun
  <2>. QED  BY <1>1, <1>5, <2>1, <2>2 DEF DueInv
<1>. QED  BY <1>10, <1>11 DEF DueInv

\* A new job waits.
LEMMA CreateDue ==
    ASSUME StoreInv, DueInv, NEW p \in Procs, NEW j \in Jobs, NEW s \in Schedules, Create(p, j, s)
    PROVE  DueInv'
<1>1. PICK d \in Definition : d = Fresh(s)
  BY FreshType
<1>2. /\ Ledger'[j] = d /\ d.state = "queued" /\ now' = now /\ call' = call
      /\ \A k \in Jobs \ {j} : Ledger'[k] = Ledger[k]
  <2>1. manifest'[j] = d /\ backup' = backup /\ \A k \in Jobs \ {j} : manifest'[k] = manifest[k]
    BY <1>1 DEF Create, StoreInv, StoreTypeOK
  <2>2. d.state = "queued" /\ d # NoJob
    BY <1>1, NoJobAssumption DEF Fresh
  <2>. QED  BY <2>1, <2>2 DEF Ledger, Create
<1>3. ASSUME NEW k \in Jobs, Started(Ledger[k])' PROVE Ledger'[k].run <= now'[k]
  BY <1>2, <1>3 DEF Started, DueInv
<1>4. ASSUME NEW q \in Procs, ClaimsRun(q)' PROVE Ledger'[call'[q].job].run <= now'[call'[q].job]
  <2>1. ClaimsRun(q) /\ call'[q].job = call[q].job
    BY <1>2, <1>4 DEF ClaimsRun
  <2>2. call[q].job \in Jobs /\ lock[call[q].job] = q
    BY <2>1, Holding DEF ClaimsRun
  <2>3. call[q].job # j
    BY <2>2, MarkersAssumption DEF Create
  <2>. QED  BY <1>2, <2>1, <2>2, <2>3 DEF DueInv
<1>. QED  BY <1>3, <1>4 DEF DueInv

LEMMA DueStep == StoreInv /\ DueInv /\ [StoreNext]_store => DueInv'
<1>. SUFFICES ASSUME StoreInv, DueInv, [StoreNext]_store PROVE DueInv'
  OBVIOUS
<1>1. ASSUME NEW p \in Procs, Proceed(p) PROVE DueInv'
  BY <1>1, ProceedDue, WriteDue, SwapInDue DEF Proceed
<1>2. ASSUME NEW p \in Procs, NEW j \in Jobs, NEW s \in Schedules, Create(p, j, s) PROVE DueInv'
  BY <1>2, CreateDue
<1>3. ASSUME NEW p \in Procs,
             \/ Crash(p)
             \/ Consume(p) /\ UNCHANGED <<files, now, call, crashed>>
             \/ \E j \in Jobs : Busy(p, j) \/ \E a \in Asks : Acquire(p, j, a)
      PROVE  DueInv'
  <2>1. Ledger' = Ledger /\ now' = now
    BY <1>3 DEF Crash, Consume, Busy, Acquire, files, Ledger
  <2>2. ASSUME NEW q \in Procs, ClaimsRun(q)' PROVE ClaimsRun(q) /\ call'[q].job = call[q].job
    BY <1>3, <2>2 DEF Crash, Consume, Busy, Acquire, Idle, ClaimsRun, StoreInv, StoreTypeOK
  <2>. QED  BY <2>1, <2>2, DueFrame
<1>4. ASSUME NEW j \in Jobs, Due(j) PROVE DueInv'
  <2>1. Ledger' = Ledger /\ call' = call
    BY <1>4 DEF Due, files, Ledger
  <2>. QED  BY <1>4, <2>1, DueFrame DEF ClaimsRun
<1>5. CASE UNCHANGED store
  BY <1>5, DueFrame DEF store, files, Ledger, ClaimsRun
<1>. QED  BY <1>1, <1>2, <1>3, <1>4, <1>5 DEF StoreNext

----------------------------------------------------------------------------
(* The rest of the callers' types. *)

RestTypes ==
    /\ crashed \subseteq MayCrash /\ stopped \in SUBSET Procs
    /\ claims \in SUBSET Runs /\ prompts \in SUBSET Runs

\* The run of a process that holds one is within the bound.
LEMMA HeldRun ==
    ASSUME CallersInv, RunInv, DueInv, NEW p \in Procs, Holder(p)
    PROVE  Run(p) \in Runs
<1>1. PICK j \in Jobs : j = mine[p] /\ Started(Ledger[j])
  BY DEF RunInv, HolderOK, Started
<1>2. Ledger[j].run \in Nat /\ now[j] \in 0 .. LastRun
  BY <1>1, LedgerType DEF CallersInv, StoreInv, StoreTypeOK, Definition, Started
<1>3. Ledger[j].run \in 0 .. LastRun
  BY <1>1, <1>2, BoundAssumption DEF DueInv
<1>. QED  BY <1>1, <1>3 DEF Run, Runs

LEMMA RestStep ==
    CallersInv /\ RunInv /\ DueInv /\ RestTypes /\ [Next]_vars => RestTypes'
<1>. SUFFICES ASSUME CallersInv, RunInv, DueInv, RestTypes, [Next]_vars PROVE RestTypes'
  OBVIOUS
<1>1. ASSUME NEW p \in Procs, Resume(p) PROVE RestTypes'
  <2>1. /\ outcome[p] = "ok" /\ p \notin crashed /\ crashed' = crashed /\ stopped' = stopped
        /\ claims' = IF AskOf[pc[p]] = "claim" THEN claims \cup {Run(p)} ELSE claims
        /\ prompts' = IF pc[p] = "attach" THEN prompts \cup {Run(p)} ELSE prompts
        /\ pc[p] \in Asking
    BY <1>1 DEF Resume, CallersInv, CallerOK
  <2>2. AskOf[pc[p]] = "claim" \/ pc[p] = "attach" => Holder(p)
    BY <2>1 DEF Holder, Landed, Claiming, Asking, AskOf
  <2>3. AskOf[pc[p]] = "claim" \/ pc[p] = "attach" => Run(p) \in Runs
    BY <2>2, HeldRun
  <2>. QED  BY <2>1, <2>3 DEF RestTypes
<1>2. ASSUME NEW p \in Procs, NEW j \in Jobs, Promote(p, j) PROVE RestTypes'
  <2>1. [job |-> j, run |-> 0, by |-> p] \in Runs
    BY BoundAssumption DEF Runs
  <2>. QED  BY <1>2, <2>1 DEF Promote, Create, RestTypes
<1>3. ASSUME NEW p \in Procs, Die(p) PROVE RestTypes'
  BY <1>3 DEF Die, Crash, RestTypes, history
<1>4. ASSUME NEW p \in Procs, Notice(p) \/ Interrupt(p) PROVE RestTypes'
  BY <1>4 DEF Notice, Interrupt, RestTypes, history, store
<1>5. ASSUME UNCHANGED <<crashed, stopped, claims, prompts>> PROVE RestTypes'
  BY <1>5 DEF RestTypes
<1>6. ASSUME NEW p \in Procs, Ask(p) \/ Update(p) PROVE RestTypes'
  BY <1>5, <1>6 DEF Ask, Acquire, Busy, Update, Proceed, Refuse, Write, SwapOut, SwapIn, Discard,
     Unlock, WriteFails, SwapOutFails, SwapInFails, DiscardFails, history
<1>7. ASSUME NEW p \in Procs, GiveUp(p) \/ Prepare(p) \/ TurnSucceeds(p) \/ TurnFails(p)
      PROVE  RestTypes'
  BY <1>5, <1>7 DEF GiveUp, Prepare, TurnSucceeds, TurnFails, history, store
<1>8. ASSUME NEW p \in Procs, NEW j \in Jobs,
             CreateJob(p, j) \/ StartWorker(p, j) \/ StartCancel(p, j)
      PROVE  RestTypes'
  BY <1>5, <1>8 DEF CreateJob, Create, StartWorker, StartCancel, history, store
<1>9. ASSUME NEW j \in Jobs, Tick(j) PROVE RestTypes'
  BY <1>5, <1>9 DEF Tick, Due, history
<1>10. CASE UNCHANGED vars
  BY <1>5, <1>10 DEF vars, store, history
<1>. QED  BY <1>1, <1>2, <1>3, <1>4, <1>6, <1>7, <1>8, <1>9, <1>10 DEF Next, Step

\* Every variable has its type; in particular nobody claims a run, or submits a
\* prompt for one, that has not come due (claim_due, mark_running).
THEOREM TypeCorrect == Spec => []TypeOK
<1>1. Init => DueInv /\ RestTypes
  <2>. SUFFICES ASSUME Init PROVE DueInv /\ RestTypes
    OBVIOUS
  <2>1. \A j \in Jobs : Ledger[j] = NoJob
    BY DEF Init, StoreInit, Ledger
  <2>2. \A p \in Procs : call[p].step = "idle"
    BY DEF Init, StoreInit, Idle
  <2>. QED  BY <2>1, <2>2 DEF Init, StoreInit, DueInv, RestTypes, Started, ClaimsRun
<1>2. CallersInv /\ DueInv /\ [Next]_vars => DueInv'
  BY CallersUseTheLedger, DueStep DEF CallersInv
<1>3. CallersInv /\ RestTypes => TypeOK
  BY DEF CallersInv, StoreInv, CallerTypes, RestTypes, TypeOK
<1>. QED  BY <1>1, <1>2, <1>3, RestStep, CallersInvariance, RunInvariance, PTL DEF Spec
=============================================================================
