----------------------------- MODULE Checkpoints -----------------------------
(***************************************************************************)
(* A file of the workspace between three parties: tool calls that write it *)
(* (write_file and edit_file of crumb-tools/workspace.rs), the checkpoints *)
(* of their edits (crumb-tools/checkpoint.rs) that the user approves or    *)
(* rejects with /review, and the user, who may save the file at any time.  *)
(*                                                                         *)
(* A step is one file operation.  Files of different names share nothing   *)
(* but the listing of their checkpoints, so there is one file.  A content  *)
(* is a value; Torn is what a write leaves that stopped half-way.  Limits  *)
(* of size, unsafe paths and credentials are refused before the first step *)
(* and left out, and so are the temporary files, which nothing reads.      *)
(***************************************************************************)
EXTENDS Naturals, Sequences, FiniteSets

CONSTANTS
    Writers,      \* the tool calls that may be under way at a time
    Contents,     \* what a file may hold
    Absent, Torn, \* no file; a partial one: two values that are not contents
    MaxEdits,     \* bound on the checkpoints created
    MaxSaves      \* bound on the user's saves

VARIABLES
    file,     \* the content of the file
    call,     \* writer -> its step, preimage, result, backup file and checkpoint
    records,  \* the checkpoints, in the order of their creation
    review,   \* the review under way: its step, verdict and what it has to decide
    \* History: what happened, never read by an action's guard.
    saves,    \* number of the user's saves (a bound reads it)
    mine,     \* what the user last put in the file; Absent once it came back to it
              \* while a write was under way that cannot notice
    left,     \* a backup file nobody will remove holds it
    base      \* the content the edits started from, while nothing but recorded
              \* edits and rejections of all of them happens; Torn after that

vars == <<file, call, records, review, saves, mine, left, base>>

Values == Contents \cup {Torn}
Idle == [step |-> "idle", before |-> Absent, after |-> Absent, backup |-> Absent, id |-> 0]
Resting == [step |-> "idle", verdict |-> "none", queue |-> <<>>]
Busy == {w \in Writers : call[w].step # "idle"}
Reviewing == review # Resting

\* Only a record whose manifest is whole is listed or loaded.
Loadable(k) == records[k].status \in {"pending", "approved", "rejected"}
Pending == {k \in DOMAIN records : records[k].status = "pending"}

----------------------------------------------------------------------------
Init ==
    /\ file \in Contents \cup {Absent}
    /\ call = [w \in Writers |-> Idle]
    /\ records = <<>>
    /\ review = Resting
    /\ saves = 0
    /\ mine = file /\ left = FALSE /\ base = file

history == <<saves, mine, left, base>>

Only(holds) == base' = IF holds THEN base ELSE Torn

----------------------------------------------------------------------------
\* Writes under way, of these calls or a review, that will not notice what is
\* put in the file now.
Unnoticed(calls) ==
    \/ review.step \in {"restore", "fill"}
    \/ \E w \in calls :
          \/ call[w].step \in {"moved", "checked", "installed", "kept"}
          \/ call[w].step = "ready" /\ call[w].before = Absent

----------------------------------------------------------------------------
(* write_file and edit_file. *)

Step(w, s) == call' = [call EXCEPT ![w].step = s]
Return(w) == call' = [call EXCEPT ![w] = Idle]

\* The call ends with the file as it had been moved away.
PutBack(w) ==
    /\ file' = call[w].backup
    /\ mine' = IF Unnoticed(Writers \ {w}) THEN Absent ELSE mine
    /\ Return(w)

\* An edit starts from an existing file and changes it; a write need not.
Read(w) ==
    /\ call[w].step = "idle" /\ Len(records) < MaxEdits
    /\ \E c \in Contents :
          call' = [call EXCEPT ![w].step = "ready", ![w].before = file, ![w].after = c]
    /\ Only(~Reviewing /\ Busy = {})
    /\ UNCHANGED <<file, records, review, saves, mine, left>>

\* Cancelled, a preimage that has changed since, or no temporary file.
GiveUp(w) ==
    /\ call[w].step = "ready"
    /\ Return(w)
    /\ UNCHANGED <<file, records, review, history>>

MoveAway(w) ==
    /\ call[w].step = "ready" /\ call[w].before # Absent
    /\ IF file = Absent
       THEN Return(w) /\ UNCHANGED file
       ELSE /\ call' = [call EXCEPT ![w].step = "moved", ![w].backup = file]
            /\ file' = Absent
    /\ UNCHANGED <<records, review, history>>

\* Mutant: the staged preimage is not compared with the one that was read.
VerifyNothing(w) ==
    /\ call[w].step = "moved"
    /\ Step(w, "checked")
    /\ UNCHANGED <<file, records, review, history>>

\* file_matches: a conflict puts the file back.
Verify(w) ==
    /\ call[w].step = "moved"
    /\ IF call[w].backup = call[w].before
       THEN Step(w, "checked") /\ UNCHANGED <<file, mine>>
       ELSE PutBack(w)
    /\ UNCHANGED <<records, review, saves, left, base>>

\* Nothing is compared where there was no file.
Installable(w) ==
    \/ call[w].step = "checked"
    \/ call[w].step = "ready" /\ call[w].before = Absent

Install(w) ==
    /\ Installable(w)
    /\ file' = call[w].after
    /\ Step(w, "installed")
    /\ UNCHANGED <<records, review, history>>

\* The rename fails, or the checkpoint cannot be recorded: the edit is undone.
Undo(w) ==
    /\ call[w].step \in {"checked", "installed", "kept"}
    /\ PutBack(w)
    /\ Only(FALSE)
    /\ UNCHANGED <<records, review, saves, left>>

\* Mutant: the number of the checkpoint is taken too late.
KeepLate(w) ==
    /\ call[w].step = "installed" /\ file = call[w].after
    /\ Len(records) < MaxEdits
    /\ records' = Append(records, [before |-> call[w].before, after |-> call[w].after,
                                   status |-> "data", time |-> 0])
    /\ call' = [call EXCEPT ![w].step = "kept", ![w].id = Len(records') + 1]
    /\ UNCHANGED <<file, review, history>>

\* record_edit: the data first, if the file still is what was installed.
Keep(w) ==
    /\ call[w].step = "installed" /\ file = call[w].after
    /\ Len(records) < MaxEdits
    /\ records' = Append(records, [before |-> call[w].before, after |-> call[w].after,
                                   status |-> "data", time |-> 0])
    /\ call' = [call EXCEPT ![w].step = "kept", ![w].id = Len(records) + 1]
    /\ UNCHANGED <<file, review, history>>

\* What the system clock says may be anything: it may stand still between two edits
\* and be set back.  Of its readings only the order is used, and in MaxEdits
\* values any readings of MaxEdits edits have their order.
Times == 1..MaxEdits

\* The manifest last: the checkpoint exists.
Record(w) ==
    /\ call[w].step = "kept"
    /\ \E t \in Times :
          records' = [records EXCEPT ![call[w].id].status = "pending",
                                     ![call[w].id].time = t]
    /\ Step(w, "done")
    /\ UNCHANGED <<file, review, history>>

\* The backup goes, or cannot be removed.
Clear(w) ==
    /\ call[w].step = "done"
    /\ left' \in {left, left \/ call[w].backup = mine}
    /\ Return(w)
    /\ UNCHANGED <<file, records, review, saves, mine, base>>

\* The process dies, or what undoes an edit stops half-way: the file removed, the
\* backup not put back.
Crash(w) ==
    /\ call[w].step \notin {"idle", "ready"}
    /\ file' \in {file} \cup (IF call[w].step \in {"installed", "kept"} THEN {Absent} ELSE {})
    /\ left' = (left \/ call[w].backup = mine)
    /\ Return(w)
    /\ Only(FALSE)
    /\ UNCHANGED <<records, review, saves, mine>>

----------------------------------------------------------------------------
(* /review: decide and decide_pending. *)

\* Mutant: oldest first.
OldestFirst(S) ==
    {q \in [1..Cardinality(S) -> S] :
        \A i, j \in 1..Cardinality(S) :
            i < j => q[i] # q[j] /\ records[q[i]].time <= records[q[j]].time}

\* Newest first; what has the same time comes in any order.
Orders(S) ==
    {q \in [1..Cardinality(S) -> S] :
        \A i, j \in 1..Cardinality(S) :
            i < j => q[i] # q[j] /\ records[q[i]].time >= records[q[j]].time}

ReviewAll(verdict) ==
    /\ ~Reviewing
    /\ \E q \in Orders(Pending) :
          review' = [step |-> "load", verdict |-> verdict, queue |-> q]
    /\ Only(verdict = "rejected" /\ Busy = {})
    /\ UNCHANGED <<file, call, records, saves, mine, left>>

ReviewOne(k, verdict) ==
    /\ ~Reviewing /\ Loadable(k)
    /\ review' = [step |-> "load", verdict |-> verdict, queue |-> <<k>>]
    /\ Only(FALSE)
    /\ UNCHANGED <<file, call, records, saves, mine, left>>

\* The file is read and compared with the digest of the edit.
MayRestore(k) == file = records[k].after

Refuses(k) ==
    \/ records[k].status # "pending"
    \/ review.verdict = "rejected" /\ ~MayRestore(k)

Load ==
    /\ review.step = "load"
    /\ IF review.queue = <<>> \/ Refuses(Head(review.queue)) THEN review' = Resting
       ELSE review' = [review EXCEPT !.step =
                IF review.verdict = "rejected" THEN "restore" ELSE "mark"]
    /\ UNCHANGED <<file, call, records, history>>

\* The preimage is written over the file, which is first cut to nothing.
Restore ==
    LET k == Head(review.queue) IN
    /\ review.step = "restore"
    /\ IF records[k].before = Absent
       THEN file' = Absent /\ review' = [review EXCEPT !.step = "mark"]
       ELSE file' = Torn /\ review' = [review EXCEPT !.step = "fill"]
    /\ UNCHANGED <<call, records, history>>

Fill ==
    /\ review.step = "fill"
    /\ file' = records[Head(review.queue)].before
    /\ review' = [review EXCEPT !.step = "mark"]
    /\ UNCHANGED <<call, records, history>>

Mark ==
    LET k == Head(review.queue) IN
    /\ review.step = "mark"
    /\ records' = [records EXCEPT ![k].status = review.verdict]
    /\ review' = [review EXCEPT !.step = "load", !.queue = Tail(review.queue)]
    /\ UNCHANGED <<file, call, history>>

\* The process dies, or an operation fails: the manifest may be cut to nothing.
Abandon ==
    /\ review.step \in {"restore", "fill", "mark"}
    /\ review' = Resting
    /\ records' \in {records} \cup
          (IF review.step = "mark"
           THEN {[records EXCEPT ![Head(review.queue)].status = "torn"]} ELSE {})
    /\ Only(FALSE)
    /\ UNCHANGED <<file, call, saves, mine, left>>

----------------------------------------------------------------------------
(* The user's editor. *)

Save(c) ==
    /\ saves < MaxSaves
    /\ file' = c /\ left' = FALSE
    /\ mine' = IF Unnoticed(Writers) THEN Absent ELSE c
    /\ Only(FALSE)
    /\ saves' = saves + 1
    /\ UNCHANGED <<call, records, review>>

----------------------------------------------------------------------------
Next ==
    \/ \E w \in Writers :
          \/ Read(w) \/ GiveUp(w) \/ MoveAway(w) \/ Verify(w) \/ Install(w)
          \/ Undo(w) \/ Keep(w) \/ Record(w) \/ Clear(w) \/ Crash(w)
    \/ \E verdict \in {"approved", "rejected"} :
          \/ ReviewAll(verdict)
          \/ \E k \in DOMAIN records : ReviewOne(k, verdict)
    \/ Load \/ Restore \/ Fill \/ Mark \/ Abandon
    \/ \E c \in Contents \cup {Absent} : Save(c)

Spec == Init /\ [][Next]_vars

----------------------------------------------------------------------------
(* The values of the state. *)
TypeOK ==
    /\ file \in Values \cup {Absent}
    /\ call \in [Writers -> [step : {"idle", "ready", "moved", "checked", "installed",
                                     "kept", "done"},
                             before : Values \cup {Absent}, after : Contents \cup {Absent},
                             backup : Values \cup {Absent}, id : 0..MaxEdits]]
    /\ records \in Seq([before : Values \cup {Absent}, after : Contents,
                        status : {"data", "pending", "approved", "rejected", "torn"},
                        time : Nat])
    /\ review.step \in {"idle", "load", "restore", "fill", "mark"}
    /\ review.verdict \in {"none", "approved", "rejected"}
    /\ saves \in 0..MaxSaves
    /\ mine \in Contents \cup {Absent} /\ left \in BOOLEAN
    /\ base \in Values \cup {Absent}

\* What the user put in the file is not lost to an edit, its review, a failure or a
\* crash: it is in the file, in a backup file, or kept with a checkpoint.  That is
\* not so of what came to the file while a write or a review that had compared it
\* already was about to change it (Unnoticed; there `mine` is Absent).
Preserved ==
    mine # Absent =>
        \/ mine = file \/ left
        \/ \E w \in DOMAIN call : call[w].backup = mine
        \/ \E k \in DOMAIN records : mine \in {records[k].before, records[k].after}

\* "Rejection refuses to overwrite any file changed after the checkpoint": what a
\* rejection writes over is what the edit left (CheckpointStore::restore).
RefusesChanged ==
    [][review.step = "restore" /\ review'.step \in {"fill", "mark"} =>
          MayRestore(Head(review.queue))]_vars

\* A rejection of all pending checkpoints takes the file back to where the edits
\* started from; it may stop before that only where the clock did not advance from
\* one edit to a later one, so that the newest do not come first.
RejectAllUndoes ==
    [][base # Torn /\ review.step = "load" /\ review' = Resting =>
          IF review.queue = <<>> THEN file = base
          ELSE \E k, l \in DOMAIN records :
                  k < l /\ records[k].time >= records[l].time]_vars
=============================================================================
