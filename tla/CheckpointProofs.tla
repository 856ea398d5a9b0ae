-------------------------- MODULE CheckpointProofs --------------------------
(***************************************************************************)
(* What the user saved survives, unless it was saved unnoticed, and        *)
(* rejecting everything undoes everything where the clock advanced, for    *)
(* any number of calls writing the file, contents, checkpoints and saves.  *)
(***************************************************************************)
EXTENDS Checkpoints, FiniteSetTheorems, TLAPS

\* Absent and Torn are no contents.
Marks ==
    /\ Absent \notin Contents /\ Torn \notin Contents /\ Absent # Torn
    /\ MaxEdits \in Nat /\ MaxSaves \in Nat

Cells == Values \cup {Absent}
Steps == {"idle", "ready", "moved", "checked", "installed", "kept", "done"}
Calls == [step : Steps, before : Cells, after : Contents \cup {Absent}, backup : Cells,
          id : 0..MaxEdits]
Checkpoint == [before : Cells, after : Contents,
               status : {"data", "pending", "approved", "rejected", "torn"}, time : Nat]
Reviews == [step : {"idle", "load", "restore", "fill", "mark"},
            verdict : {"none", "approved", "rejected"}, queue : Seq(Nat)]

(***************************************************************************)
(* What a call knows: c, with the checkpoints rs.                          *)
(***************************************************************************)
CallOK(c, rs) ==
    /\ c.step # "idle" => c.after \in Contents
    /\ c.step \in {"idle", "ready"} => c.backup = Absent
    /\ c.step \in {"checked", "installed", "kept", "done"} => c.backup = c.before
    /\ c.step \in {"kept", "done"} => c.id \in DOMAIN rs /\ rs[c.id].before = c.before

ReviewOK ==
    /\ review \in Reviews
    /\ review.step # "idle" => review.verdict # "none"
    /\ review.step \in {"restore", "fill", "mark"} => review.queue # <<>>
    /\ \A i \in DOMAIN review.queue : review.queue[i] \in DOMAIN records

\* The user's work is somewhere else than in the file.
Kept ==
    \/ left
    \/ \E w \in Writers : call[w].backup = mine
    \/ \E k \in DOMAIN records : mine \in {records[k].before, records[k].after}

\* It is only in the file while nobody is about to overwrite the file unseen.
Safe == mine # Absent => Kept \/ (mine = file /\ ~Unnoticed(Writers))

Inv ==
    /\ file \in Cells /\ call \in [Writers -> Calls] /\ records \in Seq(Checkpoint)
    /\ saves \in 0..MaxSaves /\ mine \in Contents \cup {Absent} /\ left \in BOOLEAN
    /\ base \in Cells
    /\ \A w \in Writers : CallOK(call[w], records)
    /\ ReviewOK
    /\ Safe

LEMMA InvTypes == ASSUME Inv PROVE TypeOK
BY DEF Inv, TypeOK, ReviewOK, Reviews, Calls, Checkpoint, Cells, Steps

LEMMA InvPreserves == ASSUME Inv PROVE Preserved
BY DEF Inv, Safe, Kept, Preserved

----------------------------------------------------------------------------
LEMMA InitHolds == ASSUME Marks, Init PROVE Inv
<1>1. Idle \in Calls /\ CallOK(Idle, records)
  BY DEF Marks, Idle, Calls, Steps, Cells, CallOK
<1>2. call \in [Writers -> Calls] /\ \A w \in Writers : call[w] = Idle
  BY <1>1 DEF Init
<1>3. ReviewOK
  BY DEF Init, Resting, ReviewOK, Reviews
<1>4. ~Unnoticed(Writers)
  BY <1>2 DEF Init, Unnoticed, Resting, Idle
<1>5. Safe
  BY <1>4 DEF Init, Safe
<1>6. saves \in 0..MaxSaves /\ records \in Seq(Checkpoint) /\ left \in BOOLEAN
  <2>1. saves = 0 /\ 0 \in 0..MaxSaves /\ records = <<>> /\ left = FALSE
    BY DEF Init, Marks
  <2>2. <<>> \in Seq(Checkpoint)
    OBVIOUS
  <2>. QED  BY <2>1, <2>2
<1>7. file \in Cells /\ base \in Cells /\ mine \in Contents \cup {Absent}
  BY DEF Init, Cells, Values
<1>. QED  BY <1>1, <1>2, <1>3, <1>5, <1>6, <1>7 DEF Inv

(***************************************************************************)
(* A step of a call that creates no checkpoint.                            *)
(***************************************************************************)
LEMMA CallKeeps ==
    ASSUME Inv, NEW w \in Writers, NEW r \in Calls,
           call' = [call EXCEPT ![w] = r], CallOK(r, records),
           file' \in Cells, mine' \in {mine, Absent}, left' \in BOOLEAN, base' \in Cells,
           UNCHANGED <<records, review, saves>>,
           Safe'
    PROVE  Inv'
<1>1. call \in [Writers -> Calls]
  BY DEF Inv
<1>2. call' \in [Writers -> Calls] /\ call'[w] = r /\ \A v \in Writers : v # w => call'[v] = call[v]
  BY <1>1
<1>3. \A v \in Writers : CallOK(call'[v], records')
  BY <1>2 DEF Inv
<1>4. ReviewOK'
  BY DEF Inv, ReviewOK
<1>. QED  BY <1>2, <1>3, <1>4 DEF Inv

\* What is in the file when it is not watched, or not there, is kept elsewhere.
LEMMA Watched ==
    ASSUME Inv, mine # Absent, Unnoticed(Writers) \/ file = Absent
    PROVE  Kept
BY DEF Inv, Safe

\* A call's backup comes back to the file, and the call ends.
LEMMA PutBackKeeps ==
    ASSUME Marks, Inv, NEW w \in Writers, PutBack(w),
           call[w].step \in {"moved", "checked", "installed", "kept"},
           base' \in Cells, UNCHANGED <<records, review, saves, left>>
    PROVE  Inv'
<1>1. call \in [Writers -> Calls] /\ call[w] \in Calls
  BY DEF Inv
<1>2. Idle \in Calls /\ CallOK(Idle, records) /\ Idle.backup = Absent /\ Idle.step = "idle"
  BY DEF Marks, Idle, Calls, Steps, Cells, CallOK
<1>3. call' = [call EXCEPT ![w] = Idle] /\ file' = call[w].backup
      /\ mine' = IF Unnoticed(Writers \ {w}) THEN Absent ELSE mine
  BY DEF PutBack, Return
<1>4. call'[w] = Idle /\ \A v \in Writers : v # w => call'[v] = call[v]
  BY <1>1, <1>3
<1>5. file' \in Cells
  BY <1>1, <1>3 DEF Calls
<1>6. Safe'
  <2>. SUFFICES ASSUME mine' # Absent PROVE Kept' \/ (mine' = file' /\ ~Unnoticed(Writers)')
    BY DEF Safe
  <2>1. mine' = mine /\ ~Unnoticed(Writers \ {w})
    BY <1>3
  <2>2. Unnoticed(Writers)
    BY DEF Unnoticed
  <2>3. Kept
    BY <2>1, <2>2, Watched
  <2>4. ~Unnoticed(Writers)'
    BY <1>2, <1>4, <2>1 DEF Unnoticed
  <2>5. CASE call[w].backup = mine
    BY <1>3, <2>1, <2>4, <2>5
  <2>6. CASE call[w].backup # mine
    BY <1>4, <2>1, <2>3, <2>6 DEF Kept
  <2>. QED  BY <2>5, <2>6
<1>7. mine' \in {mine, Absent} /\ left' \in BOOLEAN
  BY <1>3 DEF Inv
<1>. QED  BY <1>2, <1>3, <1>5, <1>6, <1>7, CallKeeps

----------------------------------------------------------------------------
(* write_file and edit_file.                                               *)

LEMMA ReadKeeps == ASSUME Marks, Inv, NEW w \in Writers, Read(w) PROVE Inv'
<1>1. call \in [Writers -> Calls] /\ call[w] \in Calls /\ file \in Cells
  BY DEF Inv
<1>2. PICK c \in Contents :
         call' = [call EXCEPT ![w].step = "ready", ![w].before = file, ![w].after = c]
  BY DEF Read
<1>. DEFINE r == [call[w] EXCEPT !.step = "ready", !.before = file, !.after = c]
<1>3. call' = [call EXCEPT ![w] = r]
  BY <1>1, <1>2
<1>4. /\ r \in Calls /\ r.step = "ready" /\ r.before = file /\ r.after = c
      /\ r.backup = call[w].backup
  BY <1>1 DEF Calls, Steps
<1>. HIDE DEF r
<1>5. CallOK(r, records)
  BY <1>4 DEF Inv, CallOK, Read
<1>6. call'[w] = r /\ \A v \in Writers : v # w => call'[v] = call[v]
  BY <1>1, <1>3
<1>7. Safe'
  <2>. SUFFICES ASSUME mine # Absent PROVE Kept' \/ (mine = file /\ ~Unnoticed(Writers)')
    BY DEF Safe, Read
  <2>1. Kept => Kept'
    BY <1>4, <1>6 DEF Kept, Read
  <2>2. CASE mine = file /\ ~Unnoticed(Writers)
    BY <1>4, <1>6, <2>2 DEF Unnoticed, Read
  <2>. QED  BY <2>1, <2>2 DEF Inv, Safe
<1>8. base' \in Cells
  BY DEF Inv, Read, Only, Cells, Values
<1>. QED  BY <1>1, <1>3, <1>4, <1>5, <1>7, <1>8, CallKeeps DEF Inv, Read

LEMMA GiveUpKeeps == ASSUME Marks, Inv, NEW w \in Writers, GiveUp(w) PROVE Inv'
<1>1. call \in [Writers -> Calls] /\ call' = [call EXCEPT ![w] = Idle]
  BY DEF Inv, GiveUp, Return
<1>2. Idle \in Calls /\ CallOK(Idle, records) /\ Idle.backup = Absent /\ Idle.step = "idle"
  BY DEF Marks, Idle, Calls, Steps, Cells, CallOK
<1>3. call'[w] = Idle /\ \A v \in Writers : v # w => call'[v] = call[v]
  BY <1>1
<1>4. call[w].backup = Absent
  BY DEF Inv, CallOK, GiveUp
<1>5. Safe'
  <2>. SUFFICES ASSUME mine # Absent PROVE Kept' \/ (mine = file /\ ~Unnoticed(Writers)')
    BY DEF Safe, GiveUp, history
  <2>1. Kept => Kept'
    BY <1>2, <1>3, <1>4 DEF Kept, GiveUp, history
  <2>2. Unnoticed(Writers)' => Unnoticed(Writers)
    BY <1>2, <1>3 DEF Unnoticed, GiveUp
  <2>. QED  BY <2>1, <2>2 DEF Inv, Safe
<1>. QED  BY <1>1, <1>2, <1>5, CallKeeps DEF Inv, GiveUp, history

LEMMA MoveAwayKeeps == ASSUME Marks, Inv, NEW w \in Writers, MoveAway(w) PROVE Inv'
<1>1. call \in [Writers -> Calls] /\ call[w] \in Calls /\ file \in Cells /\ call[w].step = "ready"
  BY DEF Inv, MoveAway
<1>2. CASE file = Absent
  <2>1. GiveUp(w)
    BY <1>2 DEF MoveAway, GiveUp, Return
  <2>. QED  BY <2>1, GiveUpKeeps
<1>3. CASE file # Absent
  <2>. DEFINE r == [call[w] EXCEPT !.step = "moved", !.backup = file]
  <2>1. call' = [call EXCEPT ![w].step = "moved", ![w].backup = file] /\ file' = Absent
    BY <1>3 DEF MoveAway
  <2>2. call' = [call EXCEPT ![w] = r]
    BY <1>1, <2>1
  <2>3. /\ r \in Calls /\ r.step = "moved" /\ r.backup = file /\ r.after = call[w].after
    BY <1>1 DEF Calls, Steps
  <2>. HIDE DEF r
  <2>4. CallOK(r, records)
    BY <1>1, <2>3 DEF Inv, CallOK
  <2>5. call'[w] = r /\ \A v \in Writers : v # w => call'[v] = call[v]
    BY <1>1, <2>2
  <2>6. Safe'
    <3>. SUFFICES ASSUME mine # Absent PROVE Kept'
      BY DEF Safe, MoveAway, history
    <3>1. call[w].backup = Absent
      BY <1>1 DEF Inv, CallOK
    <3>2. CASE mine = file
      BY <2>3, <2>5, <3>2 DEF Kept, MoveAway, history
    <3>3. CASE mine # file
      <4>1. Kept
        BY <3>3 DEF Inv, Safe
      <4>. QED  BY <2>5, <3>1, <4>1 DEF Kept, MoveAway, history
    <3>. QED  BY <3>2, <3>3
  <2>7. file' \in Cells
    BY <2>1 DEF Cells
  <2>. QED  BY <2>2, <2>3, <2>4, <2>6, <2>7, CallKeeps DEF Inv, MoveAway, history
<1>. QED  BY <1>2, <1>3

\* A call in its dangerous part goes on in it.
LEMMA GoesOn ==
    ASSUME Inv, NEW w \in Writers, NEW s \in Steps,
           call' = [call EXCEPT ![w].step = s], CallOK([call[w] EXCEPT !.step = s], records),
           Unnoticed(Writers), file' \in Cells,
           UNCHANGED <<records, review, saves, mine, left, base>>
    PROVE  Inv'
<1>1. call \in [Writers -> Calls] /\ call[w] \in Calls
  BY DEF Inv
<1>. DEFINE r == [call[w] EXCEPT !.step = s]
<1>2. call' = [call EXCEPT ![w] = r] /\ r \in Calls /\ r.backup = call[w].backup
  BY <1>1 DEF Calls
<1>3. call'[w] = r /\ \A v \in Writers : v # w => call'[v] = call[v]
  BY <1>1, <1>2
<1>. HIDE DEF r
<1>4. Safe'
  <2>. SUFFICES ASSUME mine # Absent PROVE Kept'
    BY DEF Safe
  <2>1. Kept
    BY Watched
  <2>. QED  BY <1>2, <1>3, <2>1 DEF Kept
<1>. QED  BY <1>2, <1>4, CallKeeps DEF Inv, r

LEMMA StepTo ==
    ASSUME Inv, NEW w \in Writers, NEW s \in Steps
    PROVE  LET r == [call[w] EXCEPT !.step = s] IN
           /\ r.step = s /\ r.before = call[w].before /\ r.after = call[w].after
           /\ r.backup = call[w].backup /\ r.id = call[w].id
BY DEF Inv, Calls

LEMMA VerifyKeeps == ASSUME Marks, Inv, NEW w \in Writers, Verify(w) PROVE Inv'
<1>1. CASE call[w].backup = call[w].before
  <2>1. "checked" \in Steps /\ call[w].step = "moved"
    BY DEF Steps, Verify
  <2>2. CallOK([call[w] EXCEPT !.step = "checked"], records)
    BY <1>1, <2>1, StepTo DEF Inv, CallOK
  <2>3. Unnoticed(Writers)
    BY <2>1 DEF Unnoticed
  <2>. QED  BY <1>1, <2>1, <2>2, <2>3, GoesOn DEF Verify, Step, Inv
<1>2. CASE call[w].backup # call[w].before
  BY <1>2, PutBackKeeps DEF Verify, Inv
<1>. QED  BY <1>1, <1>2

LEMMA InstallKeeps == ASSUME Marks, Inv, NEW w \in Writers, Install(w) PROVE Inv'
<1>1. "installed" \in Steps /\ call[w].step \in {"ready", "checked"}
  BY DEF Steps, Install, Installable
<1>2. CallOK([call[w] EXCEPT !.step = "installed"], records)
  BY <1>1, StepTo DEF Inv, CallOK, Install, Installable
<1>3. Unnoticed(Writers)
  BY DEF Unnoticed, Install, Installable
<1>4. file' \in Cells
  BY <1>1 DEF Install, Inv, CallOK, Cells, Values
<1>. QED  BY <1>1, <1>2, <1>3, <1>4, GoesOn DEF Install, Step, history

LEMMA UndoKeeps == ASSUME Marks, Inv, NEW w \in Writers, Undo(w) PROVE Inv'
<1>1. base' \in Cells
  BY DEF Inv, Undo, Only, Cells, Values
<1>. QED  BY <1>1, PutBackKeeps DEF Undo

\* A new checkpoint has the preimage of the edit.
LEMMA KeepKeeps == ASSUME Marks, Inv, NEW w \in Writers, Keep(w) PROVE Inv'
<1>1. /\ call \in [Writers -> Calls] /\ call[w] \in Calls /\ records \in Seq(Checkpoint)
      /\ call[w].step = "installed" /\ Len(records) < MaxEdits
      /\ call[w].after \in Contents /\ call[w].backup = call[w].before
  BY DEF Inv, Keep, CallOK
<1>. DEFINE e == [before |-> call[w].before, after |-> call[w].after, status |-> "data", time |-> 0]
            n == Len(records) + 1
            r == [call[w] EXCEPT !.step = "kept", !.id = n]
<1>2. records' = Append(records, e) /\ e \in Checkpoint /\ e.before = call[w].before
  BY <1>1 DEF Keep, Checkpoint, Calls
<1>3. n \in 1..MaxEdits
  BY <1>1 DEF Marks
<1>4. call' = [call EXCEPT ![w] = r]
  <2>1. call' = [call EXCEPT ![w].step = "kept", ![w].id = n]
    BY DEF Keep
  <2>. HIDE DEF n
  <2>. QED  BY <1>1, <2>1
<1>5. /\ r \in Calls /\ r.step = "kept" /\ r.id = n
      /\ r.before = call[w].before /\ r.after = call[w].after /\ r.backup = call[w].backup
  <2>1. n \in 0..MaxEdits
    BY <1>3
  <2>. HIDE DEF n
  <2>. QED  BY <1>1, <2>1 DEF Calls, Steps
<1>. HIDE DEF e, r
<1>6. /\ records' \in Seq(Checkpoint) /\ DOMAIN records' = DOMAIN records \cup {n}
      /\ records'[n] = e /\ \A k \in DOMAIN records : records'[k] = records[k]
  BY <1>1, <1>2
<1>7. call'[w] = r /\ call' \in [Writers -> Calls] /\ \A v \in Writers : v # w => call'[v] = call[v]
  BY <1>1, <1>4, <1>5
<1>8. \A v \in Writers : CallOK(call'[v], records')
  <2>. SUFFICES ASSUME NEW v \in Writers PROVE CallOK(call'[v], records')
    OBVIOUS
  <2>1. CASE v = w
    BY <1>1, <1>2, <1>5, <1>6, <1>7, <2>1 DEF CallOK
  <2>2. CASE v # w
    BY <1>6, <1>7, <2>2 DEF CallOK, Inv
  <2>. QED  BY <2>1, <2>2
<1>. HIDE DEF n
<1>9. ReviewOK'
  BY <1>6 DEF Inv, ReviewOK, Keep
<1>10. Safe'
  <2>. SUFFICES ASSUME mine # Absent PROVE Kept'
    BY DEF Safe, Keep, history
  <2>1. Kept
    BY <1>1, Watched DEF Unnoticed
  <2>2. UNCHANGED <<left, mine>>
    BY DEF Keep, history
  <2>3. \A v \in Writers : call'[v].backup = call[v].backup
    BY <1>5, <1>7
  <2>. QED  BY <1>6, <2>1, <2>2, <2>3 DEF Kept
<1>. QED  BY <1>6, <1>7, <1>8, <1>9, <1>10 DEF Inv, Keep, history

----------------------------------------------------------------------------
(* A checkpoint's status changes, but not what it keeps.                   *)

LEMMA StatusKeeps ==
    ASSUME Inv, NEW k \in DOMAIN records,
           NEW s \in {"data", "pending", "approved", "rejected", "torn"}, NEW t \in Nat,
           records' = [records EXCEPT ![k].status = s] \/
              records' = [records EXCEPT ![k].status = s, ![k].time = t]
    PROVE  /\ records' \in Seq(Checkpoint) /\ DOMAIN records' = DOMAIN records
           /\ \A i \in DOMAIN records : /\ records'[i].before = records[i].before
                                        /\ records'[i].after = records[i].after
<1>1. records \in Seq(Checkpoint) /\ records[k] \in Checkpoint
  BY DEF Inv
<1>. PICK r : r = [before |-> records[k].before, after |-> records[k].after, status |-> s,
                   time |-> IF records' = [records EXCEPT ![k].status = s]
                            THEN records[k].time ELSE t]
  OBVIOUS
<1>2. records' = [records EXCEPT ![k] = r]
  BY <1>1 DEF Checkpoint
<1>3. r \in Checkpoint /\ r.before = records[k].before /\ r.after = records[k].after
  BY <1>1 DEF Checkpoint
<1>. QED  BY <1>1, <1>2, <1>3

LEMMA RecordKeeps == ASSUME Marks, Inv, NEW w \in Writers, Record(w) PROVE Inv'
<1>1. /\ call \in [Writers -> Calls] /\ call[w] \in Calls /\ call[w].step = "kept"
      /\ records \in Seq(Checkpoint)
      /\ call[w].id \in DOMAIN records
  BY DEF Inv, Record, CallOK
<1>2. PICK t \in Times :
         records' = [records EXCEPT ![call[w].id].status = "pending", ![call[w].id].time = t]
  BY DEF Record
<1>3. t \in Nat
  BY DEF Times, Marks
<1>4. /\ records' \in Seq(Checkpoint) /\ DOMAIN records' = DOMAIN records
      /\ \A i \in DOMAIN records : /\ records'[i].before = records[i].before
                                   /\ records'[i].after = records[i].after
  BY <1>1, <1>2, <1>3, StatusKeeps
<1>. DEFINE r == [call[w] EXCEPT !.step = "done"]
<1>5. /\ call' = [call EXCEPT ![w] = r] /\ r \in Calls
      /\ r.step = "done" /\ r.before = call[w].before /\ r.after = call[w].after
      /\ r.backup = call[w].backup /\ r.id = call[w].id
  BY <1>1 DEF Record, Step, Calls, Steps
<1>6. call'[w] = r /\ call' \in [Writers -> Calls] /\ \A v \in Writers : v # w => call'[v] = call[v]
  BY <1>1, <1>5
<1>. HIDE DEF r
<1>7. \A v \in Writers : CallOK(call'[v], records')
  <2>. SUFFICES ASSUME NEW v \in Writers PROVE CallOK(call'[v], records')
    OBVIOUS
  <2>1. CallOK(call[v], records)
    BY DEF Inv
  <2>2. CASE v = w
    BY <1>1, <1>4, <1>5, <1>6, <2>1, <2>2 DEF CallOK
  <2>3. CASE v # w
    BY <1>4, <1>6, <2>1, <2>3 DEF CallOK
  <2>. QED  BY <2>2, <2>3
<1>8. ReviewOK'
  BY <1>4 DEF Inv, ReviewOK, Record
<1>9. Safe'
  <2>. SUFFICES ASSUME mine # Absent PROVE Kept'
    BY DEF Safe, Record, history
  <2>1. Kept
    BY <1>1, Watched DEF Unnoticed
  <2>. QED  BY <1>4, <1>5, <1>6, <2>1 DEF Kept, Record, history
<1>. QED  BY <1>4, <1>6, <1>7, <1>8, <1>9 DEF Inv, Record, history

\* The backup that goes is in the checkpoint.
LEMMA ClearKeeps == ASSUME Marks, Inv, NEW w \in Writers, Clear(w) PROVE Inv'
<1>1. /\ call \in [Writers -> Calls] /\ call[w].step = "done" /\ call' = [call EXCEPT ![w] = Idle]
      /\ call[w].id \in DOMAIN records /\ records[call[w].id].before = call[w].backup
  BY DEF Inv, Clear, Return, CallOK
<1>2. Idle \in Calls /\ CallOK(Idle, records) /\ Idle.step = "idle"
  BY DEF Marks, Idle, Calls, Steps, Cells, CallOK
<1>3. call'[w] = Idle /\ \A v \in Writers : v # w => call'[v] = call[v]
  BY <1>1
<1>4. left' \in BOOLEAN /\ (left => left')
  BY Zenon DEF Inv, Clear
<1>5. Safe'
  <2>. SUFFICES ASSUME mine # Absent PROVE Kept' \/ (mine = file /\ ~Unnoticed(Writers)')
    BY DEF Safe, Clear
  <2>1. Kept => Kept'
    <3>1. CASE call[w].backup = mine
      BY <1>1, <3>1 DEF Kept, Clear
    <3>2. CASE call[w].backup # mine
      BY <1>3, <1>4, <3>2 DEF Kept, Clear
    <3>. QED  BY <3>1, <3>2
  <2>2. Unnoticed(Writers)' => Unnoticed(Writers)
    BY <1>2, <1>3 DEF Unnoticed, Clear
  <2>. QED  BY <2>1, <2>2 DEF Inv, Safe
<1>. QED  BY <1>1, <1>2, <1>4, <1>5, CallKeeps DEF Inv, Clear

LEMMA CrashKeeps == ASSUME Marks, Inv, NEW w \in Writers, Crash(w) PROVE Inv'
<1>1. call \in [Writers -> Calls] /\ call' = [call EXCEPT ![w] = Idle]
  BY DEF Inv, Crash, Return
<1>2. Idle \in Calls /\ CallOK(Idle, records) /\ Idle.step = "idle"
  BY DEF Marks, Idle, Calls, Steps, Cells, CallOK
<1>3. call'[w] = Idle /\ \A v \in Writers : v # w => call'[v] = call[v]
  BY <1>1
<1>4. left' \in BOOLEAN /\ (left => left') /\ (call[w].backup = mine => left')
  BY Zenon DEF Inv, Crash
<1>5. Safe'
  <2>. SUFFICES ASSUME mine # Absent PROVE Kept' \/ (mine = file' /\ ~Unnoticed(Writers)')
    BY DEF Safe, Crash
  <2>1. Kept => Kept'
    <3>1. CASE call[w].backup = mine
      BY <1>4, <3>1 DEF Kept
    <3>2. CASE call[w].backup # mine
      BY <1>3, <1>4, <3>2 DEF Kept, Crash
    <3>. QED  BY <3>1, <3>2
  <2>2. CASE Unnoticed(Writers)
    BY <2>1, <2>2, Watched
  <2>3. CASE ~Unnoticed(Writers)
    <3>1. ~Unnoticed(Writers)'
      BY <1>2, <1>3, <2>3 DEF Unnoticed, Crash
    <3>2. file' = file
      BY <2>3 DEF Crash, Unnoticed
    <3>. QED  BY <2>1, <3>1, <3>2 DEF Inv, Safe
  <2>. QED  BY <2>2, <2>3
<1>6. file' \in Cells /\ base' \in Cells
  BY DEF Inv, Crash, Only, Cells, Values
<1>. QED  BY <1>1, <1>2, <1>4, <1>5, <1>6, CallKeeps DEF Inv, Crash

----------------------------------------------------------------------------
(* /review.                                                                *)

LEMMA PendingFinite ==
    ASSUME Inv
    PROVE  IsFiniteSet(Pending) /\ Pending \in SUBSET Nat /\ Pending \subseteq DOMAIN records
<1>1. records \in Seq(Checkpoint) /\ Len(records) \in Nat /\ DOMAIN records = 1..Len(records)
  BY DEF Inv
<1>2. IsFiniteSet(1..Len(records))
  BY <1>1, FS_Interval
<1>. QED  BY <1>1, <1>2, FS_Subset DEF Pending

\* A step of a review that changes no checkpoint.
LEMMA ReviewKeeps ==
    ASSUME Inv, ReviewOK', file' \in Cells, base' \in Cells,
           UNCHANGED <<call, records, saves, mine, left>>,
           \/ file' = file /\ (Unnoticed(Writers)' => Unnoticed(Writers) \/ Kept)
           \/ Unnoticed(Writers)
    PROVE  Inv'
<1>1. Kept => Kept'
  BY DEF Kept
<1>2. Safe'
  BY <1>1, Watched DEF Inv, Safe
<1>. QED  BY <1>2 DEF Inv

LEMMA ReviewAllKeeps ==
    ASSUME Marks, Inv, NEW verdict \in {"approved", "rejected"}, ReviewAll(verdict) PROVE Inv'
<1>1. PICK q \in Orders(Pending) : review' = [step |-> "load", verdict |-> verdict, queue |-> q]
  BY DEF ReviewAll
<1>2. q \in Seq(Nat) /\ \A i \in DOMAIN q : q[i] \in DOMAIN records
  <2>. PICK n \in Nat : n = Cardinality(Pending)
    BY PendingFinite, FS_CardinalityType
  <2>1. q \in [1..n -> Pending]
    BY <1>1 DEF Orders
  <2>2. q \in [1..n -> Nat] /\ \A i \in 1..n : q[i] \in DOMAIN records
    BY <2>1, PendingFinite
  <2>. QED  BY <2>2
<1>3. ReviewOK'
  BY <1>1, <1>2 DEF ReviewOK, Reviews, ReviewAll
<1>4. Unnoticed(Writers)' => Unnoticed(Writers)
  BY <1>1 DEF Unnoticed, ReviewAll
<1>5. base' \in Cells
  BY DEF Inv, ReviewAll, Only, Cells, Values
<1>. QED  BY <1>3, <1>4, <1>5, ReviewKeeps DEF ReviewAll, Inv

LEMMA ReviewOneKeeps ==
    ASSUME Marks, Inv, NEW k \in DOMAIN records, NEW verdict \in {"approved", "rejected"},
           ReviewOne(k, verdict)
    PROVE  Inv'
<1>1. review' = [step |-> "load", verdict |-> verdict, queue |-> <<k>>]
  BY DEF ReviewOne
<1>2. <<k>> \in Seq(Nat) /\ \A i \in DOMAIN <<k>> : <<k>>[i] \in DOMAIN records
  BY DEF Inv
<1>3. ReviewOK'
  BY <1>1, <1>2 DEF ReviewOK, Reviews, ReviewOne
<1>4. Unnoticed(Writers)' => Unnoticed(Writers)
  BY <1>1 DEF Unnoticed, ReviewOne
<1>5. base' \in Cells
  BY DEF Inv, ReviewOne, Only, Cells, Values
<1>. QED  BY <1>3, <1>4, <1>5, ReviewKeeps DEF ReviewOne, Inv

LEMMA RestingIs ==
    /\ Resting \in Reviews /\ Resting.step = "idle" /\ Resting.queue = <<>>
BY DEF Resting, Reviews

\* The checkpoint under review.
LEMMA HeadIs ==
    ASSUME Inv, review.queue # <<>>
    PROVE  /\ Head(review.queue) \in DOMAIN records /\ Tail(review.queue) \in Seq(Nat)
           /\ \A i \in DOMAIN Tail(review.queue) : Tail(review.queue)[i] \in DOMAIN records
<1>1. review.queue \in Seq(Nat) /\ \A i \in DOMAIN review.queue : review.queue[i] \in DOMAIN records
  BY DEF Inv, ReviewOK, Reviews
<1>. QED  BY <1>1

LEMMA LoadKeeps == ASSUME Marks, Inv, Load PROVE Inv'
<1>1. review \in Reviews /\ review.step = "load" /\ review.verdict # "none"
  BY DEF Inv, ReviewOK, Load
<1>2. CASE review.queue = <<>> \/ Refuses(Head(review.queue))
  <2>1. review' = Resting
    BY <1>2 DEF Load
  <2>2. ReviewOK'
    BY <2>1, RestingIs DEF ReviewOK
  <2>3. Unnoticed(Writers)' => Unnoticed(Writers)
    BY <2>1, RestingIs DEF Unnoticed, Load
  <2>. QED  BY <2>2, <2>3, ReviewKeeps DEF Load, history, Inv
<1>3. CASE ~(review.queue = <<>> \/ Refuses(Head(review.queue)))
  <2>1. review' = [review EXCEPT !.step = IF review.verdict = "rejected" THEN "restore" ELSE "mark"]
    BY <1>3 DEF Load
  <2>2. ReviewOK'
    BY <1>1, <1>3, <2>1 DEF ReviewOK, Reviews, Inv, Load
  <2>3. CASE review.verdict = "rejected"
    <3>1. Head(review.queue) \in DOMAIN records /\ records[Head(review.queue)].after = file
      BY <1>3, <2>3, HeadIs DEF Refuses, MayRestore
    <3>2. mine = file => Kept
      BY <3>1 DEF Kept
    <3>3. Kept => Kept'
      BY DEF Kept, Load, history
    <3>4. Safe'
      BY <3>2, <3>3 DEF Safe, Inv, Load, history
    <3>. QED  BY <2>2, <3>4 DEF Inv, Load, history
  <2>4. CASE review.verdict # "rejected"
    <3>1. review'.step = "mark"
      BY <1>1, <2>1, <2>4 DEF Reviews
    <3>2. Unnoticed(Writers)' => Unnoticed(Writers)
      BY <3>1 DEF Unnoticed, Load
    <3>. QED  BY <2>2, <3>2, ReviewKeeps DEF Load, history, Inv
  <2>. QED  BY <2>3, <2>4
<1>. QED  BY <1>2, <1>3

LEMMA RestoreKeeps == ASSUME Marks, Inv, Restore PROVE Inv'
<1>1. PICK s \in {"mark", "fill"} : review' = [review EXCEPT !.step = s]
  BY DEF Restore
<1>2. review.step = "restore" /\ review \in Reviews /\ review.verdict # "none" /\ review.queue # <<>>
  BY DEF Restore, Inv, ReviewOK
<1>3. ReviewOK'
  BY <1>1, <1>2 DEF ReviewOK, Reviews, Inv, Restore
<1>4. file' \in Cells
  BY DEF Restore, Cells, Values
<1>. QED  BY <1>2, <1>3, <1>4, ReviewKeeps DEF Restore, history, Inv, Unnoticed

LEMMA FillKeeps == ASSUME Marks, Inv, Fill PROVE Inv'
<1>1. /\ review.step = "fill" /\ review \in Reviews /\ review.verdict # "none"
      /\ review.queue # <<>> /\ records \in Seq(Checkpoint)
  BY DEF Fill, Inv, ReviewOK
<1>2. ReviewOK'
  BY <1>1 DEF ReviewOK, Reviews, Inv, Fill
<1>3. file' \in Cells
  <2>1. records[Head(review.queue)] \in Checkpoint
    BY <1>1, HeadIs
  <2>. QED  BY <2>1 DEF Fill, Checkpoint
<1>. QED  BY <1>1, <1>2, <1>3, ReviewKeeps DEF Fill, history, Inv, Unnoticed

\* A review that settles a checkpoint, or breaks off.
LEMMA SettleKeeps ==
    ASSUME Inv, review' \in Reviews,
           review'.step = "idle" \/ (review'.step = "load" /\ review'.verdict # "none"),
           \A i \in DOMAIN review'.queue : review'.queue[i] \in DOMAIN records,
           records' \in Seq(Checkpoint), DOMAIN records' = DOMAIN records,
           \A i \in DOMAIN records : /\ records'[i].before = records[i].before
                                     /\ records'[i].after = records[i].after,
           base' \in Cells, UNCHANGED <<file, call, saves, mine, left>>
    PROVE  Inv'
<1>1. \A w \in Writers : CallOK(call'[w], records')
  BY DEF Inv, CallOK
<1>2. ReviewOK'
  BY DEF ReviewOK
<1>3. Kept => Kept'
  BY DEF Kept
<1>4. Unnoticed(Writers)' => Unnoticed(Writers)
  BY DEF Unnoticed
<1>5. Safe'
  BY <1>3, <1>4 DEF Inv, Safe
<1>. QED  BY <1>1, <1>2, <1>5 DEF Inv

LEMMA MarkKeeps == ASSUME Marks, Inv, Mark PROVE Inv'
<1>. DEFINE k == Head(review.queue)
<1>1. /\ review.step = "mark" /\ review \in Reviews /\ review.verdict \in {"approved", "rejected"}
      /\ review.queue # <<>>
  BY DEF Mark, Inv, ReviewOK, Reviews
<1>2. k \in DOMAIN records
  BY <1>1, HeadIs
<1>3. records' = [records EXCEPT ![k].status = review.verdict]
      /\ review' = [review EXCEPT !.step = "load", !.queue = Tail(review.queue)]
  BY DEF Mark
<1>. HIDE DEF k
<1>4. /\ records' \in Seq(Checkpoint) /\ DOMAIN records' = DOMAIN records
      /\ \A i \in DOMAIN records : /\ records'[i].before = records[i].before
                                   /\ records'[i].after = records[i].after
  <2>1. 0 \in Nat
    OBVIOUS
  <2>. QED  BY <1>1, <1>2, <1>3, <2>1, StatusKeeps
<1>5. /\ review' \in Reviews /\ review'.step = "load" /\ review'.verdict # "none"
      /\ review'.queue = Tail(review.queue)
  BY <1>1, <1>3, HeadIs DEF Reviews
<1>. QED  BY <1>1, <1>4, <1>5, HeadIs, SettleKeeps DEF Mark, history, Inv

LEMMA AbandonKeeps == ASSUME Marks, Inv, Abandon PROVE Inv'
<1>. DEFINE k == Head(review.queue)
<1>1. k \in DOMAIN records
  BY HeadIs DEF Abandon, Inv, ReviewOK
<1>2. records' = records \/ records' = [records EXCEPT ![k].status = "torn"]
  BY DEF Abandon
<1>. HIDE DEF k
<1>3. /\ records' \in Seq(Checkpoint) /\ DOMAIN records' = DOMAIN records
      /\ \A i \in DOMAIN records : /\ records'[i].before = records[i].before
                                   /\ records'[i].after = records[i].after
  <2>1. CASE records' = records
    BY <2>1 DEF Inv
  <2>2. CASE records' = [records EXCEPT ![k].status = "torn"]
    <3>1. 0 \in Nat
      OBVIOUS
    <3>. QED  BY <1>1, <2>2, <3>1, StatusKeeps
  <2>. QED  BY <1>2, <2>1, <2>2
<1>4. review' = Resting /\ base' \in Cells
  BY DEF Abandon, Inv, Only, Cells, Values
<1>. QED  BY <1>3, <1>4, RestingIs, SettleKeeps DEF Abandon

----------------------------------------------------------------------------
LEMMA SaveKeeps == ASSUME Marks, Inv, NEW c \in Contents \cup {Absent}, Save(c) PROVE Inv'
<1>1. Safe'
  <2>1. Unnoticed(Writers)' <=> Unnoticed(Writers)
    BY DEF Unnoticed, Save
  <2>. QED  BY <2>1 DEF Safe, Save
<1>2. ReviewOK'
  BY DEF Inv, ReviewOK, Save
<1>3. saves' \in 0..MaxSaves
  BY DEF Inv, Save, Marks
<1>. QED  BY <1>1, <1>2, <1>3 DEF Inv, Save, Only, Cells, Values

LEMMA NextKeeps == ASSUME Marks, Inv, [Next]_vars PROVE Inv'
<1>1. ASSUME NEW w \in Writers,
             \/ Read(w) \/ GiveUp(w) \/ MoveAway(w) \/ Verify(w) \/ Install(w)
             \/ Undo(w) \/ Keep(w) \/ Record(w) \/ Clear(w) \/ Crash(w)
      PROVE  Inv'
  BY <1>1, ReadKeeps, GiveUpKeeps, MoveAwayKeeps, VerifyKeeps, InstallKeeps, UndoKeeps, KeepKeeps,
     RecordKeeps, ClearKeeps, CrashKeeps
<1>2. ASSUME NEW verdict \in {"approved", "rejected"},
             ReviewAll(verdict) \/ \E k \in DOMAIN records : ReviewOne(k, verdict)
      PROVE  Inv'
  BY <1>2, ReviewAllKeeps, ReviewOneKeeps
<1>3. CASE Load \/ Restore \/ Fill \/ Mark \/ Abandon
  BY <1>3, LoadKeeps, RestoreKeeps, FillKeeps, MarkKeeps, AbandonKeeps
<1>4. CASE \E c \in Contents \cup {Absent} : Save(c)
  BY <1>4, SaveKeeps
<1>5. CASE UNCHANGED vars
  BY <1>5 DEF vars, Inv, CallOK, ReviewOK, Safe, Kept, Unnoticed
<1>. QED  BY <1>1, <1>2, <1>3, <1>4, <1>5 DEF Next

----------------------------------------------------------------------------
\* The invariant of edits, their checkpoints and reviews (install_checkpointed_write,
\* record_edit, decide).
THEOREM Invariance == ASSUME Marks PROVE Spec => []Inv
BY InitHolds, NextKeeps, PTL DEF Spec

\* Every variable has its type.
THEOREM TypeCorrect == ASSUME Marks PROVE Spec => []TypeOK
<1>1. Inv => TypeOK
  BY InvTypes
<1>. QED  BY <1>1, Invariance, PTL

\* What the user put in the file is not lost to an edit, its review, a failure or
\* a crash, unless it came there while a write or a review that had compared the
\* file already was about to change it (install_checkpointed_write,
\* CheckpointStore::decide).
THEOREM UsersWorkSurvives == ASSUME Marks PROVE Spec => []Preserved
<1>1. Inv => Preserved
  BY InvPreserves
<1>. QED  BY <1>1, Invariance, PTL

----------------------------------------------------------------------------
(***************************************************************************)
(* Why rejecting everything undoes everything.  While base is not Torn the *)
(* pending checkpoints lead from it to h, what the file holds between two  *)
(* edits: every content is left as often as it is reached (Flow), so when  *)
(* none is pending any more h is base.  If no two have the same time they  *)
(* lead there one after the other (Chain), so the newest may be restored.  *)
(***************************************************************************)
One(x, v) == IF x = v THEN 1 ELSE 0
From(P, rs, v) == {k \in P : rs[k].before = v}
To(P, rs, v) == {k \in P : rs[k].after = v}

Flow(P, rs, s, h) ==
    \A v \in Cells :
        Cardinality(From(P, rs, v)) + One(h, v) = Cardinality(To(P, rs, v)) + One(s, v)

Chain(P, rs, s, h) ==
    /\ P = {} => h = s
    /\ \A k \in P : (\A l \in P : l >= k) => rs[k].before = s
    /\ \A k \in P : (\A l \in P : l <= k) => rs[k].after = h
    /\ \A k, l \in P : k < l /\ (\A m \in P : m <= k \/ m >= l) => rs[l].before = rs[k].after

\* The checkpoints on disk with their time, each at a later time than those before.
Settled(rs) == {k \in DOMAIN rs : rs[k].status # "data"}
Rising(rs) == \A k, l \in Settled(rs) : k < l => rs[k].time < rs[l].time

Under == {"moved", "checked", "installed", "kept"}
Rejecting == review.step \in {"restore", "fill", "mark"}

At(h) ==
    /\ \A w \in Writers : call[w].step \in Under => h = call[w].before
    /\ Rejecting => h = records[Head(review.queue)].after
    /\ ~Rejecting /\ (\A w \in Writers : call[w].step \notin Under) => h = file

Undisturbed(c) ==
    /\ c.step = "ready" => c.before = file
    /\ c.step = "moved" => c.backup = c.before
    /\ c.step \in {"installed", "kept"} => file = c.after
    /\ c.step = "kept" => /\ c.id = Len(records) /\ records[c.id].after = c.after
                          /\ records[c.id].status = "data"

\* The queue of a rejection of everything: what is pending, the newest first.
Rejects(q) ==
    /\ \A i \in DOMAIN q : q[i] \in Pending
    /\ \A k \in Pending : \E i \in DOMAIN q : q[i] = k
    /\ \A i, j \in DOMAIN q : i < j => q[i] # q[j] /\ records[q[i]].time >= records[q[j]].time

ReviewTidy ==
    /\ review.step # "idle" =>
          Busy = {} /\ review.verdict = "rejected" /\ Rejects(review.queue)
    /\ review.step = "restore" => file = records[Head(review.queue)].after
    /\ review.step = "mark" => file = records[Head(review.queue)].before

Leads(h) ==
    /\ At(h)
    /\ Flow(Pending, records, base, h)
    /\ Rising(records) => Chain(Pending, records, base, h)

Tidy ==
    /\ \A v, w \in Writers : call[v].step # "idle" /\ call[w].step # "idle" => v = w
    /\ \A w \in Writers : Undisturbed(call[w])
    /\ \A k \in DOMAIN records : records[k].status = "data" =>
          \E w \in Writers : call[w].step = "kept" /\ call[w].id = k
    /\ ReviewTidy
    /\ \E h \in Cells : Leads(h)

Orderly ==
    /\ review.step = "idle" => review = Resting
    /\ base # Torn => Tidy

----------------------------------------------------------------------------
(* What Flow and Chain say of one checkpoint more or less.                 *)

LEMMA FlowAdds ==
    ASSUME NEW P, IsFiniteSet(P), NEW n, n \notin P, NEW rs, NEW rt, NEW s, NEW h,
           \A k \in P : rt[k].before = rs[k].before /\ rt[k].after = rs[k].after,
           rt[n].before = h, Flow(P, rs, s, h)
    PROVE  Flow(P \cup {n}, rt, s, rt[n].after)
<1>. SUFFICES ASSUME NEW v \in Cells
              PROVE  Cardinality(From(P \cup {n}, rt, v)) + One(rt[n].after, v)
                        = Cardinality(To(P \cup {n}, rt, v)) + One(s, v)
  BY DEF Flow
<1>1. /\ IsFiniteSet(From(P, rs, v)) /\ IsFiniteSet(To(P, rs, v))
      /\ n \notin From(P, rs, v) /\ n \notin To(P, rs, v)
  BY FS_Subset DEF From, To
<1>2. From(P \cup {n}, rt, v) = IF h = v THEN From(P, rs, v) \cup {n} ELSE From(P, rs, v)
  BY DEF From
<1>3. To(P \cup {n}, rt, v) = IF rt[n].after = v THEN To(P, rs, v) \cup {n} ELSE To(P, rs, v)
  BY DEF To
<1>4. /\ Cardinality(From(P, rs, v) \cup {n}) = Cardinality(From(P, rs, v)) + 1
      /\ Cardinality(To(P, rs, v) \cup {n}) = Cardinality(To(P, rs, v)) + 1
      /\ Cardinality(From(P, rs, v)) \in Nat /\ Cardinality(To(P, rs, v)) \in Nat
  BY <1>1, FS_AddElement, FS_CardinalityType
<1>5. Cardinality(From(P, rs, v)) + One(h, v) = Cardinality(To(P, rs, v)) + One(s, v)
  BY DEF Flow
<1>. QED  BY <1>2, <1>3, <1>4, <1>5 DEF One

LEMMA FlowRemoves ==
    ASSUME NEW P, IsFiniteSet(P), NEW n \in P, NEW rs, NEW rt, NEW s, NEW h,
           \A k \in P : rt[k].before = rs[k].before /\ rt[k].after = rs[k].after,
           rs[n].after = h, Flow(P, rs, s, h)
    PROVE  Flow(P \ {n}, rt, s, rs[n].before)
<1>. SUFFICES ASSUME NEW v \in Cells
              PROVE  Cardinality(From(P \ {n}, rt, v)) + One(rs[n].before, v)
                        = Cardinality(To(P \ {n}, rt, v)) + One(s, v)
  BY DEF Flow
<1>1. IsFiniteSet(From(P, rs, v)) /\ IsFiniteSet(To(P, rs, v))
  BY FS_Subset DEF From, To
<1>2. From(P \ {n}, rt, v) = From(P, rs, v) \ {n} /\ (n \in From(P, rs, v) <=> rs[n].before = v)
  BY DEF From
<1>3. To(P \ {n}, rt, v) = To(P, rs, v) \ {n} /\ (n \in To(P, rs, v) <=> h = v)
  BY DEF To
<1>. DEFINE F == From(P, rs, v)
            T == To(P, rs, v)
<1>4. IsFiniteSet(F) /\ IsFiniteSet(T)
  BY <1>1
<1>5. Cardinality(F) + One(h, v) = Cardinality(T) + One(s, v)
  BY DEF Flow
<1>6. n \in F <=> One(rs[n].before, v) = 1
  BY <1>2 DEF One
<1>7. n \in T <=> One(h, v) = 1
  BY <1>3 DEF One
<1>8. One(rs[n].before, v) \in {0, 1} /\ One(h, v) \in {0, 1} /\ One(s, v) \in {0, 1}
  BY DEF One
<1>. HIDE DEF F, T
<1>9. Cardinality(F) \in Nat /\ Cardinality(F \ {n}) = Cardinality(F) - One(rs[n].before, v)
  BY <1>4, <1>6, <1>8, FS_RemoveElement, FS_CardinalityType
<1>10. Cardinality(T) \in Nat /\ Cardinality(T \ {n}) = Cardinality(T) - One(h, v)
  BY <1>4, <1>7, <1>8, FS_RemoveElement, FS_CardinalityType
<1>11. Cardinality(F \ {n}) + One(rs[n].before, v) = Cardinality(T \ {n}) + One(s, v)
  BY <1>5, <1>8, <1>9, <1>10
<1>. QED  BY <1>2, <1>3, <1>11 DEF F, T

\* Only the contents of these checkpoints count.
LEMMA SameFlow ==
    ASSUME NEW P, NEW rs, NEW rt, NEW s, NEW h, Flow(P, rs, s, h),
           \A k \in P : rt[k].before = rs[k].before /\ rt[k].after = rs[k].after
    PROVE  Flow(P, rt, s, h)
<1>1. \A v \in Cells : From(P, rt, v) = From(P, rs, v) /\ To(P, rt, v) = To(P, rs, v)
  BY DEF From, To
<1>. QED  BY <1>1 DEF Flow

LEMMA SameChain ==
    ASSUME NEW P, NEW rs, NEW rt, NEW s, NEW h, Chain(P, rs, s, h),
           \A k \in P : rt[k].before = rs[k].before /\ rt[k].after = rs[k].after
    PROVE  Chain(P, rt, s, h)
BY DEF Chain

LEMMA FlowEnds ==
    ASSUME NEW rs, NEW s \in Cells, NEW h \in Cells, Flow({}, rs, s, h)
    PROVE  h = s
<1>1. From({}, rs, s) = {} /\ To({}, rs, s) = {}
  BY DEF From, To
<1>2. 0 + One(h, s) = 0 + One(s, s)
  BY <1>1, FS_EmptySet DEF Flow
<1>. QED  BY <1>2 DEF One

LEMMA ChainAdds ==
    ASSUME NEW P \in SUBSET Nat, NEW n \in Nat, \A k \in P : k < n, NEW rs, NEW rt, NEW s, NEW h,
           \A k \in P : rt[k].before = rs[k].before /\ rt[k].after = rs[k].after,
           rt[n].before = h, Chain(P, rs, s, h)
    PROVE  Chain(P \cup {n}, rt, s, rt[n].after)
<1>1. \A k \in P : ~(n <= k)
  OBVIOUS
<1>2. \A k \in P \cup {n} : (\A l \in P \cup {n} : l >= k) => rt[k].before = s
  BY <1>1 DEF Chain
<1>3. \A k \in P \cup {n} : (\A l \in P \cup {n} : l <= k) => rt[k].after = rt[n].after
  BY <1>1
<1>4. \A k, l \in P \cup {n} :
         k < l /\ (\A m \in P \cup {n} : m <= k \/ m >= l) => rt[l].before = rt[k].after
  <2>. SUFFICES ASSUME NEW k \in P \cup {n}, NEW l \in P \cup {n}, k < l,
                       \A m \in P \cup {n} : m <= k \/ m >= l
                PROVE  rt[l].before = rt[k].after
    OBVIOUS
  <2>1. k \in P
    BY <1>1
  <2>2. CASE l = n
    <3>1. \A m \in P : m <= k
      BY <1>1, <2>2
    <3>. QED  BY <2>1, <2>2, <3>1 DEF Chain
  <2>3. CASE l \in P
    BY <2>1, <2>3 DEF Chain
  <2>. QED  BY <2>2, <2>3
<1>. QED  BY <1>2, <1>3, <1>4 DEF Chain

\* The newest checkpoint goes.
LEMMA ChainRemoves ==
    ASSUME NEW P \in SUBSET Nat, NEW n \in P, \A k \in P : k <= n, NEW rs, NEW rt, NEW s, NEW h,
           \A k \in P : rt[k].before = rs[k].before /\ rt[k].after = rs[k].after,
           Chain(P, rs, s, h)
    PROVE  Chain(P \ {n}, rt, s, rs[n].before)
<1>. DEFINE Q == P \ {n}
<1>1. \A k \in Q : k \in P /\ k < n
  OBVIOUS
<1>2. Q = {} => rs[n].before = s
  <2>. SUFFICES ASSUME Q = {} PROVE rs[n].before = s
    OBVIOUS
  <2>1. \A l \in P : l >= n
    OBVIOUS
  <2>. QED  BY <2>1 DEF Chain
<1>3. \A k \in Q : (\A l \in Q : l >= k) => rt[k].before = s
  <2>. SUFFICES ASSUME NEW k \in Q, \A l \in Q : l >= k PROVE rt[k].before = s
    OBVIOUS
  <2>1. \A l \in P : l >= k
    BY <1>1
  <2>. QED  BY <1>1, <2>1 DEF Chain
<1>4. \A k \in Q : (\A l \in Q : l <= k) => rt[k].after = rs[n].before
  <2>. SUFFICES ASSUME NEW k \in Q, \A l \in Q : l <= k PROVE rt[k].after = rs[n].before
    OBVIOUS
  <2>1. k < n /\ \A m \in P : m <= k \/ m >= n
    BY <1>1
  <2>. QED  BY <1>1, <2>1 DEF Chain
<1>5. \A k, l \in Q : k < l /\ (\A m \in Q : m <= k \/ m >= l) => rt[l].before = rt[k].after
  <2>. SUFFICES ASSUME NEW k \in Q, NEW l \in Q, k < l, \A m \in Q : m <= k \/ m >= l
                PROVE  rt[l].before = rt[k].after
    OBVIOUS
  <2>1. \A m \in P : m <= k \/ m >= l
    BY <1>1
  <2>. QED  BY <1>1, <2>1 DEF Chain
<1>. QED  BY <1>2, <1>3, <1>4, <1>5 DEF Chain
----------------------------------------------------------------------------
LEMMA InitOrderly == ASSUME Marks, Init PROVE Orderly
<1>1. records = <<>> /\ Pending = {} /\ file \in Cells /\ review.step = "idle" /\ base = file
  BY DEF Init, Pending, Cells, Values, Resting
<1>2. \A w \in Writers : call[w].step = "idle"
  BY DEF Init, Idle
<1>3. Flow({}, records, base, file)
  BY <1>1, FS_EmptySet DEF Flow, From, To
<1>4. Chain({}, records, base, file)
  BY <1>1 DEF Chain
<1>5. At(file)
  BY <1>1, <1>2 DEF At, Rejecting, Under
<1>6. Leads(file)
  BY <1>1, <1>3, <1>4, <1>5 DEF Leads
<1>7. ReviewTidy
  BY <1>1 DEF ReviewTidy
<1>8. \A w \in Writers : Undisturbed(call[w])
  BY <1>2 DEF Undisturbed
<1>9. \A k \in DOMAIN records : FALSE
  BY <1>1
<1>10. Tidy
  BY <1>1, <1>2, <1>6, <1>7, <1>8, <1>9 DEF Tidy
<1>. QED  BY <1>10 DEF Orderly, Init

\* A step that disturbs the order is of no consequence here.
LEMMA StaysOrderly ==
    ASSUME Orderly, review' = review \/ review'.step # "idle" \/ review' = Resting,
           base' # Torn => Tidy'
    PROVE  Orderly'
BY DEF Orderly

(***************************************************************************)
(* write_file and edit_file.                                               *)
(***************************************************************************)
\* While a call is busy nothing else is.
LEMMA AloneInIt ==
    ASSUME Tidy, NEW w \in Writers, call[w].step # "idle"
    PROVE  review.step = "idle" /\ \A v \in Writers : v # w => call[v].step = "idle"
BY DEF Tidy, ReviewTidy, Busy

LEMMA CallTidy ==
    ASSUME Inv, Tidy, NEW w \in Writers, NEW r \in Calls, call' = [call EXCEPT ![w] = r],
           review.step = "idle", \A v \in Writers : v # w => call[v].step = "idle",
           call[w].step # "kept", r.step # "kept",
           r.step = "ready" => r.before = file',
           r.step = "moved" => r.backup = r.before,
           r.step = "installed" => file' = r.after,
           NEW h \in Cells, Leads(h), h = (IF r.step \in Under THEN r.before ELSE file'),
           UNCHANGED <<records, review, base>>
    PROVE  Tidy'
<1>1. call \in [Writers -> Calls]
  BY DEF Inv
<1>2. call'[w] = r /\ \A v \in Writers : v # w => call'[v].step = "idle"
  BY <1>1
<1>3. \A v, u \in Writers : call'[v].step # "idle" /\ call'[u].step # "idle" => v = u
  BY <1>2
<1>4. \A v \in Writers : Undisturbed(call[v])'
  BY <1>2 DEF Undisturbed
<1>5. \A k \in DOMAIN records : records[k].status # "data"
  BY DEF Tidy
<1>6. ReviewTidy'
  BY DEF ReviewTidy
<1>7. At(h)'
  BY <1>2 DEF At, Rejecting, Under
<1>8. Leads(h)'
  BY <1>7 DEF Leads, Pending
<1>9. \A k \in DOMAIN records' : records'[k].status # "data"
  BY <1>5
<1>. QED  BY <1>3, <1>4, <1>6, <1>8, <1>9 DEF Tidy

LEMMA ReadOrderly == ASSUME Marks, Inv, Orderly, NEW w \in Writers, Read(w) PROVE Orderly'
<1>. SUFFICES ASSUME base' # Torn PROVE Tidy'
  BY StaysOrderly DEF Read
<1>1. base' = base /\ Tidy /\ review.step = "idle" /\ \A v \in Writers : call[v].step = "idle"
  BY DEF Read, Only, Orderly, Reviewing, Busy, Resting
<1>2. call \in [Writers -> Calls] /\ call[w] \in Calls /\ file \in Cells
  BY DEF Inv
<1>3. PICK c \in Contents :
         call' = [call EXCEPT ![w].step = "ready", ![w].before = file, ![w].after = c]
  BY DEF Read
<1>. DEFINE r == [call[w] EXCEPT !.step = "ready", !.before = file, !.after = c]
<1>4. call' = [call EXCEPT ![w] = r]
  BY <1>2, <1>3
<1>5. r \in Calls /\ r.step = "ready" /\ r.before = file
  BY <1>2 DEF Calls, Steps
<1>. HIDE DEF r
<1>6. PICK h \in Cells : Leads(h)
  BY <1>1 DEF Tidy
<1>7. h = file
  BY <1>1, <1>6 DEF Leads, At, Rejecting, Under
<1>. QED  BY <1>1, <1>4, <1>5, <1>6, <1>7, CallTidy DEF Read, Under

LEMMA GiveUpOrderly == ASSUME Marks, Inv, Orderly, NEW w \in Writers, GiveUp(w) PROVE Orderly'
<1>. SUFFICES ASSUME base' # Torn PROVE Tidy'
  BY StaysOrderly DEF GiveUp
<1>1. base' = base /\ Tidy /\ call[w].step = "ready"
  BY DEF GiveUp, history, Orderly
<1>2. review.step = "idle" /\ \A v \in Writers : v # w => call[v].step = "idle"
  BY <1>1, AloneInIt
<1>3. Idle \in Calls /\ Idle.step = "idle"
  BY DEF Marks, Idle, Calls, Steps, Cells
<1>4. PICK h \in Cells : Leads(h)
  BY <1>1 DEF Tidy
<1>5. h = file
  BY <1>1, <1>2, <1>4 DEF Leads, At, Rejecting, Under
<1>. QED  BY <1>1, <1>2, <1>3, <1>4, <1>5, CallTidy DEF GiveUp, Return, history, Under

LEMMA MoveAwayOrderly == ASSUME Marks, Inv, Orderly, NEW w \in Writers, MoveAway(w) PROVE Orderly'
<1>. SUFFICES ASSUME base' # Torn PROVE Tidy'
  BY StaysOrderly DEF MoveAway
<1>1. base' = base /\ Tidy /\ call[w].step = "ready"
  BY DEF MoveAway, history, Orderly
<1>2. review.step = "idle" /\ \A v \in Writers : v # w => call[v].step = "idle"
  BY <1>1, AloneInIt
<1>3. call[w].before = file /\ file # Absent
  BY <1>1 DEF Tidy, Undisturbed, MoveAway
<1>4. call \in [Writers -> Calls] /\ call[w] \in Calls /\ file \in Cells
  BY DEF Inv
<1>. DEFINE r == [call[w] EXCEPT !.step = "moved", !.backup = file]
<1>5. call' = [call EXCEPT ![w] = r]
  <2>1. call' = [call EXCEPT ![w].step = "moved", ![w].backup = file]
    BY <1>3 DEF MoveAway
  <2>. QED  BY <1>4, <2>1
<1>6. r \in Calls /\ r.step = "moved" /\ r.backup = file /\ r.before = file
  BY <1>3, <1>4 DEF Calls, Steps
<1>. HIDE DEF r
<1>7. PICK h \in Cells : Leads(h)
  BY <1>1 DEF Tidy
<1>8. h = file
  BY <1>1, <1>2, <1>7 DEF Leads, At, Rejecting, Under
<1>. QED  BY <1>1, <1>2, <1>5, <1>6, <1>7, <1>8, CallTidy DEF MoveAway, history, Under

\* A step of a call in which only its place in the protocol changes, and the file.
LEMMA StepTidy ==
    ASSUME Inv, Tidy, NEW w \in Writers, NEW s \in {"checked", "installed"},
           call' = [call EXCEPT ![w].step = s],
           call[w].step \in {"ready", "moved", "checked"},
           call[w].step = "ready" => call[w].before = Absent,
           s = "installed" => file' = call[w].after,
           UNCHANGED <<records, review, base>>
    PROVE  Tidy'
<1>1. review.step = "idle" /\ \A v \in Writers : v # w => call[v].step = "idle"
  BY AloneInIt
<1>2. call \in [Writers -> Calls] /\ call[w] \in Calls
  BY DEF Inv
<1>. DEFINE r == [call[w] EXCEPT !.step = s]
<1>3. /\ call' = [call EXCEPT ![w] = r] /\ r \in Calls /\ r.step = s
      /\ r.before = call[w].before /\ r.after = call[w].after
  BY <1>2 DEF Calls, Steps
<1>. HIDE DEF r
<1>4. PICK h \in Cells : Leads(h)
  BY DEF Tidy
<1>5. h = call[w].before
  <2>1. CASE call[w].step = "ready"
    BY <1>1, <1>4, <2>1 DEF Tidy, Undisturbed, Leads, At, Rejecting, Under
  <2>2. CASE call[w].step \in {"moved", "checked"}
    BY <1>4, <2>2 DEF Leads, At, Under
  <2>. QED  BY <2>1, <2>2
<1>6. r.step \in Under /\ r.step # "kept" /\ r.step # "ready" /\ r.step # "moved"
  BY <1>3 DEF Under
<1>. QED  BY <1>1, <1>3, <1>4, <1>5, <1>6, CallTidy

\* What is moved away is what was read: nothing is put back.
LEMMA VerifyOrderly == ASSUME Marks, Inv, Orderly, NEW w \in Writers, Verify(w) PROVE Orderly'
<1>. SUFFICES ASSUME base' # Torn PROVE Tidy'
  BY StaysOrderly DEF Verify
<1>1. base' = base /\ Tidy /\ call[w].step = "moved"
  BY DEF Verify, Orderly
<1>2. call[w].backup = call[w].before
  BY <1>1 DEF Tidy, Undisturbed
<1>. QED  BY <1>1, <1>2, StepTidy DEF Verify, Step

LEMMA InstallOrderly == ASSUME Marks, Inv, Orderly, NEW w \in Writers, Install(w) PROVE Orderly'
<1>. SUFFICES ASSUME base' # Torn PROVE Tidy'
  BY StaysOrderly DEF Install
<1>1. base' = base /\ Tidy
  BY DEF Install, history, Orderly
<1>. QED  BY <1>1, StepTidy DEF Install, Installable, Step, history

LEMMA ClearOrderly == ASSUME Marks, Inv, Orderly, NEW w \in Writers, Clear(w) PROVE Orderly'
<1>. SUFFICES ASSUME base' # Torn PROVE Tidy'
  BY StaysOrderly DEF Clear
<1>1. base' = base /\ Tidy /\ call[w].step = "done"
  BY DEF Clear, Orderly
<1>2. review.step = "idle" /\ \A v \in Writers : v # w => call[v].step = "idle"
  BY <1>1, AloneInIt
<1>3. Idle \in Calls /\ Idle.step = "idle"
  BY DEF Marks, Idle, Calls, Steps, Cells
<1>4. PICK h \in Cells : Leads(h)
  BY <1>1 DEF Tidy
<1>5. h = file
  BY <1>1, <1>2, <1>4 DEF Leads, At, Rejecting, Under
<1>. QED  BY <1>1, <1>2, <1>3, <1>4, <1>5, CallTidy DEF Clear, Return, Under

LEMMA KeepOrderly == ASSUME Marks, Inv, Orderly, NEW w \in Writers, Keep(w) PROVE Orderly'
<1>. SUFFICES ASSUME base' # Torn PROVE Tidy'
  BY StaysOrderly DEF Keep
<1>1. base' = base /\ Tidy /\ call[w].step = "installed" /\ review' = review /\ file' = file
  BY DEF Keep, history, Orderly
<1>2. review.step = "idle" /\ \A v \in Writers : v # w => call[v].step = "idle"
  BY <1>1, AloneInIt
<1>3. /\ call \in [Writers -> Calls] /\ call[w] \in Calls /\ records \in Seq(Checkpoint)
      /\ Len(records) \in Nat
  BY DEF Inv
<1>. DEFINE e == [before |-> call[w].before, after |-> call[w].after, status |-> "data", time |-> 0]
            n == Len(records) + 1
            r == [call[w] EXCEPT !.step = "kept", !.id = n]
<1>4. records' = Append(records, e) /\ e.status = "data" /\ e.after = call[w].after
  BY DEF Keep
<1>5. call' = [call EXCEPT ![w] = r]
  <2>1. call' = [call EXCEPT ![w].step = "kept", ![w].id = n]
    BY DEF Keep
  <2>. HIDE DEF n
  <2>. QED  BY <1>3, <2>1
<1>6. r.step = "kept" /\ r.id = n /\ r.before = call[w].before /\ r.after = call[w].after
  <2>. HIDE DEF n
  <2>. QED  BY <1>3 DEF Calls
<1>. HIDE DEF e, r
<1>7. /\ DOMAIN records' = DOMAIN records \cup {n} /\ Len(records') = n
      /\ records'[n] = e /\ \A k \in DOMAIN records : records'[k] = records[k]
  BY <1>3, <1>4
<1>. HIDE DEF n
<1>8. call'[w] = r /\ \A v \in Writers : v # w => call'[v].step = "idle"
  BY <1>2, <1>3, <1>5
<1>9. Pending' = Pending /\ Settled(records') = Settled(records) /\ Pending \subseteq DOMAIN records
  BY <1>4, <1>7 DEF Pending, Settled
<1>10. Rising(records') => Rising(records)
  BY <1>7, <1>9 DEF Rising, Settled
<1>11. PICK h \in Cells : Leads(h)
  BY <1>1 DEF Tidy
<1>12. h = call[w].before
  BY <1>1, <1>11 DEF Leads, At, Under
<1>13. At(h)'
  BY <1>1, <1>2, <1>6, <1>8, <1>12 DEF At, Rejecting, Under
<1>14. Flow(Pending, records', base, h)
  BY <1>7, <1>9, <1>11, SameFlow DEF Leads
<1>15. Rising(records') => Chain(Pending, records', base, h)
  BY <1>7, <1>9, <1>10, <1>11, SameChain DEF Leads
<1>16. Leads(h)'
  BY <1>1, <1>9, <1>13, <1>14, <1>15 DEF Leads
<1>17. \A v \in Writers : Undisturbed(call[v])'
  BY <1>1, <1>4, <1>6, <1>7, <1>8 DEF Undisturbed, Tidy
<1>18. \A k \in DOMAIN records' : records'[k].status = "data" =>
          \E v \in Writers : call'[v].step = "kept" /\ call'[v].id = k
  BY <1>1, <1>2, <1>6, <1>7, <1>8 DEF Tidy
<1>19. ReviewTidy'
  BY <1>1, <1>2 DEF ReviewTidy
<1>20. \A u, v \in Writers : call'[u].step # "idle" /\ call'[v].step # "idle" => u = v
  BY <1>8
<1>. QED  BY <1>16, <1>17, <1>18, <1>19, <1>20 DEF Tidy

\* The edit is pending: one more step from base to the file.
LEMMA RecordOrderly == ASSUME Marks, Inv, Orderly, NEW w \in Writers, Record(w) PROVE Orderly'
<1>. SUFFICES ASSUME base' # Torn PROVE Tidy'
  BY StaysOrderly DEF Record
<1>1. base' = base /\ Tidy /\ call[w].step = "kept" /\ review' = review /\ file' = file
  BY DEF Record, history, Orderly
<1>2. review.step = "idle" /\ \A v \in Writers : v # w => call[v].step = "idle"
  BY <1>1, AloneInIt
<1>. DEFINE n == call[w].id
<1>3. /\ call \in [Writers -> Calls] /\ call[w] \in Calls /\ records \in Seq(Checkpoint)
      /\ n \in DOMAIN records /\ records[n].before = call[w].before
      /\ n = Len(records) /\ records[n].after = file /\ records[n].status = "data"
  BY <1>1 DEF Inv, CallOK, Tidy, Undisturbed
<1>4. n \in Nat /\ \A k \in DOMAIN records : k \in Nat /\ k <= n
  BY <1>3
<1>5. PICK t \in Times : records' = [records EXCEPT ![n].status = "pending", ![n].time = t]
  BY DEF Record
<1>. DEFINE r == [call[w] EXCEPT !.step = "done"]
<1>6. call' = [call EXCEPT ![w] = r] /\ r.step = "done"
  BY <1>3 DEF Record, Step, Calls
<1>7. call'[w].step = "done" /\ \A v \in Writers : v # w => call'[v].step = "idle"
  BY <1>2, <1>3, <1>6
<1>. HIDE DEF r, n
<1>8. /\ DOMAIN records' = DOMAIN records
      /\ records'[n].status = "pending" /\ records'[n].time = t
      /\ records'[n].before = records[n].before /\ records'[n].after = records[n].after
      /\ \A k \in DOMAIN records : k # n => records'[k] = records[k]
  <2>1. records[n] \in Checkpoint
    BY <1>3
  <2>. QED  BY <1>3, <1>5, <2>1 DEF Checkpoint
<1>9. /\ Pending' = Pending \cup {n} /\ Settled(records') = Settled(records) \cup {n}
       /\ n \notin Pending /\ n \notin Settled(records) /\ Pending \subseteq DOMAIN records
  BY <1>3, <1>8 DEF Pending, Settled
<1>10. Rising(records') => Rising(records)
  <2>1. Settled(records) \subseteq Settled(records') /\ \A k \in Settled(records) : records'[k] = records[k]
    BY <1>8, <1>9 DEF Settled
  <2>. QED  BY <2>1 DEF Rising
<1>11. PICK h \in Cells : Leads(h)
  BY <1>1 DEF Tidy
<1>12. h = records'[n].before /\ records'[n].after = file
  BY <1>1, <1>3, <1>8, <1>11 DEF Leads, At, Under
<1>13. At(file)'
  BY <1>1, <1>2, <1>7 DEF At, Rejecting, Under
<1>14. \A k \in Pending : records'[k].before = records[k].before /\ records'[k].after = records[k].after
  BY <1>8, <1>9
<1>15. Flow(Pending \cup {n}, records', base, file)
  BY <1>9, <1>11, <1>12, <1>14, FlowAdds, PendingFinite DEF Leads
<1>16. Rising(records') => Chain(Pending \cup {n}, records', base, file)
  <2>. SUFFICES ASSUME Rising(records') PROVE Chain(Pending \cup {n}, records', base, file)
    OBVIOUS
  <2>1. Pending \in SUBSET Nat /\ \A k \in Pending : k < n
    BY <1>4, <1>9, PendingFinite
  <2>2. Chain(Pending, records, base, h)
    BY <1>10, <1>11 DEF Leads
  <2>. QED  BY <1>4, <1>12, <1>14, <2>1, <2>2, ChainAdds
<1>17. Leads(file)'
  BY <1>1, <1>9, <1>13, <1>15, <1>16 DEF Leads
<1>18. \A v \in Writers : Undisturbed(call[v])'
  BY <1>7 DEF Undisturbed
<1>19. \A k \in DOMAIN records' : records'[k].status # "data"
  BY <1>1, <1>2, <1>8 DEF Tidy, n
<1>20. ReviewTidy'
  BY <1>1, <1>2 DEF ReviewTidy
<1>21. \A u, v \in Writers : call'[u].step # "idle" /\ call'[v].step # "idle" => u = v
  BY <1>7
<1>22. file' \in Cells
  BY <1>1 DEF Inv
<1>. QED  BY <1>1, <1>17, <1>18, <1>19, <1>20, <1>21, <1>22 DEF Tidy

(***************************************************************************)
(* /review.                                                                *)
(***************************************************************************)
\* The order of a rejection holds all that is pending.
LEMMA OrdersHoldAll ==
    ASSUME Inv, NEW q \in Orders(Pending)
    PROVE  q \in Seq(Nat) /\ Rejects(q)
<1>1. Cardinality(Pending) \in Nat /\ IsFiniteSet(Pending) /\ Pending \subseteq Nat
  BY PendingFinite, FS_CardinalityType
<1>. PICK n \in Nat : n = Cardinality(Pending)
  BY <1>1
<1>2. /\ q \in [1..n -> Pending] /\ DOMAIN q = 1..n
      /\ \A i, j \in 1..n : i < j => q[i] # q[j] /\ records[q[i]].time >= records[q[j]].time
  BY DEF Orders
<1>3. IsFiniteSet(1..n) /\ Cardinality(1..n) = n
  BY FS_Interval
<1>4. q \in Injection(1..n, Pending)
  BY <1>2 DEF Injection, IsInjective
<1>5. q \in Surjection(1..n, Pending)
  BY <1>1, <1>3, <1>4, FS_Injection
<1>6. \A k \in Pending : \E i \in 1..n : q[i] = k
  BY <1>5 DEF Surjection
<1>7. q \in [1..n -> Nat]
  BY <1>1, <1>2
<1>. QED  BY <1>2, <1>6, <1>7 DEF Rejects

LEMMA ReviewAllOrderly ==
    ASSUME Marks, Inv, Orderly, NEW verdict \in {"approved", "rejected"}, ReviewAll(verdict)
    PROVE  Orderly'
<1>1. PICK q \in Orders(Pending) : review' = [step |-> "load", verdict |-> verdict, queue |-> q]
  BY DEF ReviewAll
<1>. SUFFICES ASSUME base' # Torn PROVE Tidy'
  BY <1>1, StaysOrderly
<1>2. /\ base' = base /\ Tidy /\ verdict = "rejected" /\ Busy = {} /\ review.step = "idle"
      /\ UNCHANGED <<file, call, records>>
  BY DEF ReviewAll, Only, Orderly, Reviewing, Resting
<1>3. /\ review'.step = "load" /\ review'.verdict = "rejected" /\ review'.queue = q
  BY <1>1, <1>2
<1>4. Rejects(q)
  BY OrdersHoldAll
<1>5. ReviewTidy'
  BY <1>2, <1>3, <1>4 DEF ReviewTidy, Rejects, Busy, Pending
<1>6. PICK h \in Cells : Leads(h)
  BY <1>2 DEF Tidy
<1>7. At(h)'
  BY <1>2, <1>3, <1>6 DEF Leads, At, Rejecting
<1>8. Leads(h)'
  BY <1>2, <1>6, <1>7 DEF Leads, Pending
<1>. QED  BY <1>2, <1>5, <1>8 DEF Tidy, Undisturbed

\* A step of a review that leaves the checkpoints alone.
LEMMA ReviewTidies ==
    ASSUME Tidy, NEW h \in Cells, Leads(h), At(h)', ReviewTidy',
           \A w \in Writers : call[w].step = "idle",
           UNCHANGED <<call, records, base>>
    PROVE  Tidy'
<1>1. Leads(h)'
  BY DEF Leads, Pending
<1>. QED  BY <1>1 DEF Tidy, Undisturbed

\* In a review no call is busy, and it rejects all that is pending.
LEMMA InReview ==
    ASSUME Inv, Tidy, review.step # "idle"
    PROVE  /\ \A w \in Writers : call[w].step = "idle"
           /\ review.verdict = "rejected" /\ Rejects(review.queue) /\ Busy = {}
BY DEF Tidy, ReviewTidy, Busy

\* The first in the queue is pending.
LEMMA HeadPending ==
    ASSUME Inv, Rejects(review.queue), review.queue # <<>>
    PROVE  Head(review.queue) \in Pending
<1>1. review.queue \in Seq(Nat)
  BY DEF Inv, ReviewOK, Reviews
<1>2. 1 \in DOMAIN review.queue /\ Head(review.queue) = review.queue[1]
  BY <1>1
<1>. QED  BY <1>2 DEF Rejects

LEMMA LoadOrderly == ASSUME Marks, Inv, Orderly, Load PROVE Orderly'
<1>1. UNCHANGED <<file, call, records, base>> /\ review.step = "load" /\ review \in Reviews
  BY DEF Load, history, Inv, ReviewOK
<1>2. review' = Resting \/ review' = [review EXCEPT !.step = IF review.verdict = "rejected" THEN "restore" ELSE "mark"]
  BY DEF Load
<1>3. review' = Resting \/ review'.step # "idle"
  BY <1>1, <1>2 DEF Reviews
<1>. SUFFICES ASSUME base' # Torn PROVE Tidy'
  BY <1>3, StaysOrderly
<1>4. Tidy
  BY <1>1 DEF Orderly
<1>5. PICK h \in Cells : Leads(h)
  BY <1>4 DEF Tidy
<1>6. /\ \A w \in Writers : call[w].step = "idle"
      /\ review.verdict = "rejected" /\ Rejects(review.queue) /\ Busy = {}
  BY <1>1, <1>4, InReview
<1>7. h = file
  BY <1>1, <1>5, <1>6 DEF Leads, At, Rejecting, Under
<1>8. CASE review.queue = <<>> \/ Refuses(Head(review.queue))
  <2>1. review' = Resting
    BY <1>8 DEF Load
  <2>2. ReviewTidy'
    BY <2>1, RestingIs DEF ReviewTidy
  <2>3. At(h)'
    BY <1>1, <1>6, <1>7, <2>1, RestingIs DEF At, Rejecting, Under
  <2>. QED  BY <1>1, <1>4, <1>5, <1>6, <2>2, <2>3, ReviewTidies
<1>9. CASE ~(review.queue = <<>> \/ Refuses(Head(review.queue)))
  <2>1. /\ review'.step = "restore" /\ review'.verdict = "rejected" /\ review'.queue = review.queue
    BY <1>1, <1>6, <1>9 DEF Load, Reviews
  <2>2. file = records[Head(review.queue)].after
    BY <1>6, <1>9 DEF Refuses, MayRestore
  <2>3. ReviewTidy'
    BY <1>1, <1>6, <2>1, <2>2 DEF ReviewTidy, Rejects, Busy, Pending
  <2>4. At(h)'
    BY <1>1, <1>6, <1>7, <2>1, <2>2 DEF At, Rejecting, Under
  <2>. QED  BY <1>1, <1>4, <1>5, <1>6, <2>3, <2>4, ReviewTidies
<1>. QED  BY <1>8, <1>9

\* A rejection under way: h is what its checkpoint installed.
LEMMA RestoreTidy ==
    ASSUME Inv, Tidy, Rejecting, NEW s \in {"fill", "mark"}, review' = [review EXCEPT !.step = s],
           s = "mark" => file' = records[Head(review.queue)].before,
           UNCHANGED <<call, records, base>>
    PROVE  Tidy'
<1>1. PICK h \in Cells : Leads(h)
  BY DEF Tidy
<1>2. /\ \A w \in Writers : call[w].step = "idle"
      /\ review.verdict = "rejected" /\ Rejects(review.queue) /\ Busy = {}
  BY InReview DEF Rejecting
<1>3. review'.step = s /\ review'.verdict = review.verdict /\ review'.queue = review.queue
  BY DEF Inv, ReviewOK, Reviews
<1>4. ReviewTidy'
  BY <1>2, <1>3 DEF ReviewTidy, Rejects, Busy, Pending
<1>5. At(h)'
  BY <1>1, <1>2, <1>3 DEF Leads, At, Rejecting, Under
<1>. QED  BY <1>1, <1>2, <1>4, <1>5, ReviewTidies

LEMMA RestoreOrderly == ASSUME Marks, Inv, Orderly, Restore PROVE Orderly'
<1>1. PICK s \in {"fill", "mark"} :
         /\ review' = [review EXCEPT !.step = s]
         /\ s = "mark" => file' = records[Head(review.queue)].before
  BY DEF Restore
<1>2. review'.step # "idle"
  BY <1>1 DEF Inv, ReviewOK, Reviews
<1>. SUFFICES ASSUME base' # Torn PROVE Tidy'
  BY <1>2, StaysOrderly
<1>3. Tidy /\ Rejecting /\ UNCHANGED <<call, records, base>>
  BY DEF Orderly, Restore, history, Rejecting
<1>. QED  BY <1>1, <1>3, RestoreTidy

LEMMA FillOrderly == ASSUME Marks, Inv, Orderly, Fill PROVE Orderly'
<1>1. review'.step # "idle"
  BY DEF Fill, Inv, ReviewOK, Reviews
<1>. SUFFICES ASSUME base' # Torn PROVE Tidy'
  BY <1>1, StaysOrderly
<1>2. Tidy /\ Rejecting /\ UNCHANGED <<call, records, base>>
  BY DEF Orderly, Fill, history, Rejecting
<1>. QED  BY <1>2, RestoreTidy DEF Fill

\* Where times rise the first in the queue is the newest pending.
LEMMA HeadIsNewest ==
    ASSUME Inv, Tidy, Rising(records), Rejects(review.queue), review.queue # <<>>
    PROVE  \A k \in Pending : k <= Head(review.queue)
<1>. DEFINE q == review.queue
            n == Head(q)
<1>1. q \in Seq(Nat) /\ 1 \in DOMAIN q /\ n = q[1]
  BY DEF Inv, ReviewOK, Reviews
<1>2. n \in Pending
  BY HeadPending
<1>. SUFFICES ASSUME NEW k \in Pending, ~(k <= n) PROVE FALSE
  OBVIOUS
<1>3. k \in Settled(records) /\ n \in Settled(records) /\ k \in Nat /\ n \in Nat
  BY <1>2, PendingFinite DEF Pending, Settled
<1>4. PICK i \in DOMAIN q : q[i] = k
  BY DEF Rejects
<1>5. i \in Nat /\ 1 < i
  BY <1>1, <1>3, <1>4
<1>6. records[n].time >= records[k].time
  BY <1>1, <1>4, <1>5 DEF Rejects
<1>7. records[n].time < records[k].time
  BY <1>3 DEF Rising
<1>8. records[n].time \in Nat /\ records[k].time \in Nat
  <2>1. \A j \in DOMAIN records : records[j] \in Checkpoint
    BY DEF Inv
  <2>. QED  BY <1>3, <2>1 DEF Settled, Checkpoint
<1>. QED  BY <1>6, <1>7, <1>8

\* One step back towards base.
LEMMA MarkOrderly == ASSUME Marks, Inv, Orderly, Mark PROVE Orderly'
<1>. DEFINE q == review.queue
            n == Head(q)
<1>1. /\ UNCHANGED <<file, call, base>> /\ review.step = "mark" /\ review \in Reviews
      /\ q # <<>> /\ q \in Seq(Nat)
  BY DEF Mark, history, Inv, ReviewOK, Reviews
<1>2. review'.step = "load" /\ review'.verdict = review.verdict /\ review'.queue = Tail(q)
  BY <1>1 DEF Mark, Reviews
<1>. SUFFICES ASSUME base' # Torn PROVE Tidy'
  BY <1>2, StaysOrderly
<1>3. Tidy
  BY <1>1 DEF Orderly
<1>4. /\ \A w \in Writers : call[w].step = "idle"
      /\ review.verdict = "rejected" /\ Rejects(q) /\ Busy = {}
  BY <1>1, <1>3, InReview
<1>5. n \in Pending /\ n \in DOMAIN records
  BY <1>1, <1>4, HeadPending DEF Pending
<1>6. records' = [records EXCEPT ![n].status = "rejected"]
  BY <1>4 DEF Mark
<1>7. file = records[n].before
  BY <1>1, <1>3 DEF Tidy, ReviewTidy
<1>8. PICK h \in Cells : Leads(h)
  BY <1>3 DEF Tidy
<1>9. h = records[n].after
  BY <1>1, <1>8 DEF Leads, At, Rejecting
<1>10. 1 \in DOMAIN q /\ n = q[1] /\ \A i \in DOMAIN q : i \in Nat
  BY <1>1
<1>11. /\ Tail(q) \in Seq(Nat)
       /\ \A i \in DOMAIN Tail(q) : i \in Nat /\ i + 1 \in DOMAIN q /\ Tail(q)[i] = q[i + 1]
       /\ \A i \in DOMAIN q : i # 1 => i - 1 \in DOMAIN Tail(q)
  BY <1>1
<1>12. \A k \in Pending : k <= n \/ ~Rising(records)
  BY <1>1, <1>3, <1>4, HeadIsNewest
<1>. HIDE DEF n, q
<1>13. /\ DOMAIN records' = DOMAIN records
       /\ records'[n].status = "rejected"
       /\ \A k \in DOMAIN records : k # n => records'[k] = records[k]
       /\ \A k \in DOMAIN records : /\ records'[k].before = records[k].before
                                    /\ records'[k].after = records[k].after
                                    /\ records'[k].time = records[k].time
  <2>1. records \in Seq(Checkpoint) /\ records[n] \in Checkpoint
    BY <1>5 DEF Inv
  <2>. QED  BY <1>5, <1>6, <2>1 DEF Checkpoint
<1>14. /\ Pending' = Pending \ {n} /\ Settled(records') = Settled(records)
       /\ Pending \subseteq DOMAIN records /\ Settled(records) \subseteq DOMAIN records
  BY <1>5, <1>13 DEF Pending, Settled
<1>15. Rising(records') => Rising(records)
  BY <1>13, <1>14 DEF Rising
<1>16. Flow(Pending \ {n}, records', base, file)
  BY <1>5, <1>7, <1>8, <1>9, <1>13, <1>14, FlowRemoves, PendingFinite DEF Leads
<1>17. Rising(records') => Chain(Pending \ {n}, records', base, file)
  <2>. SUFFICES ASSUME Rising(records') PROVE Chain(Pending \ {n}, records', base, file)
    OBVIOUS
  <2>1. Chain(Pending, records, base, h)
    BY <1>8, <1>15 DEF Leads
  <2>2. \A k \in Pending : /\ k <= n
                           /\ records'[k].before = records[k].before
                           /\ records'[k].after = records[k].after
    BY <1>12, <1>13, <1>14, <1>15
  <2>. QED  BY <1>5, <1>7, <2>1, <2>2, ChainRemoves, PendingFinite
<1>18. At(file)'
  BY <1>1, <1>2, <1>4 DEF At, Rejecting, Under
<1>19. Leads(file)'
  BY <1>1, <1>14, <1>16, <1>17, <1>18 DEF Leads
<1>20. Rejects(review.queue)'
  <2>1. \A i \in DOMAIN Tail(q) : Tail(q)[i] \in Pending'
    BY <1>4, <1>10, <1>11, <1>14 DEF Rejects
  <2>2. \A k \in Pending' : \E i \in DOMAIN Tail(q) : Tail(q)[i] = k
    <3>. SUFFICES ASSUME NEW k \in Pending' PROVE \E i \in DOMAIN Tail(q) : Tail(q)[i] = k
      OBVIOUS
    <3>1. PICK i \in DOMAIN q : q[i] = k
      BY <1>4, <1>14 DEF Rejects
    <3>2. i # 1 /\ i \in Nat
      BY <1>10, <1>14, <3>1
    <3>3. i - 1 \in DOMAIN Tail(q) /\ (i - 1) + 1 = i
      BY <1>11, <3>2
    <3>4. Tail(q)[i - 1] = k
      BY <1>11, <3>1, <3>3
    <3>. QED  BY <3>3, <3>4
  <2>3. \A i, j \in DOMAIN Tail(q) : i < j => /\ Tail(q)[i] # Tail(q)[j]
                                              /\ records'[Tail(q)[i]].time >= records'[Tail(q)[j]].time
    <3>. SUFFICES ASSUME NEW i \in DOMAIN Tail(q), NEW j \in DOMAIN Tail(q), i < j
                  PROVE  /\ Tail(q)[i] # Tail(q)[j]
                         /\ records'[Tail(q)[i]].time >= records'[Tail(q)[j]].time
      OBVIOUS
    <3>1. i + 1 < j + 1 /\ i + 1 \in DOMAIN q /\ j + 1 \in DOMAIN q
          /\ Tail(q)[i] = q[i + 1] /\ Tail(q)[j] = q[j + 1]
      BY <1>11
    <3>2. /\ q[i + 1] \in DOMAIN records /\ q[j + 1] \in DOMAIN records /\ q[i + 1] # q[j + 1]
          /\ records[q[i + 1]].time >= records[q[j + 1]].time
      BY <1>4, <1>14, <3>1 DEF Rejects
    <3>. QED  BY <1>13, <3>1, <3>2
  <2>. QED  BY <1>2, <2>1, <2>2, <2>3 DEF Rejects
<1>21. ReviewTidy'
  BY <1>1, <1>2, <1>4, <1>20 DEF ReviewTidy, Busy
<1>22. \A k \in DOMAIN records' : records'[k].status # "data"
  <2>1. \A k \in DOMAIN records : records[k].status # "data"
    BY <1>3, <1>4 DEF Tidy
  <2>. QED  BY <1>13, <2>1
<1>23. file \in Cells
  BY DEF Inv
<1>24. \A w \in Writers : call'[w].step = "idle"
  BY <1>1, <1>4
<1>25. \A w \in Writers : Undisturbed(call[w])'
  BY <1>24 DEF Undisturbed
<1>. QED  BY <1>1, <1>19, <1>21, <1>22, <1>23, <1>24, <1>25 DEF Tidy

----------------------------------------------------------------------------
LEMMA NextOrderly == ASSUME Marks, Inv, Orderly, [Next]_vars PROVE Orderly'
<1>1. ASSUME NEW w \in Writers,
             \/ Read(w) \/ GiveUp(w) \/ MoveAway(w) \/ Verify(w) \/ Install(w)
             \/ Keep(w) \/ Record(w) \/ Clear(w)
      PROVE  Orderly'
  BY <1>1, ReadOrderly, GiveUpOrderly, MoveAwayOrderly, VerifyOrderly, InstallOrderly,
     KeepOrderly, RecordOrderly, ClearOrderly
<1>2. ASSUME NEW verdict \in {"approved", "rejected"}, ReviewAll(verdict) PROVE Orderly'
  BY <1>2, ReviewAllOrderly
<1>3. CASE Load \/ Restore \/ Fill \/ Mark
  BY <1>3, LoadOrderly, RestoreOrderly, FillOrderly, MarkOrderly
\* The rest puts an end to what is promised.
<1>4. CASE \/ \E w \in Writers : Undo(w) \/ Crash(w)
           \/ \E c \in Contents \cup {Absent} : Save(c)
           \/ Abandon
  <2>1. base' = Torn /\ (review' = review \/ review' = Resting)
    BY <1>4 DEF Undo, Crash, Save, Abandon, Only
  <2>. QED  BY <2>1, StaysOrderly
<1>5. ASSUME NEW k \in DOMAIN records, NEW verdict \in {"approved", "rejected"},
             ReviewOne(k, verdict)
      PROVE  Orderly'
  <2>1. base' = Torn /\ review'.step # "idle"
    BY <1>5 DEF ReviewOne, Only
  <2>. QED  BY <2>1, StaysOrderly
<1>6. CASE UNCHANGED vars
  <2>1. UNCHANGED <<file, call, records, review, base>>
    BY <1>6 DEF vars
  <2>. SUFFICES ASSUME base' # Torn PROVE Tidy'
    BY <2>1, StaysOrderly
  <2>2. Tidy
    BY <2>1 DEF Orderly
  <2>3. PICK h \in Cells : Leads(h)
    BY <2>2 DEF Tidy
  <2>4. Leads(h)'
    BY <2>1, <2>3 DEF Leads, At, Rejecting, Pending
  <2>5. ReviewTidy' /\ \A w \in Writers : Undisturbed(call[w])'
    BY <2>1, <2>2 DEF Tidy, ReviewTidy, Rejects, Pending, Busy, Undisturbed
  <2>. QED  BY <2>1, <2>2, <2>4, <2>5 DEF Tidy
<1>. QED  BY <1>1, <1>2, <1>3, <1>4, <1>5, <1>6 DEF Next

\* A rejection of everything ends with the queue empty and the file at base, or
\* at two checkpoints the later of which has no later time.
LEMMA RejectionEnds ==
    ASSUME Marks, Inv, Orderly, [Next]_vars, base # Torn, review.step = "load", review' = Resting
    PROVE  IF review.queue = <<>> THEN file = base
           ELSE \E k, l \in DOMAIN records : k < l /\ records[k].time >= records[l].time
<1>1. Tidy /\ review \in Reviews
  BY DEF Orderly, Inv, ReviewOK
<1>2. /\ \A w \in Writers : call[w].step = "idle"
      /\ review.verdict = "rejected" /\ Rejects(review.queue)
  BY <1>1, InReview
<1>3. PICK h \in Cells : Leads(h)
  BY <1>1 DEF Tidy
<1>4. h = file
  BY <1>2, <1>3 DEF Leads, At, Rejecting, Under
<1>5. CASE review.queue = <<>>
  <2>1. Pending = {}
    BY <1>2, <1>5 DEF Rejects
  <2>2. Flow({}, records, base, file) /\ base \in Cells /\ file \in Cells
    BY <1>3, <1>4, <2>1 DEF Leads, Inv
  <2>. QED  BY <1>5, <2>2, FlowEnds
<1>6. CASE review.queue # <<>>
  <2>. DEFINE n == Head(review.queue)
  <2>. SUFFICES ASSUME \A k, l \in DOMAIN records : ~(k < l /\ records[k].time >= records[l].time)
                PROVE  FALSE
    BY <1>6
  <2>1. Rising(records)
    <3>1. \A k \in DOMAIN records : records[k].time \in Nat
      <4>1. \A k \in DOMAIN records : records[k] \in Checkpoint
        BY DEF Inv
      <4>. QED  BY <4>1 DEF Checkpoint
    <3>. QED  BY <3>1 DEF Rising, Settled
  <2>2. n \in Pending /\ \A k \in Pending : k <= n
    BY <1>1, <1>2, <1>6, <2>1, HeadPending, HeadIsNewest
  <2>3. records[n].after = file
    BY <1>3, <1>4, <2>1, <2>2 DEF Leads, Chain
  <2>4. ~Refuses(n)
    BY <2>2, <2>3 DEF Refuses, MayRestore, Pending
  <2>5. review.step # "idle" /\ Resting.step = "idle" /\ review # Resting
    BY RestingIs
  <2>6. review' # review /\ ~Restore /\ ~Fill /\ ~Mark /\ ~Abandon /\ Reviewing
    BY <2>5 DEF Restore, Fill, Mark, Abandon, Reviewing
  <2>7. Load
    <3>1. ASSUME NEW w \in Writers
          PROVE  ~(\/ Read(w) \/ GiveUp(w) \/ MoveAway(w) \/ Verify(w) \/ Install(w)
                   \/ Undo(w) \/ Keep(w) \/ Record(w) \/ Clear(w) \/ Crash(w))
      BY <2>6 DEF Read, GiveUp, MoveAway, Verify, Install, Undo, Keep, Record, Clear, Crash
    <3>2. ASSUME NEW verdict PROVE ~ReviewAll(verdict) /\ \A k : ~ReviewOne(k, verdict)
      BY <2>6 DEF ReviewAll, ReviewOne
    <3>3. \A c : ~Save(c)
      BY <2>6 DEF Save
    <3>. QED  BY <2>6, <3>1, <3>2, <3>3 DEF Next, vars
  <2>8. review' = [review EXCEPT !.step = "restore"]
    BY <1>2, <1>6, <2>4, <2>7 DEF Load
  <2>9. review'.step = "restore"
    BY <1>1, <2>8 DEF Reviews
  <2>. QED  BY <2>5, <2>9
<1>. QED  BY <1>5, <1>6

\* A rejection of all pending checkpoints takes the file back to where the edits
\* started from, and stops before only if the clock did not advance from one edit
\* to a later one (CheckpointStore::decide_pending).
THEOREM RejectionUndoes == ASSUME Marks PROVE Spec => RejectAllUndoes
<1>1. Init => Orderly
  BY InitOrderly
<1>2. Inv /\ Orderly /\ [Next]_vars => Orderly'
  BY NextOrderly
<1>3. Inv /\ Orderly /\ [Next]_vars =>
         [base # Torn /\ review.step = "load" /\ review' = Resting =>
            IF review.queue = <<>> THEN file = base
            ELSE \E k, l \in DOMAIN records :
                    k < l /\ records[k].time >= records[l].time]_vars
  BY RejectionEnds
<1>. QED  BY <1>1, <1>2, <1>3, Invariance, PTL DEF Spec, RejectAllUndoes
====
