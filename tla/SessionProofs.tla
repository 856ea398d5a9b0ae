---------------------------- MODULE SessionProofs ----------------------------
(***************************************************************************)
(* What ProcessProofs and CheckpointProofs show for any number of commands *)
(* and writers, for the session that is checked: its background commands,  *)
(* or its file, written by one call at a time or by two at once.           *)
(***************************************************************************)
EXTENDS MCSession, ProcessProofs

\* What is proved of the two instances of Checkpoints.
ByOne == INSTANCE CheckpointProofs WITH
    Writers <- {w1}, MaxEdits <- 2, MaxSaves <- 1, Absent <- absent, Torn <- torn
ByTwo == INSTANCE CheckpointProofs WITH
    Writers <- {w1, w2}, MaxEdits <- 1, MaxSaves <- 1, Absent <- absent, Torn <- torn

----------------------------------------------------------------------------
(* They are the same instances, action by action. *)

LEMMA SameAlone ==
    /\ ByOne!Init <=> Alone!Init
    /\ ByOne!Next <=> Alone!Next
    /\ ByOne!TypeOK <=> Alone!TypeOK
    /\ ByOne!Preserved <=> Alone!Preserved
<1>. USE DEF ByOne!Values, Alone!Values, ByOne!Idle, Alone!Idle, ByOne!Resting, Alone!Resting,
            ByOne!Busy, Alone!Busy, ByOne!Reviewing, Alone!Reviewing, ByOne!Loadable,
            Alone!Loadable, ByOne!Pending, Alone!Pending, ByOne!Only, Alone!Only,
            ByOne!Unnoticed, Alone!Unnoticed, ByOne!Step, Alone!Step, ByOne!Return,
            Alone!Return, ByOne!PutBack, Alone!PutBack, ByOne!Installable, Alone!Installable,
            ByOne!Times, Alone!Times, ByOne!MayRestore, Alone!MayRestore, ByOne!Refuses,
            Alone!Refuses, ByOne!history, Alone!history
<1>1. ASSUME NEW w \in {w1}
      PROVE  /\ ByOne!Read(w) <=> Alone!Read(w)
             /\ ByOne!GiveUp(w) <=> Alone!GiveUp(w)
             /\ ByOne!MoveAway(w) <=> Alone!MoveAway(w)
             /\ ByOne!Verify(w) <=> Alone!Verify(w)
             /\ ByOne!Install(w) <=> Alone!Install(w)
             /\ ByOne!Undo(w) <=> Alone!Undo(w)
             /\ ByOne!Keep(w) <=> Alone!Keep(w)
             /\ ByOne!Record(w) <=> Alone!Record(w)
             /\ ByOne!Clear(w) <=> Alone!Clear(w)
             /\ ByOne!Crash(w) <=> Alone!Crash(w)
  <2>1. ByOne!Read(w) <=> Alone!Read(w)
    BY DEF ByOne!Read, Alone!Read
  <2>2. ByOne!GiveUp(w) <=> Alone!GiveUp(w)
    BY DEF ByOne!GiveUp, Alone!GiveUp
  <2>3. ByOne!MoveAway(w) <=> Alone!MoveAway(w)
    BY DEF ByOne!MoveAway, Alone!MoveAway
  <2>4. ByOne!Verify(w) <=> Alone!Verify(w)
    BY DEF ByOne!Verify, Alone!Verify
  <2>5. ByOne!Install(w) <=> Alone!Install(w)
    BY DEF ByOne!Install, Alone!Install
  <2>6. ByOne!Undo(w) <=> Alone!Undo(w)
    BY DEF ByOne!Undo, Alone!Undo
  <2>7. ByOne!Keep(w) <=> Alone!Keep(w)
    BY DEF ByOne!Keep, Alone!Keep
  <2>8. ByOne!Record(w) <=> Alone!Record(w)
    BY DEF ByOne!Record, Alone!Record
  <2>9. ByOne!Clear(w) <=> Alone!Clear(w)
    BY DEF ByOne!Clear, Alone!Clear
  <2>10. ByOne!Crash(w) <=> Alone!Crash(w)
    BY DEF ByOne!Crash, Alone!Crash
  <2>. QED  BY <2>1, <2>2, <2>3, <2>4, <2>5, <2>6, <2>7, <2>8, <2>9, <2>10
<1>2. ASSUME NEW verdict PROVE ByOne!ReviewAll(verdict) <=> Alone!ReviewAll(verdict)
  <2>1. ASSUME NEW S PROVE ByOne!Orders(S) = Alone!Orders(S)
    <3>1. ByOne!Cardinality(S) = Alone!Cardinality(S)
      BY DEF ByOne!Cardinality, Alone!Cardinality
    <3>2. \A q : q \in ByOne!Orders(S) <=> q \in Alone!Orders(S)
      BY <3>1 DEF ByOne!Orders, Alone!Orders
    <3>. QED  BY <3>2
  <2>. QED  BY <2>1 DEF ByOne!ReviewAll, Alone!ReviewAll
<1>3. ASSUME NEW k, NEW verdict PROVE ByOne!ReviewOne(k, verdict) <=> Alone!ReviewOne(k, verdict)
  BY DEF ByOne!ReviewOne, Alone!ReviewOne
<1>4. ByOne!Load <=> Alone!Load
  BY DEF ByOne!Load, Alone!Load
<1>5. ByOne!Restore <=> Alone!Restore
  BY DEF ByOne!Restore, Alone!Restore
<1>6. ByOne!Fill <=> Alone!Fill
  BY DEF ByOne!Fill, Alone!Fill
<1>7. ByOne!Mark <=> Alone!Mark
  BY DEF ByOne!Mark, Alone!Mark
<1>8. ByOne!Abandon <=> Alone!Abandon
  BY DEF ByOne!Abandon, Alone!Abandon
<1>9. ASSUME NEW d PROVE ByOne!Save(d) <=> Alone!Save(d)
  BY DEF ByOne!Save, Alone!Save
<1>10. ByOne!Next <=> Alone!Next
  BY <1>1, <1>2, <1>3, <1>4, <1>5, <1>6, <1>7, <1>8, <1>9 DEF ByOne!Next, Alone!Next
<1>11. ByOne!Init <=> Alone!Init
  BY DEF ByOne!Init, Alone!Init
<1>12. ByOne!TypeOK <=> Alone!TypeOK
  BY DEF ByOne!TypeOK, Alone!TypeOK
<1>13. ByOne!Preserved <=> Alone!Preserved
  BY DEF ByOne!Preserved, Alone!Preserved
<1>. QED  BY <1>10, <1>11, <1>12, <1>13

LEMMA SamePair ==
    /\ ByTwo!Init <=> Pair!Init
    /\ ByTwo!Next <=> Pair!Next
    /\ ByTwo!TypeOK <=> Pair!TypeOK
    /\ ByTwo!Preserved <=> Alone!Preserved
<1>. USE DEF ByTwo!Values, Pair!Values, ByTwo!Idle, Pair!Idle, ByTwo!Resting, Pair!Resting,
            ByTwo!Busy, Pair!Busy, ByTwo!Reviewing, Pair!Reviewing, ByTwo!Loadable,
            Pair!Loadable, ByTwo!Pending, Pair!Pending, ByTwo!Only, Pair!Only, ByTwo!Unnoticed,
            Pair!Unnoticed, ByTwo!Step, Pair!Step, ByTwo!Return, Pair!Return, ByTwo!PutBack,
            Pair!PutBack, ByTwo!Installable, Pair!Installable, ByTwo!Times, Pair!Times,
            ByTwo!MayRestore, Pair!MayRestore, ByTwo!Refuses, Pair!Refuses, ByTwo!history, Pair!history
<1>1. ASSUME NEW w \in {w1, w2}
      PROVE  /\ ByTwo!Read(w) <=> Pair!Read(w)
             /\ ByTwo!GiveUp(w) <=> Pair!GiveUp(w)
             /\ ByTwo!MoveAway(w) <=> Pair!MoveAway(w)
             /\ ByTwo!Verify(w) <=> Pair!Verify(w)
             /\ ByTwo!Install(w) <=> Pair!Install(w)
             /\ ByTwo!Undo(w) <=> Pair!Undo(w)
             /\ ByTwo!Keep(w) <=> Pair!Keep(w)
             /\ ByTwo!Record(w) <=> Pair!Record(w)
             /\ ByTwo!Clear(w) <=> Pair!Clear(w)
             /\ ByTwo!Crash(w) <=> Pair!Crash(w)
  <2>1. ByTwo!Read(w) <=> Pair!Read(w)
    BY DEF ByTwo!Read, Pair!Read
  <2>2. ByTwo!GiveUp(w) <=> Pair!GiveUp(w)
    BY DEF ByTwo!GiveUp, Pair!GiveUp
  <2>3. ByTwo!MoveAway(w) <=> Pair!MoveAway(w)
    BY DEF ByTwo!MoveAway, Pair!MoveAway
  <2>4. ByTwo!Verify(w) <=> Pair!Verify(w)
    BY DEF ByTwo!Verify, Pair!Verify
  <2>5. ByTwo!Install(w) <=> Pair!Install(w)
    BY DEF ByTwo!Install, Pair!Install
  <2>6. ByTwo!Undo(w) <=> Pair!Undo(w)
    BY DEF ByTwo!Undo, Pair!Undo
  <2>7. ByTwo!Keep(w) <=> Pair!Keep(w)
    BY DEF ByTwo!Keep, Pair!Keep
  <2>8. ByTwo!Record(w) <=> Pair!Record(w)
    BY DEF ByTwo!Record, Pair!Record
  <2>9. ByTwo!Clear(w) <=> Pair!Clear(w)
    BY DEF ByTwo!Clear, Pair!Clear
  <2>10. ByTwo!Crash(w) <=> Pair!Crash(w)
    BY DEF ByTwo!Crash, Pair!Crash
  <2>. QED  BY <2>1, <2>2, <2>3, <2>4, <2>5, <2>6, <2>7, <2>8, <2>9, <2>10
<1>2. ASSUME NEW verdict PROVE ByTwo!ReviewAll(verdict) <=> Pair!ReviewAll(verdict)
  <2>1. ASSUME NEW S PROVE ByTwo!Orders(S) = Pair!Orders(S)
    <3>1. ByTwo!Cardinality(S) = Pair!Cardinality(S)
      BY DEF ByTwo!Cardinality, Pair!Cardinality
    <3>2. \A q : q \in ByTwo!Orders(S) <=> q \in Pair!Orders(S)
      BY <3>1 DEF ByTwo!Orders, Pair!Orders
    <3>. QED  BY <3>2
  <2>. QED  BY <2>1 DEF ByTwo!ReviewAll, Pair!ReviewAll
<1>3. ASSUME NEW k, NEW verdict PROVE ByTwo!ReviewOne(k, verdict) <=> Pair!ReviewOne(k, verdict)
  BY DEF ByTwo!ReviewOne, Pair!ReviewOne
<1>4. ByTwo!Load <=> Pair!Load
  BY DEF ByTwo!Load, Pair!Load
<1>5. ByTwo!Restore <=> Pair!Restore
  BY DEF ByTwo!Restore, Pair!Restore
<1>6. ByTwo!Fill <=> Pair!Fill
  BY DEF ByTwo!Fill, Pair!Fill
<1>7. ByTwo!Mark <=> Pair!Mark
  BY DEF ByTwo!Mark, Pair!Mark
<1>8. ByTwo!Abandon <=> Pair!Abandon
  BY DEF ByTwo!Abandon, Pair!Abandon
<1>9. ASSUME NEW d PROVE ByTwo!Save(d) <=> Pair!Save(d)
  BY DEF ByTwo!Save, Pair!Save
<1>10. ByTwo!Next <=> Pair!Next
  BY <1>1, <1>2, <1>3, <1>4, <1>5, <1>6, <1>7, <1>8, <1>9 DEF ByTwo!Next, Pair!Next
<1>11. ByTwo!Init <=> Pair!Init
  BY DEF ByTwo!Init, Pair!Init
<1>12. ByTwo!TypeOK <=> Pair!TypeOK
  BY DEF ByTwo!TypeOK, Pair!TypeOK
<1>13. ByTwo!Preserved <=> Alone!Preserved
  BY DEF ByTwo!Preserved, Alone!Preserved
<1>. QED  BY <1>10, <1>11, <1>12, <1>13

\* The values that mark a missing or partial file are no contents.
LEMMA MarksHold == ByOne!Marks /\ ByTwo!Marks
BY MarksAssumption DEF ByOne!Marks, ByTwo!Marks

----------------------------------------------------------------------------
(* The parts share no state: while one runs, the others stay as they began. *)

EditsInv ==
    IF part = "pair" THEN ByTwo!Inv /\ ByTwo!Orderly ELSE ByOne!Inv /\ ByOne!Orderly

SessionInv == Inv /\ Bounded /\ EditsInv

LEMMA SessionInitHolds == ASSUME SessionInit PROVE SessionInv
<1>1. Inv /\ Bounded
  BY InitInv, InitBounded DEF SessionInit
<1>2. CASE part = "pair"
  <2>1. ByTwo!Init
    BY <1>2, SamePair DEF SessionInit
  <2>. QED  BY <1>1, <1>2, <2>1, MarksHold, ByTwo!InitHolds, ByTwo!InitOrderly
            DEF SessionInv, EditsInv
<1>3. CASE part # "pair"
  <2>1. ByOne!Init
    BY <1>3, SameAlone DEF SessionInit
  <2>. QED  BY <1>1, <1>3, <2>1, MarksHold, ByOne!InitHolds, ByOne!InitOrderly
            DEF SessionInv, EditsInv
<1>. QED  BY <1>2, <1>3

\* A step of the session is one of its part, or changes nothing, for the others.
LEMMA Parts ==
    ASSUME [SessionNext]_<<part, vars, edits>>
    PROVE  /\ part' = part
           /\ [Next]_vars
           /\ part = "pair" => [ByTwo!Next]_(ByTwo!vars)
           /\ part # "pair" => [ByOne!Next]_(ByOne!vars)
<1>1. edits = ByOne!vars /\ edits = ByTwo!vars
  BY DEF edits, ByOne!vars, ByTwo!vars
<1>. QED  BY <1>1, SameAlone, SamePair DEF SessionNext, edits, ByOne!vars, ByTwo!vars

LEMMA SessionNextKeeps ==
    ASSUME SessionInv, [SessionNext]_<<part, vars, edits>> PROVE SessionInv'
<1>1. Inv' /\ Bounded'
  BY Parts, NextKeeps, StaysBounded DEF SessionInv
<1>2. CASE part = "pair"
  <2>1. ByTwo!Inv' /\ ByTwo!Orderly'
    BY <1>2, Parts, MarksHold, ByTwo!NextKeeps, ByTwo!NextOrderly DEF SessionInv, EditsInv
  <2>. QED  BY <1>1, <1>2, <2>1, Parts DEF SessionInv, EditsInv
<1>3. CASE part # "pair"
  <2>1. ByOne!Inv' /\ ByOne!Orderly'
    BY <1>3, Parts, MarksHold, ByOne!NextKeeps, ByOne!NextOrderly DEF SessionInv, EditsInv
  <2>. QED  BY <1>1, <1>3, <2>1, Parts DEF SessionInv, EditsInv
<1>. QED  BY <1>2, <1>3

\* What holds of each part alone holds of the session.
THEOREM SessionInvariance == SessionSpec => []SessionInv
<1>. QED  BY SessionInitHolds, SessionNextKeeps, PTL DEF SessionSpec

\* The values of the state, of whichever part runs.
THEOREM SessionTypes == SessionSpec => []SessionTypeOK
<1>1. SessionInv => SessionTypeOK
  BY BoundedTypes, ByOne!InvTypes, ByTwo!InvTypes, SameAlone, SamePair
     DEF SessionInv, EditsInv, SessionTypeOK
<1>. QED  BY <1>1, SessionInvariance, PTL

\* What a user saved survives one call at a time, and two at once, unless it was saved
\* in one of the moments Preserved leaves out (write_file, edit_file, CheckpointStore).
THEOREM SavesSurvive == SessionSpec => []Preserved
<1>1. SessionInv => Preserved
  BY ByOne!InvPreserves, ByTwo!InvPreserves, SameAlone, SamePair
     DEF SessionInv, EditsInv, Preserved
<1>. QED  BY <1>1, SessionInvariance, PTL

\* Rejecting everything undoes everything, whoever made the edits, unless the clock
\* did not advance between two of them (CheckpointStore::decide_pending).
THEOREM EditsAreUndone == SessionSpec => RejectAllUndoes
<1>1. SessionInv /\ [SessionNext]_<<part, vars, edits>> =>
         [base # torn /\ review.step = "load" /\ review' = Alone!Resting =>
            IF review.queue = <<>> THEN file = base
            ELSE \E k, l \in DOMAIN records :
                    k < l /\ records[k].time >= records[l].time]_(Alone!vars)
  <2>1. Alone!Resting = ByOne!Resting /\ Alone!Resting = ByTwo!Resting
    BY DEF Alone!Resting, ByOne!Resting, ByTwo!Resting
  <2>. QED  BY <2>1, Parts, MarksHold, ByOne!RejectionEnds, ByTwo!RejectionEnds
            DEF SessionInv, EditsInv
<1>. QED  BY <1>1, SessionInvariance, PTL
          DEF SessionSpec, RejectAllUndoes, Alone!RejectAllUndoes

\* Background commands are known, over and owned as their records say, and how
\* they ended stays (BackgroundJobs).
THEOREM CommandsStayKnown == SessionSpec => [](KnownJobs /\ OverIsOver /\ OwnCommands) /\ EndsStay
<1>1. SessionInv => KnownJobs /\ OverIsOver /\ OwnCommands
  BY InvKnows, InvTells DEF SessionInv
<1>2. SessionInv /\ [SessionNext]_<<part, vars, edits>> =>
         [\A i \in DOMAIN manifest :
             manifest[i].status \in Final => manifest'[i] = manifest[i]]_vars
  BY Parts, NextKeeps DEF SessionInv, EndsKept
<1>. QED  BY <1>1, <1>2, SessionInvariance, PTL DEF SessionSpec, EndsStay
=============================================================================
