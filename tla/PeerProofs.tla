------------------------------ MODULE PeerProofs ------------------------------
(***************************************************************************)
(* The requests of peers, their answers and their two ledgers, for any     *)
(* number of runtimes and requests, whatever stalls, dies or fails.        *)
(***************************************************************************)
EXTENDS PeerTurns, TLAPS

Early == {"create", "giveBack", "noteClaim", "start", "noteRun", "turn"}
Late == {"check", "file", "settle", "prove", "mark", "noteEnd", "reconcile"}

\* Some runtime is at work on the request.
Attended(r) == \E p \in Runtimes : step[<<p, r>>] # "idle"

(***************************************************************************)
(* What a work knows.  Only the owner of the lease files a response, and a *)
(* runtime that lost the lease never owns it again: so the response to a   *)
(* request the owner works on is the owner's own, unless it was there when *)
(* the request was claimed.  A record somebody works at is not compacted.  *)
(***************************************************************************)
WorkOK(w) ==
    LET r == w[2]
        s == step[w]
    IN
    /\ s # "idle" => runtime[w[1]] \in {"up", "down"}
    /\ s \in {"start", "noteRun", "turn"} => want[w] = "run"
    /\ s # "idle" /\ want[w] = "reject" => answer[w] = Rejection
    /\ s \in Early /\ want[w] = "run" => answer[w] = NoReply
    /\ s \in Late /\ want[w] = "run" => answer[w] \in Answers
    /\ s # "idle" /\ owner = w[1] =>
          reply[r] \in {NoReply, answer[w]} \/ r \in retaken
    /\ s = "settle" =>
          /\ reply[r] = answer[w] /\ place[r] \in {"processing", "settled"}
          /\ \A p \in Runtimes : runtime[p] # "recovering"
    /\ s \notin {"idle", "create", "giveBack"} => task[r] # "none"
    /\ s \in {"noteRun", "turn"} \/ (s \in Late /\ want[w] = "run") =>
          task[r] \in {"running", "completed"}
    /\ s = "mark" =>
          /\ place[r] = "settled" /\ reply[r] # NoReply
          /\ want[w] = "run" => reply[r] \in Answers \/ r \in retaken
    /\ s = "noteEnd" => task[r] = Goal(w)

\* A request without a record: nobody has got anywhere with it yet, or its
\* record was compacted and nobody will work on it again.
Untouched(r) == reply[r] = NoReply /\ r \notin ran /\ note[r] = "none"
Over(r) == place[r] = "settled" /\ ~Attended(r)

RequestOK(r) ==
    /\ place[r] = "settled" => reply[r] # NoReply
    /\ r \in Past => place[r] = "settled" /\ r \in seen
    /\ task[r] = "none" => Untouched(r) \/ Over(r)
    /\ reply[r] \in Answers \/ r \in ran => task[r] \notin {"claimed", "rejected"}
    /\ place[r] = "processing" => Attended(r) \/ r \in abandoned

\* The properties, request by request.
WitnessedOK(r) ==
    /\ task[r] = "completed" =>
          place[r] = "settled" /\ (reply[r] \in Answers \/ r \in retaken)
    /\ task[r] = "rejected" => place[r] = "settled" /\ reply[r] = Rejection

NotesOK(r) ==
    /\ note[r] = "running" => task[r] \in {"none", "running", "completed"}
    /\ note[r] \in Terminal => task[r] \in {"none", note[r]}
    /\ sent[r] \in {"available", "acknowledged"} => reply[r] # NoReply
    /\ sent[r] = "acknowledged" => r \in seen

ToldOK(r) ==
    /\ <<r, "completed">> \in told =>
          place[r] = "settled" /\ (reply[r] \in Answers \/ r \in retaken)
    /\ <<r, "rejected">> \in told =>
          /\ place[r] = "settled" /\ reply[r] = Rejection /\ r \notin ran
          /\ task[r] \in {"rejected", "none"}

KnownOK(r) ==
    place[r] = "settled" /\ ~Attended(r) /\ r \notin abandoned
        => task[r] \in Terminal \cup {"none"}

Fine(r) == RequestOK(r) /\ WitnessedOK(r) /\ NotesOK(r) /\ ToldOK(r) /\ KnownOK(r)

PeerInv ==
    /\ TypeOK
    /\ \A w \in Works : WorkOK(w)
    /\ \A r \in Requests : Fine(r)

----------------------------------------------------------------------------
LEMMA WorkTypes ==
    ASSUME NEW w \in Works
    PROVE  w[1] \in Runtimes /\ w[2] \in Requests /\ w = <<w[1], w[2]>>
BY DEF Works

LEMMA AtWork ==
    ASSUME NEW w \in Works, step[w] # "idle"
    PROVE  Attended(w[2])
BY WorkTypes DEF Attended

\* Compaction only drops ended records of requests nobody is at work on.
LEMMA CompactedIs ==
    ASSUME NEW t \in [Requests -> TaskStates], NEW records \in Compacted(t)
    PROVE  /\ records \in [Requests -> TaskStates]
           /\ \A q \in Requests :
                 \/ records[q] = t[q]
                 \/ records[q] = "none" /\ t[q] \in Terminal /\ ~Attended(q)
<1>1. CASE records = t
  BY <1>1
<1>2. ASSUME NEW S \in SUBSET {q \in Unattended : t[q] \in Terminal}, records = Kept(t, S)
      PROVE  /\ records \in [Requests -> TaskStates]
             /\ \A q \in Requests :
                   \/ records[q] = t[q]
                   \/ records[q] = "none" /\ t[q] \in Terminal /\ ~Attended(q)
  BY <1>2 DEF Kept, Unattended, Attended, TaskStates
<1>. QED  BY <1>1, <1>2 DEF Compacted

(***************************************************************************)
(* What a step of one work leaves of the others.                           *)
(***************************************************************************)
\* The state of a request goes on, never back.
Onward(r) ==
    /\ place[r] = "settled" => place'[r] = "settled"
    /\ reply[r] # NoReply => reply'[r] = reply[r]
    /\ \/ task'[r] = task[r]
       \/ task[r] = "none" /\ task'[r] = "claimed"
       \/ task[r] = "claimed" /\ task'[r] \in {"running", "rejected"}
       \/ task[r] = "running" /\ task'[r] = "completed"

\* The step is not about this request, but may compact its records.
Apart(q) ==
    /\ place'[q] = place[q] /\ reply'[q] = reply[q] /\ sent'[q] = sent[q]
    /\ task'[q] = task[q] \/ (task'[q] = "none" /\ task[q] \in Terminal /\ ~Attended(q))
    /\ note'[q] \in {note[q], "none"}
    /\ \A o \in Terminal : <<q, o>> \in told' <=> <<q, o>> \in told
    /\ (q \in seen') <=> (q \in seen)
    /\ (q \in ran') <=> (q \in ran)
    /\ (q \in abandoned') <=> (q \in abandoned)

SameWork(v) == step'[v] = step[v] /\ want'[v] = want[v] /\ answer'[v] = answer[v]

Local(w) ==
    /\ \A v \in Works \ {w} : SameWork(v)
    /\ \A q \in Requests \ {w[2]} : Apart(q)
    /\ Onward(w[2])
    /\ UNCHANGED lease
    /\ retaken \subseteq retaken'
    /\ Unlocked \/ place'[w[2]] \in {place[w[2]], "settled"}
    /\ owner = w[1] \/ reply' = reply

LEMMA ApartOnward ==
    ASSUME NEW q \in Requests, Apart(q), Attended(q)
    PROVE  Onward(q)
BY DEF Apart, Onward

\* A work that does not act knows what it knew.
LEMMA Bystander ==
    ASSUME TypeOK, TypeOK', NEW v \in Works, WorkOK(v), SameWork(v),
           step[v] # "idle" =>
              /\ Onward(v[2]) /\ retaken \subseteq retaken'
              /\ runtime'[v[1]] \in {"up", "down"}
              /\ owner' = v[1] => owner = v[1] /\ reply'[v[2]] = reply[v[2]],
           step[v] = "settle" =>
              /\ place'[v[2]] \in {"processing", "settled"}
              /\ \A p \in Runtimes : runtime'[p] # "recovering"
    PROVE  WorkOK(v)'
<1>. USE WorkTypes, RepliesAssumption
<1>1. CASE step[v] = "idle"
  BY <1>1 DEF WorkOK, SameWork, Early, Late
<1>2. CASE step[v] # "idle"
  <2>1. Goal(v)' = Goal(v) /\ Goal(v) \in Terminal
    BY DEF Goal, SameWork, Terminal
  <2>2. answer[v] # NoReply \/ step[v] # "settle"
    BY DEF WorkOK, TypeOK, Late, Works
  <2>3. step[v] = "settle" => reply'[v[2]] = answer'[v]
    BY <1>2, <2>2 DEF WorkOK, SameWork, Onward
  <2>4. step[v] \notin {"idle", "create", "giveBack"} => task'[v[2]] # "none"
    BY <1>2 DEF WorkOK, Onward
  <2>5. task[v[2]] \in {"running", "completed"} => task'[v[2]] \in {"running", "completed"}
    BY <1>2 DEF Onward
  <2>6. step[v] = "noteEnd" => task'[v[2]] = Goal(v)
    BY <1>2, <2>1 DEF WorkOK, Onward, Terminal
  <2>7. step[v] = "mark" =>
           /\ place'[v[2]] = "settled" /\ reply'[v[2]] # NoReply
           /\ want[v] = "run" => reply'[v[2]] \in Answers \/ v[2] \in retaken'
    BY <1>2 DEF WorkOK, Onward
  <2>8. owner' = v[1] => reply'[v[2]] \in {NoReply, answer'[v]} \/ v[2] \in retaken'
    BY <1>2 DEF WorkOK, SameWork
  <2>. QED  BY <1>2, <2>1, <2>3, <2>4, <2>5, <2>6, <2>7, <2>8 DEF WorkOK, SameWork
<1>. QED  BY <1>1, <1>2

\* A request the step is not about is as well as it was.
LEMMA Elsewhere ==
    ASSUME TypeOK, TypeOK', NEW q \in Requests, Fine(q), Apart(q),
           Attended(q)' <=> Attended(q), retaken \subseteq retaken'
    PROVE  Fine(q)'
<1>1. RequestOK(q)'
  BY DEF Fine, RequestOK, WitnessedOK, Untouched, Over, Apart, Terminal
<1>2. WitnessedOK(q)'
  BY DEF Fine, WitnessedOK, Apart
<1>3. NotesOK(q)'
  BY DEF Fine, NotesOK, Apart, Terminal
<1>4. ToldOK(q)'
  BY DEF Fine, ToldOK, Apart, Terminal
<1>5. KnownOK(q)'
  BY DEF Fine, KnownOK, Apart, Terminal
<1>. QED  BY <1>1, <1>2, <1>3, <1>4, <1>5 DEF Fine

LEMMA OthersKept ==
    ASSUME PeerInv, TypeOK', NEW w \in Works, Local(w)
    PROVE  /\ \A v \in Works \ {w} : WorkOK(v)'
           /\ \A q \in Requests \ {w[2]} : Fine(q)'
<1>. USE WorkTypes
<1>1. ASSUME NEW v \in Works \ {w} PROVE WorkOK(v)'
  <2>1. step[v] # "idle" => Onward(v[2])
    BY AtWork, ApartOnward DEF Local
  <2>2. step[v] # "idle" /\ owner' = v[1] => owner = v[1] /\ reply'[v[2]] = reply[v[2]]
    <3>1. CASE v[2] # w[2]
      BY <3>1 DEF Local, lease, Apart
    <3>2. CASE v[2] = w[2]
      BY <3>2 DEF Local, lease
    <3>. QED  BY <3>1, <3>2
  <2>3. step[v] = "settle" => place'[v[2]] \in {"processing", "settled"}
    <3>1. CASE v[2] # w[2]
      BY <3>1 DEF Local, Apart, PeerInv, WorkOK
    <3>2. CASE v[2] = w[2]
      BY <3>2 DEF Local, Unlocked, PeerInv, WorkOK
    <3>. QED  BY <3>1, <3>2
  <2>. QED  BY <2>1, <2>2, <2>3, Bystander DEF Local, lease, PeerInv, WorkOK
<1>2. ASSUME NEW q \in Requests \ {w[2]} PROVE Fine(q)'
  <2>1. Attended(q)' <=> Attended(q)
    <3>. \A p \in Runtimes : <<p, q>> \in Works \ {w}
      BY DEF Works
    <3>. QED  BY DEF Local, SameWork, Attended
  <2>. QED  BY <2>1, Elsewhere DEF Local, PeerInv
<1>. QED  BY <1>1, <1>2

\* So a step of one work is as good as it is for the work and its request.
LEMMA Suffices ==
    ASSUME PeerInv, TypeOK', NEW w \in Works, Local(w), WorkOK(w)', Fine(w[2])'
    PROVE  PeerInv'
BY OthersKept, WorkTypes DEF PeerInv

----------------------------------------------------------------------------
(* A step that only moves its work. *)

Moves(w) ==
    /\ UNCHANGED <<bus, lease, ledgers, history>>
    /\ \A v \in Works \ {w} : SameWork(v)
    /\ step[w] # "idle" /\ step'[w] # "idle"

LEMMA MovesLocal ==
    ASSUME NEW w \in Works, Moves(w)
    PROVE  Local(w)
BY WorkTypes DEF Moves, Local, Apart, Onward, bus, ledgers, history

\* A request attended before and after is as well as its bus and records are.
LEMMA StillAtWork ==
    ASSUME TypeOK', NEW w \in Works, step'[w] # "idle"
    PROVE  Attended(w[2])'
BY WorkTypes DEF Attended

LEMMA MoveSuffices ==
    ASSUME PeerInv, TypeOK', NEW w \in Works, Moves(w), WorkOK(w)'
    PROVE  PeerInv'
<1>. DEFINE r == w[2]
<1>1. r \in Requests /\ Fine(r)
  BY WorkTypes DEF PeerInv
<1>2. Attended(r) /\ Attended(r)'
  BY AtWork, StillAtWork DEF Moves
<1>3. Fine(r)'
  BY <1>1, <1>2 DEF Moves, bus, lease, ledgers, history, Fine, RequestOK, WitnessedOK,
                    NotesOK, ToldOK, KnownOK, Untouched, Over
<1>. QED  BY <1>3, MovesLocal, Suffices

LEMMA TurnKeeps ==
    ASSUME PeerInv, NEW w \in Works, Turn(w)
    PROVE  PeerInv'
<1>. USE WorkTypes, RepliesAssumption
<1>1. TypeOK'
  BY DEF PeerInv, TypeOK, Turn, bus, lease, ledgers, history, Go, Steps, Replies
<1>2. Moves(w)
  BY DEF PeerInv, TypeOK, Turn, Moves, SameWork, Go
<1>3. /\ want[w] = "run" /\ want' = want
      /\ runtime[w[1]] \in {"up", "down"}
      /\ owner = w[1] => reply[w[2]] = NoReply \/ w[2] \in retaken
      /\ task[w[2]] \in {"running", "completed"}
  BY DEF PeerInv, WorkOK, Turn, Early
<1>4. \/ step'[w] = "check" /\ answer'[w] \in Answers
      \/ step'[w] = "release" /\ answer'[w] = answer[w]
  BY DEF PeerInv, TypeOK, Turn, Go
<1>5. WorkOK(w)'
  BY <1>3, <1>4 DEF WorkOK, Turn, bus, lease, ledgers, history, Early, Late
<1>. QED  BY <1>1, <1>2, <1>5, MoveSuffices

LEMMA FileFailsKeeps ==
    ASSUME PeerInv, NEW w \in Works, FileFails(w)
    PROVE  PeerInv'
<1>. USE WorkTypes
<1>1. TypeOK'
  BY DEF PeerInv, TypeOK, FileFails, bus, lease, ledgers, history, Go, Steps
<1>2. Moves(w)
  BY DEF PeerInv, TypeOK, FileFails, Moves, SameWork, Go
<1>3. WorkOK(w)'
  BY DEF PeerInv, TypeOK, WorkOK, FileFails, bus, lease, ledgers, history, Go, Early, Late
<1>. QED  BY <1>1, <1>2, <1>3, MoveSuffices

LEMMA SettleFailsKeeps ==
    ASSUME PeerInv, NEW w \in Works, SettleFails(w)
    PROVE  PeerInv'
<1>. USE WorkTypes
<1>1. TypeOK'
  BY DEF PeerInv, TypeOK, SettleFails, bus, lease, ledgers, history, Go, Steps
<1>2. Moves(w)
  BY DEF PeerInv, TypeOK, SettleFails, Moves, SameWork, Go
<1>3. WorkOK(w)'
  BY DEF PeerInv, TypeOK, WorkOK, SettleFails, bus, lease, ledgers, history, Go, Early, Late
<1>. QED  BY <1>1, <1>2, <1>3, MoveSuffices

LEMMA ProveKeeps ==
    ASSUME PeerInv, NEW w \in Works, Prove(w)
    PROVE  PeerInv'
<1>. USE WorkTypes
<1>1. TypeOK'
  BY DEF PeerInv, TypeOK, Prove, GoesWrong, bus, lease, ledgers, history, Go, Steps
<1>2. Moves(w)
  BY DEF PeerInv, TypeOK, Prove, GoesWrong, Moves, SameWork, Go
<1>3. WorkOK(w)'
  <2>1. CASE Proves(w) /\ Go(w, "mark")
    <3>1. want[w] = "run" => reply[w[2]] \in Answers \/ w[2] \in retaken
      BY <2>1 DEF PeerInv, WorkOK, Prove, Proves, Live, Late
    <3>. QED  BY <2>1, <1>1, <3>1 DEF PeerInv, TypeOK, WorkOK, Prove, Proves, Live, bus, lease,
                                      ledgers, history, Go, Early, Late
  <2>2. CASE GoesWrong(w)
    BY <2>2 DEF PeerInv, TypeOK, WorkOK, Prove, GoesWrong, bus, lease, ledgers, history, Go,
                Early, Late
  <2>. QED  BY <2>1, <2>2 DEF Prove
<1>. QED  BY <1>1, <1>2, <1>3, MoveSuffices

----------------------------------------------------------------------------
(* The steps that change the bus or a record and go on.                    *)

\* The record is marked running, noticed or not.
LEMMA StartMarks ==
    ASSUME PeerInv, NEW w \in Works, step[w] = "start", Becomes(w[2], "running"),
           NEW s \in {"noteRun", "release"}, Go(w, s), stage' \in [Works -> {"claim", "turn", "redo"}],
           UNCHANGED <<bus, lease, litter, note, sent, want, answer, history>>
    PROVE  PeerInv'
<1>. DEFINE r == w[2]
<1>. USE WorkTypes
<1>1. r \in Requests /\ Fine(r) /\ Attended(r) /\ WorkOK(w)
  BY AtWork DEF PeerInv
<1>2. TypeOK'
  BY DEF PeerInv, TypeOK, Becomes, bus, lease, ledgers, history, Go, Steps, TaskStates, Active
<1>3. /\ task[r] \in {"claimed", "running"} /\ task'[r] = "running"
      /\ \A q \in Requests \ {r} : task'[q] = task[q]
      /\ step'[w] = s
  BY DEF PeerInv, TypeOK, Becomes, MayBecome, Go
<1>4. Local(w)
  BY <1>3 DEF PeerInv, TypeOK, Local, SameWork, Apart, Onward, Go, bus, lease, history
<1>5. WorkOK(w)'
  BY <1>1, <1>3 DEF WorkOK, Early, Late, bus, lease, history
<1>6. Fine(r)'
  BY <1>1, <1>2, <1>3, StillAtWork DEF Fine, RequestOK, WitnessedOK, NotesOK, ToldOK,
     KnownOK, Over, Untouched, Terminal, bus, lease, history
<1>. QED  BY <1>2, <1>4, <1>5, <1>6, Suffices

LEMMA StartKeeps ==
    ASSUME PeerInv, NEW w \in Works, Start(w)
    PROVE  PeerInv'
<1>1. stage' \in [Works -> {"claim", "turn", "redo"}]
  BY DEF PeerInv, TypeOK, Start
<1>. QED  BY <1>1, StartMarks DEF Start

LEMMA StartFailsKeeps ==
    ASSUME PeerInv, NEW w \in Works, StartFails(w)
    PROVE  PeerInv'
<1>. USE WorkTypes
<1>1. step[w] = "start" /\ step'[w] = "release" /\ stage' \in [Works -> {"claim", "turn", "redo"}]
  BY DEF PeerInv, TypeOK, StartFails, Go
<1>2. CASE UNCHANGED task
  <2>1. UNCHANGED ledgers
    BY <1>2 DEF StartFails, ledgers
  <2>2. TypeOK'
    BY <2>1 DEF PeerInv, TypeOK, StartFails, bus, lease, ledgers, history, Go, Steps
  <2>3. Moves(w)
    BY <2>1 DEF PeerInv, TypeOK, StartFails, Moves, SameWork, Go
  <2>4. WorkOK(w)'
    BY <1>1, <1>2 DEF PeerInv, WorkOK, StartFails, bus, lease, history, Early, Late
  <2>. QED  BY <2>2, <2>3, <2>4, MoveSuffices
<1>3. CASE Becomes(w[2], "running")
  BY <1>1, <1>3, StartMarks DEF StartFails
<1>. QED  BY <1>2, <1>3 DEF StartFails, Fails

\* The record ends, noticed or not.
LEMMA MarkEnds ==
    ASSUME PeerInv, NEW w \in Works, step[w] = "mark", Becomes(w[2], Goal(w)),
           NEW s \in {"noteEnd", "reconcile", "release"}, Go(w, s),
           UNCHANGED <<bus, lease, litter, note, sent, want, stage, answer, history>>
    PROVE  PeerInv'
<1>. DEFINE r == w[2]
<1>. USE WorkTypes
<1>1. r \in Requests /\ Fine(r) /\ Attended(r) /\ WorkOK(w)
  BY AtWork DEF PeerInv
<1>2. Goal(w)' = Goal(w) /\ Goal(w) \in Terminal
  BY DEF Goal, Terminal
<1>3. TypeOK'
  BY <1>2 DEF PeerInv, TypeOK, Becomes, bus, lease, ledgers, history, Go, Steps, TaskStates
<1>4. /\ task'[r] = Goal(w)
      /\ \A q \in Requests \ {r} : task'[q] = task[q]
      /\ step'[w] = s
  BY DEF PeerInv, TypeOK, Becomes, Go
<1>5. IF want[w] = "run"
      THEN task[r] \in {"running", "completed"} /\ Goal(w) = "completed"
      ELSE task[r] \in {"claimed", "rejected"} /\ Goal(w) = "rejected"
  BY <1>1 DEF Becomes, MayBecome, Goal, WorkOK, Late
<1>6. Local(w)
  BY <1>4, <1>5 DEF PeerInv, TypeOK, Local, SameWork, Apart, Onward, Go, bus, lease, history
<1>7. WorkOK(w)'
  BY <1>1, <1>2, <1>4, <1>5 DEF WorkOK, Early, Late, bus, lease, history
<1>8. Fine(r)'
  <2>1. place[r] = "settled" /\ reply[r] # NoReply
    BY <1>1, <1>4 DEF WorkOK
  <2>2. CASE want[w] = "run"
    <3>1. reply[r] \in Answers \/ r \in retaken
      BY <2>2, <1>1, <1>4 DEF WorkOK
    <3>. QED  BY <2>1, <2>2, <3>1, <1>1, <1>3, <1>4, <1>5, StillAtWork DEF Fine, RequestOK,
              WitnessedOK, NotesOK, ToldOK, KnownOK, Over, Untouched, Terminal, bus, lease, history
  <2>3. CASE want[w] # "run"
    <3>1. reply[r] = Rejection /\ r \notin ran
      BY <2>1, <2>3, <1>1, <1>5 DEF Fine, RequestOK, PeerInv, TypeOK, Replies
    <3>. QED  BY <2>1, <2>3, <3>1, <1>1, <1>3, <1>4, <1>5, StillAtWork, RepliesAssumption DEF Fine,
              RequestOK, WitnessedOK, NotesOK, ToldOK, KnownOK, Over, Untouched, Terminal, bus,
              lease, history
  <2>. QED  BY <2>2, <2>3
<1>. QED  BY <1>3, <1>6, <1>7, <1>8, Suffices

LEMMA MarkKeeps ==
    ASSUME PeerInv, NEW w \in Works, Mark(w)
    PROVE  PeerInv'
BY MarkEnds DEF Mark

LEMMA MarkFailsKeeps ==
    ASSUME PeerInv, NEW w \in Works, MarkFails(w)
    PROVE  PeerInv'
<1>. USE WorkTypes
<1>1. CASE UNCHANGED task
  <2>1. UNCHANGED ledgers
    BY <1>1 DEF MarkFails, ledgers
  <2>2. TypeOK'
    BY <2>1 DEF PeerInv, TypeOK, MarkFails, GoesWrong, bus, lease, ledgers, history, Go, Steps
  <2>3. Moves(w)
    BY <2>1 DEF PeerInv, TypeOK, MarkFails, GoesWrong, Moves, SameWork, Go
  <2>4. WorkOK(w)'
    BY <2>1 DEF PeerInv, TypeOK, WorkOK, MarkFails, GoesWrong, bus, lease, ledgers, history, Go,
                Early, Late
  <2>. QED  BY <2>2, <2>3, <2>4, MoveSuffices
<1>2. CASE Becomes(w[2], Goal(w))
  <2>1. PICK s \in {"reconcile", "release"} : Go(w, s)
    BY DEF MarkFails, GoesWrong
  <2>. QED  BY <1>2, <2>1, MarkEnds DEF MarkFails
<1>. QED  BY <1>1, <1>2 DEF MarkFails, Fails

LEMMA FileKeeps ==
    ASSUME PeerInv, NEW w \in Works, File(w)
    PROVE  PeerInv'
<1>. DEFINE r == w[2]
<1>. USE WorkTypes, RepliesAssumption
<1>1. r \in Requests /\ Fine(r) /\ Attended(r) /\ WorkOK(w)
  BY AtWork DEF PeerInv, File
<1>2. TypeOK'
  BY DEF PeerInv, TypeOK, File, bus, lease, ledgers, history, Go, Steps
<1>3. /\ reply[r] \in {NoReply, answer[w]} /\ reply'[r] = answer[w]
      /\ \A q \in Requests \ {r} : reply'[q] = reply[q]
      /\ step[w] = "file" /\ step'[w] = "settle"
      /\ owner = w[1] /\ place[r] \in {"processing", "settled"}
  BY DEF PeerInv, TypeOK, File, Files, Live, Go
<1>4. IF want[w] = "run"
      THEN answer[w] \in Answers /\ task[r] \in {"running", "completed"}
      ELSE answer[w] = Rejection
  BY <1>1, <1>3 DEF PeerInv, TypeOK, WorkOK, Late
<1>5. Local(w)
  BY <1>3 DEF PeerInv, TypeOK, File, Local, SameWork, Apart, Onward, Go, bus, lease, ledgers, history
<1>6. WorkOK(w)'
  BY <1>1, <1>3, <1>4 DEF File, Unlocked, WorkOK, Early, Late, bus, lease, ledgers, history
<1>7. /\ reply'[r] # NoReply
      /\ reply[r] # NoReply => reply'[r] = reply[r]
      /\ reply'[r] \in Answers => task[r] \in {"running", "completed"}
      /\ task[r] # "none"
  BY <1>1, <1>3, <1>4 DEF WorkOK
<1>8. Fine(r)'
  <2>1. Attended(r)' /\ UNCHANGED <<place, seen, lease, ledgers, history>>
    BY <1>2, <1>3, StillAtWork DEF File
  <2>2. RequestOK(r)'
    BY <1>1, <1>7, <2>1 DEF Fine, RequestOK, Untouched, Over, ledgers, history
  <2>3. WitnessedOK(r)' /\ NotesOK(r)' /\ ToldOK(r)' /\ KnownOK(r)'
    BY <1>1, <1>7, <2>1 DEF Fine, WitnessedOK, NotesOK, ToldOK, KnownOK, ledgers, history
  <2>. QED  BY <2>2, <2>3 DEF Fine
<1>. QED  BY <1>2, <1>5, <1>6, <1>8, Suffices

LEMMA SettleKeeps ==
    ASSUME PeerInv, NEW w \in Works, Settle(w)
    PROVE  PeerInv'
<1>. DEFINE r == w[2]
<1>. USE WorkTypes, RepliesAssumption
<1>1. r \in Requests /\ Fine(r) /\ Attended(r) /\ WorkOK(w)
  BY AtWork DEF PeerInv, Settle
<1>2. TypeOK'
  BY DEF PeerInv, TypeOK, Settle, bus, lease, ledgers, history, Go, Steps, Shift, Places
<1>3. /\ place'[r] = "settled" /\ reply[r] = answer[w] /\ answer[w] # NoReply
      /\ \A q \in Requests \ {r} : place'[q] = place[q]
      /\ step[w] = "settle" /\ step'[w] = "prove"
  BY <1>1 DEF PeerInv, TypeOK, Settle, Go, Shift, WorkOK, Late
<1>4. Local(w)
  BY <1>3 DEF PeerInv, TypeOK, Settle, Local, SameWork, Apart, Onward, Go, bus, lease, ledgers, history
<1>5. WorkOK(w)'
  BY <1>1, <1>3 DEF Settle, WorkOK, Early, Late, bus, lease, ledgers, history
<1>6. Fine(r)'
  BY <1>1, <1>2, <1>3, StillAtWork DEF Settle, Fine, RequestOK, WitnessedOK, NotesOK, ToldOK,
     KnownOK, Over, Untouched, Terminal, bus, lease, ledgers, history
<1>. QED  BY <1>2, <1>4, <1>5, <1>6, Suffices

LEMMA NoteRunKeeps ==
    ASSUME PeerInv, NEW w \in Works, NoteRun(w)
    PROVE  PeerInv'
<1>. DEFINE r == w[2]
<1>. USE WorkTypes
<1>1. r \in Requests /\ Fine(r) /\ Attended(r) /\ WorkOK(w)
  BY AtWork DEF PeerInv, NoteRun
<1>2. PICK n \in {note[r], "running"} : note' = [note EXCEPT ![r] = n]
  BY DEF NoteRun, Note, Noted, Tried
<1>3. TypeOK'
  BY <1>1, <1>2 DEF PeerInv, TypeOK, NoteRun, bus, lease, history, Go, Steps, TaskStates, Active
<1>4. /\ \A q \in Requests \ {r} : note'[q] = note[q]
      /\ note'[r] \in {note[r], "running"}
      /\ step[w] = "noteRun" /\ step'[w] = "turn"
  BY <1>1, <1>2 DEF PeerInv, TypeOK, NoteRun, Go
<1>5. Local(w)
  BY <1>4 DEF PeerInv, TypeOK, NoteRun, Local, SameWork, Apart, Onward, Go, bus, lease, history
<1>6. WorkOK(w)'
  BY <1>1, <1>4 DEF NoteRun, WorkOK, Early, Late, bus, lease, history
<1>7. task[r] \in {"running", "completed"}
  BY <1>1, <1>4 DEF WorkOK
<1>8. Fine(r)'
  BY <1>1, <1>2, <1>3, <1>4, <1>7, StillAtWork DEF NoteRun, Fine, RequestOK, WitnessedOK, NotesOK,
     ToldOK, KnownOK, Over, Untouched, Terminal, bus, lease, history
<1>. QED  BY <1>3, <1>5, <1>6, <1>8, Suffices

LEMMA NoteClaimKeeps ==
    ASSUME PeerInv, NEW w \in Works, NoteClaim(w)
    PROVE  PeerInv'
<1>. DEFINE r == w[2]
<1>. USE WorkTypes
<1>1. r \in Requests /\ Fine(r) /\ Attended(r) /\ WorkOK(w)
  BY AtWork DEF PeerInv, NoteClaim
<1>2. /\ note' \in [Requests -> TaskStates]
      /\ note'[r] \in {note[r], "none", "claimed"}
      /\ \A q \in Requests \ {r} : note'[q] \in {note[q], "none"}
  <2>1. CASE UNCHANGED note
    BY <2>1, <1>1 DEF PeerInv, TypeOK
  <2>2. ASSUME NEW records \in Compacted(note),
               note' = IF Full(records) THEN records ELSE [records EXCEPT ![r] = "claimed"]
        PROVE  <1>2!:
    <3>1. /\ records \in [Requests -> TaskStates]
          /\ \A q \in Requests : records[q] \in {note[q], "none"}
      BY CompactedIs DEF PeerInv, TypeOK
    <3>. QED  BY <2>2, <3>1, <1>1 DEF TaskStates, Active
  <2>. QED  BY <2>1, <2>2 DEF NoteClaim
<1>3. step[w] = "noteClaim" /\ step'[w] = IF want[w] = "run" THEN "start" ELSE "check"
  BY DEF PeerInv, TypeOK, NoteClaim, Go
<1>4. TypeOK'
  BY <1>2 DEF PeerInv, TypeOK, NoteClaim, bus, lease, history, Go, Steps
<1>5. Local(w)
  BY <1>2 DEF PeerInv, TypeOK, NoteClaim, Local, SameWork, Apart, Onward, Go, bus, lease, history
<1>6. WorkOK(w)'
  BY <1>1, <1>3 DEF PeerInv, TypeOK, NoteClaim, WorkOK, Early, Late, bus, lease, history
<1>7. task[r] # "none"
  BY <1>1, <1>3 DEF WorkOK
<1>8. Fine(r)'
  BY <1>1, <1>2, <1>3, <1>4, <1>7, StillAtWork DEF NoteClaim, Fine, RequestOK, WitnessedOK, NotesOK,
     ToldOK, KnownOK, Over, Untouched, Terminal, bus, lease, history
<1>. QED  BY <1>4, <1>5, <1>6, <1>8, Suffices

LEMMA CreateKeeps ==
    ASSUME PeerInv, NEW w \in Works, Create(w)
    PROVE  PeerInv'
<1>. DEFINE r == w[2]
<1>. USE WorkTypes
<1>1. r \in Requests /\ Fine(r) /\ Attended(r) /\ WorkOK(w)
  BY AtWork DEF PeerInv, Create
<1>2. /\ task' \in [Requests -> TaskStates]
      /\ task'[r] = task[r] \/ (task[r] = "none" /\ task'[r] = "claimed")
      /\ \A q \in Requests \ {r} :
            \/ task'[q] = task[q]
            \/ task'[q] = "none" /\ task[q] \in Terminal /\ ~Attended(q)
      /\ \/ step' = [step EXCEPT ![w] = "giveBack"]
         \/ step' = [step EXCEPT ![w] = "noteClaim"] /\ task'[r] # "none"
  <2>1. CASE AcceptsKnown(r) /\ Go(w, "noteClaim") /\ UNCHANGED task
    BY <1>1, <2>1 DEF PeerInv, TypeOK, Go, AcceptsKnown, Active
  <2>3. CASE Go(w, "giveBack") /\ UNCHANGED task
    BY <1>1, <2>3 DEF PeerInv, TypeOK, Go
  <2>2. ASSUME NEW records \in Compacted(task), task[r] = "none",
               \/ task' = records /\ Go(w, "giveBack")
               \/ task' = [records EXCEPT ![r] = "claimed"] /\ Go(w, "noteClaim")
               \/ (\E s \in {"none", "claimed"} : task' = [records EXCEPT ![r] = s])
                     /\ Go(w, "giveBack")
        PROVE  <1>2!:
    <3>1. /\ records \in [Requests -> TaskStates]
          /\ \A q \in Requests :
                \/ records[q] = task[q]
                \/ records[q] = "none" /\ task[q] \in Terminal /\ ~Attended(q)
      BY CompactedIs DEF PeerInv, TypeOK
    <3>. QED  BY <2>2, <3>1, <1>1 DEF Go, TaskStates, Active
  <2>. QED  BY <2>1, <2>2, <2>3 DEF Create
<1>3. step[w] = "create" /\ step'[w] \in {"giveBack", "noteClaim"} /\ step'[w] # "idle"
      /\ (step'[w] = "noteClaim" => task'[r] # "none")
  BY <1>2 DEF PeerInv, TypeOK, Create
<1>4. TypeOK'
  BY <1>2 DEF PeerInv, TypeOK, Create, bus, lease, history, Steps
<1>5. Local(w)
  BY <1>2 DEF PeerInv, TypeOK, Create, Local, SameWork, Apart, Onward, bus, lease, history
<1>6. WorkOK(w)'
  BY <1>1, <1>3 DEF Create, WorkOK, Early, Late, bus, lease, history
<1>7. Fine(r)'
  <2>1. Attended(r)' /\ UNCHANGED <<bus, note, sent, history>>
    BY <1>3, <1>4, StillAtWork DEF Create
  <2>2. task[r] = "none" => Untouched(r)
    BY <1>1 DEF Fine, RequestOK, Over
  <2>. QED  BY <1>1, <1>2, <2>1, <2>2, RepliesAssumption DEF Fine, RequestOK, WitnessedOK, NotesOK,
            ToldOK, KnownOK, Over, Untouched, Terminal, bus, history
<1>. QED  BY <1>4, <1>5, <1>6, <1>7, Suffices

LEMMA ClaimKeeps ==
    ASSUME PeerInv, NEW w \in Works, NEW goal \in {"run", "reject"}, Claim(w, goal)
    PROVE  PeerInv'
<1>. DEFINE r == w[2]
<1>. USE WorkTypes, RepliesAssumption
<1>1. r \in Requests /\ Fine(r)
  BY DEF PeerInv
<1>2. TypeOK'
  BY DEF PeerInv, TypeOK, Claim, bus, lease, ledgers, history, Go, Steps, Shift, Places, Replies
<1>3. /\ place[r] = "pending" /\ place'[r] = "processing"
      /\ \A q \in Requests \ {r} : place'[q] = place[q]
      /\ step'[w] = "create" /\ want'[w] = goal
      /\ answer'[w] = IF goal = "run" THEN NoReply ELSE Rejection
      /\ runtime[w[1]] = "up"
      /\ retaken' = IF reply[r] = NoReply THEN retaken ELSE retaken \cup {r}
  BY DEF PeerInv, TypeOK, Claim, Go, Shift, Live
<1>4. Local(w)
  BY <1>3 DEF PeerInv, TypeOK, Claim, Local, SameWork, Apart, Onward, Go, lease, ledgers
<1>5. WorkOK(w)'
  BY <1>3 DEF Claim, WorkOK, Early, Late, lease, ledgers
<1>6. Fine(r)'
  BY <1>1, <1>2, <1>3, StillAtWork DEF Claim, Fine, RequestOK, WitnessedOK, NotesOK, ToldOK,
     KnownOK, Over, Untouched, lease, ledgers
<1>. QED  BY <1>2, <1>4, <1>5, <1>6, Suffices

----------------------------------------------------------------------------
(* The steps with which a work ends.                                       *)

\* At its end a work knows nothing, and so knows nothing false.
LEMMA IdleOK ==
    ASSUME NEW w \in Works, step'[w] = "idle"
    PROVE  WorkOK(w)'
BY DEF WorkOK, Early, Late

LEMMA Ended ==
    ASSUME TypeOK, NEW w \in Works, NEW o, End(w, o)
    PROVE  /\ step' \in [Works -> Steps] /\ want' \in [Works -> {"run", "reject"}]
           /\ stage' \in [Works -> {"claim", "turn", "redo"}]
           /\ answer' \in [Works -> Replies \cup {NoReply}]
           /\ \A v \in Works \ {w} : SameWork(v)
           /\ step'[w] = "idle"
           /\ told' \subseteq Requests \X Terminal
           /\ \A q \in Requests \ {w[2]} : \A e \in Terminal :
                 <<q, e>> \in told' <=> <<q, e>> \in told
           /\ \A e \in Terminal : e # o =>
                 (<<w[2], e>> \in told' <=> <<w[2], e>> \in told)
<1>1. /\ step' = [step EXCEPT ![w] = "idle"] /\ want' = [want EXCEPT ![w] = "run"]
      /\ stage' = [stage EXCEPT ![w] = "claim"] /\ answer' = [answer EXCEPT ![w] = NoReply]
      /\ told' = told \cup ({<<w[2], o>>} \cap (Requests \X Terminal))
  BY DEF End, Resting
<1>. QED  BY <1>1 DEF TypeOK, SameWork, Steps

\* A work may end when its request is not left halfway, or counts as abandoned.
Ends(w, o) ==
    LET r == w[2] IN
    /\ step[w] # "idle" /\ End(w, o)
    /\ UNCHANGED <<reply, seen, lease, task, litter, sent, ran, retaken>>
    /\ \/ UNCHANGED place
       \/ place[r] = "processing" /\ Shift(r, "pending") /\ Unlocked
    /\ \/ UNCHANGED note
       \/ task[r] # "none" /\ note' = [note EXCEPT ![r] = task[r]]
    /\ abandoned' \in {abandoned, abandoned \cup {r}}
    /\ o \in Terminal => task[r] = o
    /\ r \in abandoned' \/ task[r] \in Terminal \/ place'[r] = "pending"

LEMMA EndSuffices ==
    ASSUME PeerInv, NEW w \in Works, NEW o, Ends(w, o)
    PROVE  PeerInv'
<1>. DEFINE r == w[2]
<1>. USE WorkTypes
<1>1. r \in Requests /\ Fine(r) /\ Attended(r) /\ TypeOK
  BY AtWork DEF PeerInv, Ends
<1>2. End(w, o) /\ UNCHANGED <<reply, seen, lease, task, litter, sent, ran, retaken>>
  BY DEF Ends
<1>3. /\ place' \in [Requests -> Places]
      /\ \A q \in Requests \ {r} : place'[q] = place[q]
      /\ place'[r] = place[r] \/ (place[r] = "processing" /\ place'[r] = "pending" /\ Unlocked)
  <2>1. CASE UNCHANGED place
    BY <2>1, <1>1 DEF TypeOK
  <2>2. CASE place[r] = "processing" /\ Shift(r, "pending") /\ Unlocked
    BY <2>2, <1>1 DEF TypeOK, Shift, Places
  <2>. QED  BY <2>1, <2>2 DEF Ends
<1>4. /\ note' \in [Requests -> TaskStates]
      /\ \A q \in Requests \ {r} : note'[q] = note[q]
      /\ note'[r] = note[r] \/ (note'[r] = task[r] /\ task[r] # "none")
  BY <1>1 DEF Ends, TypeOK
<1>5. TypeOK'
  <2>1. abandoned' \subseteq Requests
    BY <1>1 DEF Ends, TypeOK
  <2>2. /\ step' \in [Works -> Steps] /\ want' \in [Works -> {"run", "reject"}]
        /\ stage' \in [Works -> {"claim", "turn", "redo"}]
        /\ answer' \in [Works -> Replies \cup {NoReply}]
        /\ told' \subseteq Requests \X Terminal
    BY <1>1, <1>2, Ended
  <2>. QED  BY <1>1, <1>2, <1>3, <1>4, <2>1, <2>2 DEF TypeOK, lease
<1>6. Local(w)
  <2>1. \A q \in Requests \ {r} : (q \in abandoned') <=> (q \in abandoned)
    BY DEF Ends
  <2>. QED  BY <1>1, <1>2, <1>3, <1>4, <2>1, Ended DEF Local, Apart, Onward
<1>7. Fine(r)'
  <2>1. /\ \A e \in Terminal : <<r, e>> \in told' => <<r, e>> \in told \/ task[r] = e
        /\ abandoned \subseteq abandoned'
        /\ r \in abandoned' \/ task[r] \in Terminal \/ place'[r] = "pending"
    BY <1>1, Ended DEF Ends
  <2>2. RequestOK(r)'
    BY <1>1, <1>2, <1>3, <1>4, <2>1 DEF Fine, RequestOK, WitnessedOK, Over, Untouched, Terminal
  <2>3. WitnessedOK(r)' /\ NotesOK(r)'
    BY <1>1, <1>2, <1>3, <1>4 DEF Fine, WitnessedOK, NotesOK, Terminal
  <2>4. ToldOK(r)'
    <3>1. <<r, "rejected">> \in told' => <<r, "rejected">> \in told \/ task[r] = "rejected"
      BY <2>1 DEF Terminal
    <3>2. <<r, "completed">> \in told' => <<r, "completed">> \in told \/ task[r] = "completed"
      BY <2>1 DEF Terminal
    <3>. QED  BY <1>1, <1>2, <1>3, <3>1, <3>2 DEF Fine, ToldOK, WitnessedOK, RequestOK
  <2>5. KnownOK(r)'
    BY <1>1, <1>2, <1>3, <2>1 DEF KnownOK
  <2>. QED  BY <2>2, <2>3, <2>4, <2>5 DEF Fine
<1>8. WorkOK(w)'
  BY <1>1, <1>2, Ended, IdleOK
<1>. QED  BY <1>5, <1>6, <1>7, <1>8, Suffices

LEMMA CheckKeeps ==
    ASSUME PeerInv, NEW w \in Works, Check(w)
    PROVE  PeerInv'
<1>. DEFINE r == w[2]
<1>. USE WorkTypes
<1>1. r \in Requests /\ Fine(r) /\ Attended(r) /\ WorkOK(w) /\ step[w] = "check"
  BY AtWork DEF PeerInv, Check
<1>2. CASE want[w] = "reject" /\ task[r] = "rejected"
  <2>1. Ends(w, "rejected")
    BY <1>1, <1>2 DEF Check, Ends, Terminal, bus, ledgers
  <2>. QED  BY <2>1, EndSuffices
<1>3. CASE ~(want[w] = "reject" /\ task[r] = "rejected")
  <2>1. /\ Go(w, IF Checks(w) THEN "file" ELSE "reconcile")
        /\ UNCHANGED <<bus, lease, ledgers, want, stage, answer, history>>
    BY <1>3 DEF Check, history
  <2>2. TypeOK'
    BY <2>1 DEF PeerInv, TypeOK, Go, Steps, bus, lease, ledgers, history
  <2>3. Moves(w)
    BY <1>1, <2>1 DEF PeerInv, TypeOK, Moves, SameWork, Go
  <2>4. WorkOK(w)'
    BY <1>1, <2>1 DEF PeerInv, TypeOK, WorkOK, Go, Early, Late, bus, lease, ledgers, history
  <2>. QED  BY <2>2, <2>3, <2>4, MoveSuffices
<1>. QED  BY <1>2, <1>3

LEMMA ReconcileKeeps ==
    ASSUME PeerInv, NEW w \in Works, Reconcile(w)
    PROVE  PeerInv'
<1>. DEFINE r == w[2]
<1>. USE WorkTypes
<1>1. r \in Requests /\ Fine(r) /\ Attended(r) /\ WorkOK(w) /\ step[w] = "reconcile"
  BY AtWork DEF PeerInv, Reconcile
<1>2. CASE task[r] = Goal(w)
  <2>1. Ends(w, Goal(w))
    BY <1>1, <1>2 DEF Reconcile, Ends, Goal, Terminal, bus, ledgers
  <2>. QED  BY <2>1, EndSuffices
<1>3. CASE task[r] # Goal(w)
  <2>1. PICK s \in {"prove", "release"} : Go(w, s)
    BY <1>3 DEF Reconcile
  <2>2. /\ stage' = [stage EXCEPT ![w] = "redo"]
        /\ UNCHANGED <<bus, lease, ledgers, want, answer, history>>
    BY <1>3 DEF Reconcile, history
  <2>3. TypeOK'
    BY <2>1, <2>2 DEF PeerInv, TypeOK, Go, Steps, bus, lease, ledgers, history
  <2>4. Moves(w)
    BY <1>1, <2>1, <2>2 DEF PeerInv, TypeOK, Moves, SameWork, Go
  <2>5. WorkOK(w)'
    BY <1>1, <2>1, <2>2 DEF PeerInv, TypeOK, WorkOK, Go, Early, Late, bus, lease, ledgers, history
  <2>. QED  BY <2>3, <2>4, <2>5, MoveSuffices
<1>. QED  BY <1>2, <1>3

LEMMA NoteEndKeeps ==
    ASSUME PeerInv, NEW w \in Works, NoteEnd(w)
    PROVE  PeerInv'
<1>. DEFINE r == w[2]
<1>1. task[r] = Goal(w) /\ Goal(w) \in Terminal
  BY DEF PeerInv, WorkOK, NoteEnd, Goal, Terminal
<1>2. PICK n \in {note[r], Goal(w)} : note' = [note EXCEPT ![r] = n]
  BY DEF NoteEnd, Note, Noted, Tried
<1>3. UNCHANGED note \/ note' = [note EXCEPT ![r] = task[r]]
  BY <1>1, <1>2 DEF PeerInv, TypeOK
<1>4. Ends(w, Goal(w))
  BY <1>1, <1>3 DEF NoteEnd, Ends, Terminal, bus
<1>. QED  BY <1>4, EndSuffices

LEMMA GiveBackKeeps ==
    ASSUME PeerInv, NEW w \in Works, GiveBack(w)
    PROVE  PeerInv'
<1>1. Ends(w, "error")
  BY WorkTypes DEF PeerInv, TypeOK, GiveBack, Ends, Shift, ledgers, Terminal
<1>. QED  BY <1>1, EndSuffices

LEMMA ReleaseKeeps ==
    ASSUME PeerInv, NEW w \in Works, Release(w)
    PROVE  PeerInv'
<1>. DEFINE o == IF want[w] = "reject" THEN "error" ELSE "retry"
<1>1. Ends(w, o)
  BY WorkTypes DEF PeerInv, TypeOK, Release, Releases, Ends, Shift, ledgers, Terminal
<1>. QED  BY <1>1, EndSuffices

LEMMA ReleaseFailsKeeps ==
    ASSUME PeerInv, NEW w \in Works, ReleaseFails(w)
    PROVE  PeerInv'
<1>. DEFINE o == IF want[w] = "reject" THEN "error"
                 ELSE IF stage[w] = "claim" THEN "retry" ELSE "recovery"
<1>1. Ends(w, o)
  BY WorkTypes DEF PeerInv, ReleaseFails, Ends, bus, ledgers, Terminal
<1>. QED  BY <1>1, EndSuffices

LEMMA WorkKeeps ==
    ASSUME PeerInv, NEW w \in Works, WorkStep(w)
    PROVE  PeerInv'
BY CreateKeeps, GiveBackKeeps, NoteClaimKeeps, StartKeeps, StartFailsKeeps, NoteRunKeeps,
   TurnKeeps, CheckKeeps, FileKeeps, FileFailsKeeps, SettleKeeps, SettleFailsKeeps, ProveKeeps,
   MarkKeeps, MarkFailsKeeps, NoteEndKeeps, ReconcileKeeps, ReleaseKeeps, ReleaseFailsKeeps
   DEF WorkStep

----------------------------------------------------------------------------
(* The steps of no work: the sender's, and those of the lease.             *)

\* A new owner of the lease has no work yet.
NoWorkActs ==
    /\ UNCHANGED work
    /\ reply' = reply /\ task' \in {task} /\ retaken' = retaken
    /\ \A v \in Works : step[v] # "idle" =>
          /\ runtime'[v[1]] \in {"up", "down"}
          /\ owner' = v[1] => owner = v[1]
    /\ \A q \in Requests : place[q] = "settled" => place'[q] = "settled"
    /\ \A v \in Works : step[v] = "settle" =>
          /\ place'[v[2]] = place[v[2]]
          /\ \A p \in Runtimes : runtime'[p] # "recovering"

LEMMA WorksKept ==
    ASSUME PeerInv, TypeOK', NoWorkActs
    PROVE  /\ \A v \in Works : WorkOK(v)'
           /\ \A q \in Requests : Attended(q)' <=> Attended(q)
<1>1. ASSUME NEW v \in Works PROVE WorkOK(v)'
  <2>1. SameWork(v)
    BY DEF NoWorkActs, SameWork, work
  <2>2. Onward(v[2])
    BY WorkTypes DEF NoWorkActs, Onward
  <2>3. step[v] = "settle" => place'[v[2]] \in {"processing", "settled"}
    BY DEF NoWorkActs, PeerInv, WorkOK
  <2>. QED  BY <2>1, <2>2, <2>3, Bystander, WorkTypes DEF NoWorkActs, PeerInv
<1>2. \A q \in Requests : Attended(q)' <=> Attended(q)
  BY DEF Attended, NoWorkActs, work
<1>. QED  BY <1>1, <1>2

LEMMA LeaseSuffices ==
    ASSUME PeerInv, TypeOK', NoWorkActs, UNCHANGED <<bus, ledgers, history>>
    PROVE  PeerInv'
<1>1. \A q \in Requests : Apart(q)
  BY DEF Apart, bus, ledgers, history
<1>2. \A q \in Requests : Fine(q)'
  BY <1>1, WorksKept, Elsewhere DEF PeerInv, history
<1>. QED  BY <1>2, WorksKept DEF PeerInv

LEMMA RegisterKeeps ==
    ASSUME PeerInv, NEW p \in Runtimes, Register(p)
    PROVE  PeerInv'
<1>1. TypeOK'
  BY DEF PeerInv, TypeOK, Register, bus, ledgers, work, history, RuntimeStates
<1>2. \A v \in Works : step[v] # "idle" => v[1] # p /\ runtime[v[1]] \in {"up", "down"}
  BY DEF PeerInv, WorkOK, Register
<1>3. NoWorkActs
  BY <1>2, WorkTypes DEF PeerInv, TypeOK, Register, NoWorkActs, Unlocked, bus, ledgers, history
<1>. QED  BY <1>1, <1>3, LeaseSuffices DEF Register

LEMMA TakeoverKeeps ==
    ASSUME PeerInv, NEW p \in Runtimes, Takeover(p)
    PROVE  PeerInv'
<1>1. TypeOK'
  BY DEF PeerInv, TypeOK, Takeover, bus, ledgers, work, history, RuntimeStates
<1>2. \A v \in Works : step[v] # "idle" => v[1] # p /\ runtime[v[1]] \in {"up", "down"}
  BY DEF PeerInv, WorkOK, Takeover
<1>3. NoWorkActs
  BY <1>2, WorkTypes DEF PeerInv, TypeOK, Takeover, NoWorkActs, Unlocked, bus, ledgers, history
<1>. QED  BY <1>1, <1>3, LeaseSuffices DEF Takeover

LEMMA RecoveredKeeps ==
    ASSUME PeerInv, NEW p \in Runtimes, Recovered(p)
    PROVE  PeerInv'
<1>1. TypeOK'
  BY DEF PeerInv, TypeOK, Recovered, bus, ledgers, work, history, RuntimeStates
<1>2. \A v \in Works : step[v] # "idle" => v[1] # p /\ runtime[v[1]] \in {"up", "down"}
  BY DEF PeerInv, WorkOK, Recovered
<1>3. \A v \in Works : step[v] # "settle"
  BY DEF PeerInv, WorkOK, Recovered
<1>4. NoWorkActs
  BY <1>2, <1>3, WorkTypes DEF PeerInv, TypeOK, Recovered, NoWorkActs, bus, ledgers, history
<1>. QED  BY <1>1, <1>4, LeaseSuffices DEF Recovered

LEMMA ShutdownKeeps ==
    ASSUME PeerInv, NEW p \in Runtimes, Shutdown(p)
    PROVE  PeerInv'
<1>1. TypeOK'
  BY DEF PeerInv, TypeOK, Shutdown, bus, ledgers, work, history, RuntimeStates
<1>2. \A v \in Works : step[v] # "idle" => runtime'[v[1]] \in {"up", "down"}
  BY WorkTypes DEF PeerInv, TypeOK, WorkOK, Shutdown
<1>3. \A v \in Works : owner' = v[1] => owner = v[1]
  BY WorkTypes, RuntimesAssumption DEF Shutdown
<1>4. NoWorkActs
  BY <1>2, <1>3 DEF PeerInv, Shutdown, NoWorkActs, Unlocked, bus, ledgers, history
<1>. QED  BY <1>1, <1>4, LeaseSuffices DEF Shutdown

\* The heartbeat and its absence.
LEMMA StaleKeeps ==
    ASSUME PeerInv, stale' \in BOOLEAN, UNCHANGED <<bus, runtime, owner, ledgers, work, history>>
    PROVE  PeerInv'
<1>1. TypeOK'
  BY DEF PeerInv, TypeOK, bus, ledgers, work, history
<1>2. NoWorkActs
  BY DEF PeerInv, WorkOK, NoWorkActs, bus, ledgers, history
<1>. QED  BY <1>1, <1>2, LeaseSuffices

LEMMA RecoverKeeps ==
    ASSUME PeerInv, NEW p \in Runtimes, NEW r \in Requests, Recover(p, r)
    PROVE  PeerInv'
<1>1. TypeOK'
  BY DEF PeerInv, TypeOK, Recover, Shift, lease, ledgers, work, history, Places
<1>2. \A v \in Works : step[v] # "settle"
  BY DEF PeerInv, WorkOK, Recover
<1>3. /\ place[r] = "processing"
      /\ place'[r] = "pending" \/ (place'[r] = "settled" /\ reply[r] # NoReply)
      /\ \A q \in Requests \ {r} : place'[q] = place[q]
  BY DEF PeerInv, TypeOK, Recover, Shift
<1>4. NoWorkActs
  BY <1>2, <1>3 DEF PeerInv, WorkOK, Recover, NoWorkActs, lease, ledgers, history
<1>5. ASSUME NEW q \in Requests \ {r} PROVE Fine(q)'
  <2>1. Apart(q)
    BY <1>3 DEF Recover, Apart, ledgers, history
  <2>. QED  BY <1>1, <1>4, <2>1, WorksKept, Elsewhere DEF PeerInv, NoWorkActs
<1>6. Fine(r)'
  BY <1>1, <1>3, <1>4, WorksKept DEF PeerInv, Recover, Fine, RequestOK, WitnessedOK, NotesOK, ToldOK,
     KnownOK, Over, Untouched, ledgers, history
<1>. QED  BY <1>1, <1>4, <1>5, <1>6, WorksKept DEF PeerInv

LEMMA DieKeeps ==
    ASSUME PeerInv, NEW p \in Runtimes, Die(p)
    PROVE  PeerInv'
<1>. USE WorkTypes
<1>1. TypeOK'
  <2>1. litter' \in BOOLEAN /\ abandoned' \subseteq Requests
    <3>1. litter \in BOOLEAN
      BY DEF PeerInv, TypeOK
    <3>2. litter' \in BOOLEAN
      BY <3>1, Zenon DEF Die
    <3>3. abandoned' \subseteq Requests
      BY DEF PeerInv, TypeOK, Die, Busy
    <3>. QED  BY <3>2, <3>3
  <2>2. /\ step' \in [Works -> Steps] /\ want' \in [Works -> {"run", "reject"}]
        /\ stage' \in [Works -> {"claim", "turn", "redo"}]
        /\ answer' \in [Works -> Replies \cup {NoReply}]
    BY DEF PeerInv, TypeOK, Die, Steps
  <2>3. runtime' \in [Runtimes -> RuntimeStates]
    BY DEF PeerInv, TypeOK, Die, RuntimeStates
  <2>. QED  BY <2>1, <2>2, <2>3 DEF PeerInv, TypeOK, Die, bus
<1>2. ASSUME NEW v \in Works PROVE WorkOK(v)'
  <2>1. CASE v[1] = p
    BY <2>1, IdleOK DEF Die
  <2>2. CASE v[1] # p
    <3>1. SameWork(v)
      BY <2>2 DEF Die, SameWork
    <3>2. Onward(v[2]) /\ reply' = reply /\ place' = place /\ owner' = owner /\ retaken' = retaken
      BY DEF Die, Onward, bus
    <3>3. runtime'[v[1]] = runtime[v[1]]
          /\ \A q \in Runtimes : runtime'[q] \in {runtime[q], "dead"}
      BY <2>2 DEF PeerInv, TypeOK, Die
    <3>4. step[v] # "idle" => runtime'[v[1]] \in {"up", "down"}
      BY <3>3 DEF PeerInv, WorkOK
    <3>5. step[v] = "settle" =>
             /\ place'[v[2]] \in {"processing", "settled"}
             /\ \A q \in Runtimes : runtime'[q] # "recovering"
      BY <3>2, <3>3 DEF PeerInv, WorkOK
    <3>. QED  BY <1>1, <3>1, <3>2, <3>4, <3>5, Bystander DEF PeerInv
  <2>. QED  BY <2>1, <2>2
<1>3. ASSUME NEW q \in Requests PROVE Fine(q)'
  <2>1. Attended(q) /\ q \notin abandoned' => Attended(q)'
    <3>1. ASSUME NEW o \in Runtimes, step[<<o, q>>] # "idle", q \notin abandoned'
          PROVE  step'[<<o, q>>] # "idle"
      <4>1. <<o, q>> \in Works /\ <<o, q>>[1] = o /\ <<o, q>>[2] = q
        BY DEF Works
      <4>2. <<o, q>> \notin Busy(p)
        BY <3>1, <4>1 DEF Die
      <4>3. o # p
        BY <3>1, <4>1, <4>2 DEF Busy
      <4>. QED  BY <3>1, <4>1, <4>3 DEF Die
    <3>. QED  BY <3>1 DEF Attended
  <2>2. Attended(q)' => Attended(q)
    BY DEF Attended, Die, Works
  <2>3. abandoned \subseteq abandoned'
    BY DEF Die
  <2>4. UNCHANGED <<bus, task, note, sent, told, ran, retaken>>
    BY DEF Die
  <2>. QED  BY <2>1, <2>2, <2>3, <2>4 DEF PeerInv, Fine, RequestOK, WitnessedOK, NotesOK, ToldOK,
            KnownOK, Over, Untouched, bus
<1>. QED  BY <1>1, <1>2, <1>3 DEF PeerInv

LEMMA SendKeeps ==
    ASSUME PeerInv, NEW r \in Requests, Send(r)
    PROVE  PeerInv'
<1>1. PICK s \in SentStates :
         /\ sent' = [sent EXCEPT ![r] = s]
         /\ s \in {"available", "acknowledged"} => s = sent[r]
  BY DEF PeerInv, TypeOK, Send, Tried, SentStates
<1>2. /\ place' \in [Requests -> Places]
      /\ place'[r] = place[r] \/ (place[r] = "none" /\ place'[r] = "pending")
      /\ \A q \in Requests \ {r} : place'[q] = place[q]
  BY DEF PeerInv, TypeOK, Send, Shift, Places
<1>3. TypeOK'
  BY <1>1, <1>2 DEF PeerInv, TypeOK, Send, lease, work, history
<1>4. NoWorkActs
  BY <1>2 DEF PeerInv, WorkOK, Send, Unlocked, NoWorkActs, lease, history
<1>5. ASSUME NEW q \in Requests \ {r} PROVE Fine(q)'
  <2>1. Apart(q)
    BY <1>1, <1>2 DEF PeerInv, TypeOK, Send, Apart, history
  <2>. QED  BY <1>3, <1>4, <2>1, WorksKept, Elsewhere DEF PeerInv, NoWorkActs
<1>6. Fine(r)'
  <2>1. sent'[r] \in {"available", "acknowledged"} => sent'[r] = sent[r]
    BY <1>1 DEF PeerInv, TypeOK
  <2>. QED  BY <1>2, <1>3, <1>4, <2>1, WorksKept DEF PeerInv, Send, Fine, RequestOK, WitnessedOK,
            NotesOK, ToldOK, KnownOK, Over, Untouched, history
<1>. QED  BY <1>3, <1>4, <1>5, <1>6, WorksKept DEF PeerInv

\* Notice and Consume: what the sender reads of a response that is there.
LEMMA ReadKeeps ==
    ASSUME PeerInv, NEW r \in Requests, reply[r] # NoReply,
           NEW s \in SentStates, sent' = [sent EXCEPT ![r] = s],
           seen' \in {seen, seen \cup {r}}, s = "acknowledged" => r \in seen',
           UNCHANGED <<place, reply, lease, task, litter, note, work, history>>
    PROVE  PeerInv'
<1>1. TypeOK'
  BY DEF PeerInv, TypeOK, lease, work, history
<1>2. NoWorkActs
  BY DEF PeerInv, WorkOK, NoWorkActs, lease, history
<1>3. ASSUME NEW q \in Requests \ {r} PROVE Fine(q)'
  <2>1. Apart(q)
    BY DEF PeerInv, TypeOK, Apart, history
  <2>. QED  BY <1>1, <1>2, <2>1, WorksKept, Elsewhere DEF PeerInv, NoWorkActs
<1>4. Fine(r)'
  <2>1. sent'[r] = s
    BY DEF PeerInv, TypeOK
  <2>. QED  BY <1>1, <1>2, <2>1, WorksKept DEF PeerInv, Fine, RequestOK, WitnessedOK,
            NotesOK, ToldOK, KnownOK, Over, Untouched, history
<1>. QED  BY <1>1, <1>2, <1>3, <1>4, WorksKept DEF PeerInv

LEMMA ReaderKeeps ==
    ASSUME PeerInv, NEW r \in Requests, Notice(r) \/ Consume(r)
    PROVE  PeerInv'
<1>1. CASE Notice(r)
  BY <1>1, ReadKeeps DEF Notice, bus, SentStates
<1>2. CASE Consume(r)
  <2>1. PICK s \in SentStates : sent' = [sent EXCEPT ![r] = s]
    BY <1>2 DEF PeerInv, TypeOK, Consume, NoteConsumed, Tried, SentStates
  <2>. QED  BY <1>2, <2>1, ReadKeeps DEF Consume
<1>. QED  BY <1>1, <1>2

----------------------------------------------------------------------------
LEMMA RuntimeKeeps ==
    ASSUME PeerInv, NEW p \in Runtimes, RuntimeStep(p)
    PROVE  PeerInv'
<1>1. CASE Heartbeat(p)
  BY <1>1, StaleKeeps DEF Heartbeat
<1>. QED  BY <1>1, RegisterKeeps, TakeoverKeeps, RecoveredKeeps, ShutdownKeeps, DieKeeps,
             RecoverKeeps DEF RuntimeStep

LEMMA Keeps == PeerInv /\ [Next]_vars => PeerInv'
<1>. SUFFICES ASSUME PeerInv, [Next]_vars PROVE PeerInv'
  OBVIOUS
<1>1. CASE UNCHANGED vars
  BY <1>1, StaleKeeps DEF vars, bus, lease, PeerInv, TypeOK
<1>2. CASE Expire
  BY <1>2, StaleKeeps DEF Expire
<1>3. CASE Next /\ ~Expire
  <2>. Watched \subseteq Requests
    BY BoundsAssumption
  <2>. QED  BY <1>3, SendKeeps, ReaderKeeps, RuntimeKeeps, WorkKeeps, ClaimKeeps DEF Next
<1>. QED  BY <1>1, <1>2, <1>3

LEMMA Starts == Init => PeerInv
<1>. SUFFICES ASSUME Init PROVE PeerInv
  OBVIOUS
<1>. USE RepliesAssumption, BoundsAssumption DEF Init, At
<1>1. PICK a \in Answers : reply = [r \in Requests |-> IF r \in Past THEN a ELSE NoReply]
  OBVIOUS
<1>2. TypeOK
  BY <1>1 DEF TypeOK, Places, Replies, RuntimeStates, TaskStates, Terminal, SentStates, Steps
<1>3. \A w \in Works : WorkOK(w)
  BY DEF WorkOK, Early, Late
<1>4. \A r \in Requests : Fine(r)
  BY <1>1 DEF Fine, RequestOK, WitnessedOK, NotesOK, ToldOK, KnownOK, Over, Untouched,
     Attended, Terminal, Works
<1>. QED  BY <1>2, <1>3, <1>4 DEF PeerInv

\* The inductive invariant: what works know, and what the stores of a request
\* say of each other.
THEOREM Invariance == Spec => []PeerInv
BY Starts, Keeps, PTL DEF Spec

\* The values of the state.
THEOREM TypeCorrect == Spec => []TypeOK
<1>1. PeerInv => TypeOK
  BY DEF PeerInv
<1>. QED  BY <1>1, Invariance, PTL

\* The task ledger is never ahead of the bus.
THEOREM LedgerIsWitnessed == Spec => []LedgerWitnessed
<1>1. PeerInv => LedgerWitnessed
  BY DEF PeerInv, Fine, WitnessedOK, LedgerWitnessed
<1>. QED  BY <1>1, Invariance, PTL

\* The exchange records never contradict the task ledger and the bus.
THEOREM NotesLagBehind == Spec => []NotesBehind
<1>1. PeerInv => NotesBehind
  BY DEF PeerInv, Fine, NotesOK, NotesBehind
<1>. QED  BY <1>1, Invariance, PTL

\* Nobody is told of an end that is not one, nor of a rejection that ran.
THEOREM UsersAreToldTruly == Spec => []ToldTruly
<1>1. PeerInv => ToldTruly
  BY DEF PeerInv, Fine, ToldOK, ToldTruly
<1>. QED  BY <1>1, Invariance, PTL

\* An answered request is known to be answered unless its work was cut off.
THEOREM AnswersAreKnown == Spec => []AnswerKnown
<1>1. PeerInv => AnswerKnown
  BY DEF PeerInv, Fine, KnownOK, Attended, AnswerKnown
<1>. QED  BY <1>1, Invariance, PTL

----------------------------------------------------------------------------
(* The bus as used here is the delivery contract.                          *)

Place == PlaceInContract
Reply == [r \in Fresh |-> reply[r]]
Seen == seen \ Past

\* A step the contract allows, with the contract's state written out.
Allowed == [Contract!Next]_<<Place, Reply, {}, Seen>>

LEMMA BusStays ==
    ASSUME UNCHANGED bus
    PROVE  Allowed
BY DEF Allowed, bus, Place, PlaceInContract, Reply, Seen

\* A request of an earlier session is over: what happens to it is nothing new.
LEMMA PlaceMoves ==
    ASSUME PeerInv, NEW r \in Requests, reply' = reply, seen' = seen,
           \A q \in Requests \ {r} : place'[q] = place[q],
           \/ place'[r] = place[r]
           \/ <<place[r], place'[r]>> \in
                 {<<"none", "pending">>, <<"pending", "processing">>, <<"processing", "pending">>}
           \/ place[r] = "processing" /\ place'[r] = "settled" /\ reply[r] # NoReply
    PROVE  Allowed
<1>1. Reply' = Reply /\ Seen' = Seen
  BY DEF Reply, Seen
<1>2. CASE place'[r] = place[r]
  <2>1. Place' = Place
    BY <1>2 DEF Place, PlaceInContract, Fresh
  <2>. QED  BY <1>1, <2>1 DEF Allowed
<1>3. CASE place'[r] # place[r]
  <2>1. r \in Fresh
    BY <1>3 DEF PeerInv, Fine, RequestOK, Fresh
  <2>2. PICK there \in {"queued", "claimed", "settled"} :
           /\ Place' = [Place EXCEPT ![r] = there]
           /\ \/ Place[r] = "none" /\ there = "queued"
              \/ Place[r] = "queued" /\ there = "claimed"
              \/ Place[r] = "claimed" /\ there = "queued"
              \/ Place[r] = "claimed" /\ there = "settled" /\ Reply[r] # NoReply
    <3>1. \A q \in Fresh \ {r} : Place'[q] = Place[q]
      BY DEF Place, PlaceInContract, Fresh
    <3>2. Place' = [Place EXCEPT ![r] = Place'[r]]
      BY <3>1 DEF Place, PlaceInContract
    <3>3. \/ Place[r] = "none" /\ Place'[r] = "queued"
          \/ Place[r] = "queued" /\ Place'[r] = "claimed"
          \/ Place[r] = "claimed" /\ Place'[r] = "queued"
          \/ Place[r] = "claimed" /\ Place'[r] = "settled" /\ Reply[r] # NoReply
      BY <1>3, <2>1 DEF Place, PlaceInContract, Reply
    <3>. QED  BY <3>2, <3>3
  <2>3. \/ Contract!Send(r) \/ Contract!Take(r) \/ Contract!GiveBack(r) \/ Contract!Settle(r)
    BY <1>1, <2>2 DEF Contract!Send, Contract!Take, Contract!GiveBack, Contract!Settle,
       Contract!Shift, Place, Reply, Seen
  <2>. QED  BY <2>1, <2>3 DEF Allowed, Contract!Next
<1>. QED  BY <1>2, <1>3

LEMMA ReplyMoves ==
    ASSUME PeerInv, NEW r \in Requests, NEW c \in Replies, place' = place, seen' = seen,
           reply' = [reply EXCEPT ![r] = c], reply[r] \in {NoReply, c},
           place[r] \in {"processing", "settled"}
    PROVE  Allowed
<1>1. Place' = Place /\ Seen' = Seen
  BY DEF Place, PlaceInContract, Seen
<1>2. CASE reply[r] = c
  <2>1. reply' = reply
    BY <1>2 DEF PeerInv, TypeOK
  <2>. QED  BY <2>1, BusStays DEF bus
<1>3. CASE reply[r] = NoReply
  <2>1. r \in Fresh
    BY <1>3 DEF PeerInv, Fine, RequestOK, Fresh
  <2>2. Reply' = [Reply EXCEPT ![r] = c] /\ Reply[r] = NoReply
    BY <1>3, <2>1 DEF Reply, Fresh, PeerInv, TypeOK
  <2>3. Place[r] \in {"claimed", "settled"}
    BY <2>1 DEF Place, PlaceInContract
  <2>4. Contract!Answer(r, c)
    BY <1>1, <2>2, <2>3 DEF Contract!Answer, Place, Reply, Seen
  <2>. QED  BY <2>1, <2>4 DEF Allowed, Contract!Next
<1>. QED  BY <1>2, <1>3

LEMMA SeenMoves ==
    ASSUME PeerInv, NEW r \in Requests, Consume(r)
    PROVE  Allowed
<1>1. r \in Fresh
  BY DEF PeerInv, Fine, RequestOK, Fresh, Consume
<1>2. Place' = Place /\ Reply' = Reply /\ Seen' = Seen \cup {r} /\ r \notin Seen
  BY <1>1 DEF Place, PlaceInContract, Reply, Seen, Fresh, Consume
<1>3. Contract!See(r)
  BY <1>1, <1>2 DEF Contract!See, Place, Reply, Seen, Consume
<1>. QED  BY <1>1, <1>3 DEF Allowed, Contract!Next

LEMMA WorkAllowed ==
    ASSUME PeerInv, NEW w \in Works, WorkStep(w)
    PROVE  Allowed
<1>. DEFINE r == w[2]
<1>1. r \in Requests /\ WorkOK(w) /\ TypeOK
  BY WorkTypes DEF PeerInv
<1>2. CASE GiveBack(w) \/ Release(w)
  <2>1. /\ reply' = reply /\ seen' = seen
        /\ UNCHANGED place \/ (place[r] = "processing" /\ Shift(r, "pending"))
    BY <1>2 DEF GiveBack, Release, Releases
  <2>. QED  BY <1>1, <2>1, PlaceMoves DEF TypeOK, Shift
<1>3. CASE Settle(w)
  <2>1. reply[r] # NoReply /\ place[r] \in {"processing", "settled"}
    BY <1>1, <1>3, RepliesAssumption DEF Settle, WorkOK, TypeOK, Late
  <2>. QED  BY <1>1, <1>3, <2>1, PlaceMoves DEF Settle, Shift, TypeOK
<1>4. CASE File(w)
  <2>1. answer[w] \in Replies
    BY <1>1, <1>4 DEF File, WorkOK, TypeOK, Late, Replies
  <2>2. reply[r] \in {NoReply, answer[w]} /\ place[r] \in {"processing", "settled"}
    BY <1>4 DEF File, Files
  <2>. QED  BY <1>1, <1>4, <2>1, <2>2, ReplyMoves DEF File
<1>5. CASE UNCHANGED bus
  BY <1>5, BusStays
<1>6. UNCHANGED bus \/ GiveBack(w) \/ Release(w) \/ Settle(w) \/ File(w)
  BY DEF WorkStep, Create, NoteClaim, Start, StartFails, NoteRun, Turn, Check, FileFails,
     SettleFails, Prove, Mark, MarkFails, NoteEnd, Reconcile, ReleaseFails
<1>. QED  BY <1>2, <1>3, <1>4, <1>5, <1>6

LEMMA StepAllowed == PeerInv /\ [Next]_vars => Allowed
<1>. SUFFICES ASSUME PeerInv, [Next]_vars PROVE Allowed
  OBVIOUS
<1>. TypeOK
  BY DEF PeerInv
<1>1. CASE UNCHANGED bus
  BY <1>1, BusStays
<1>2. ASSUME NEW r \in Requests, Send(r) PROVE Allowed
  BY <1>2, PlaceMoves DEF Send, Shift, TypeOK
<1>3. ASSUME NEW r \in Watched, Notice(r) \/ Consume(r) PROVE Allowed
  BY <1>3, SeenMoves, BusStays, BoundsAssumption DEF Notice
<1>4. ASSUME NEW p \in Runtimes, NEW r \in Requests, Recover(p, r) PROVE Allowed
  BY <1>4, PlaceMoves DEF Recover, Shift, TypeOK
<1>5. ASSUME NEW w \in Works, NEW goal \in {"run", "reject"}, Claim(w, goal) PROVE Allowed
  BY <1>5, WorkTypes, PlaceMoves DEF Claim, Shift, TypeOK
<1>6. ASSUME NEW p \in Runtimes, RuntimeStep(p), \A r \in Requests : ~Recover(p, r)
      PROVE  UNCHANGED bus
  BY <1>6 DEF RuntimeStep, Register, Takeover, Recovered, Heartbeat, Shutdown, Die
<1>7. Expire => UNCHANGED bus
  BY DEF Expire
<1>8. UNCHANGED vars => UNCHANGED bus
  BY DEF vars
<1>. QED  BY <1>1, <1>2, <1>3, <1>4, <1>5, <1>6, <1>7, <1>8, WorkAllowed DEF Next

LEMMA StartAllowed == Init => Contract!Init
BY DEF Init, At, Contract!Init, PlaceInContract, Fresh

\* Whatever stalls, dies or fails, the bus sees only steps of the contract
\* that the file transport implements: one answer, filed before its request is
\* settled, and consumed once.
THEOREM PeersKeepContract == Spec => ImplementsContract
<1>1. PeerInv /\ [Next]_vars => [Contract!Next]_(Contract!vars)
  BY StepAllowed DEF Allowed, Contract!vars, Place, Reply, Seen
<1>. QED  BY <1>1, StartAllowed, Invariance, PTL DEF Spec, ImplementsContract, Contract!Spec
=============================================================================
