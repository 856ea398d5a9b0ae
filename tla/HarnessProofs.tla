--------------------------- MODULE HarnessProofs ---------------------------
(***************************************************************************)
(* A turn of the Harness and its team, for any limits, models, tools and   *)
(* number of helpers.                                                      *)
(***************************************************************************)
EXTENDS HarnessTurn, TLAPS

Entry == [started : BOOLEAN, requested : Nat, finished : Nat,
          end : {"none", "complete", "cancelled", "limit_reached", "failed"}]

InBrokerStates == {"sending", "waiting"}
ToolStates == {"sending", "waiting", "running", "returned"}
Threaded == {"model", "calls"} \cup ToolStates

(***************************************************************************)
(* What a turn has counted, r, and its journal, j, know of each other.     *)
(***************************************************************************)
\* A turn in its last round has reached a limit and asks for nothing more.
Bounded(t, r) ==
    /\ r.rounds <= Limits[t].rounds + 1 /\ r.calls <= Limits[t].calls
    /\ r.at = "model" /\ r.rounds > Limits[t].rounds => r.limit # "none"
    /\ r.at \in {"calls"} \cup ToolStates => r.rounds <= Limits[t].rounds
    /\ r.at \in Threaded /\ r.limit = "none" => r.bytes <= Limits[t].bytes
    /\ r.at \in ToolStates => r.limit = "none"

\* What is left to do is what has no result yet.
Owes(r) ==
    /\ r.at = "model" => r.open = 0
    /\ r.at \in {"calls"} \cup ToolStates => r.open = Len(r.todo) /\ r.open > 0

\* One request at most lacks its end, that of the tool at work.
Logged(r, j) ==
    /\ j.requested <= r.calls
    /\ r.at \in {"idle", "spawned"} =>
          j = [started |-> FALSE, requested |-> 0, finished |-> 0, end |-> "none"]
    /\ r.at \in Threaded \cup {"ending"} => j.started /\ j.end = "none"
    /\ r.at \in {"model", "calls"} => j.requested = j.finished
    /\ r.at \in ToolStates => j.requested = j.finished + 1
    /\ r.at = "ending" \/ j.end # "none" =>
          /\ j.started
          /\ j.requested \in {j.finished, j.finished + 1}
          /\ r.outcome \in Good => j.requested = j.finished
    /\ j.end # "none" => (j.end = "complete" <=> r.outcome = "answered")

\* The clock: a turn with n on it and w of its own work, whose token is c.
Timed(r, n, w, c) ==
    /\ r.at \in Threaded \ InBrokerStates =>
          c \/ w = TurnTimeout \/ n + TurnTimeout <= r.deadline + w
    /\ r.at \in InBrokerStates => c \/ w = TurnTimeout \/ r.since + TurnTimeout <= r.deadline + w
    /\ r.outcome = "deadline" => w = TurnTimeout

\* A turn that has not begun has nothing to forget.
Fresh(r) == r.at \in {"idle", "spawned"} => r = [Idle EXCEPT !.at = r.at]

TurnOK(t) ==
    /\ Fresh(turn[t])
    /\ Bounded(t, turn[t]) /\ Owes(turn[t]) /\ Logged(turn[t], journal[t])
    /\ turn[t].at \in InBrokerStates => turn[t].since <= now
    /\ (t = Main => team = NoTeam) => Timed(turn[t], now, work[t], cancelled)

(***************************************************************************)
(* Approvals: what was allowed was granted by the user, on the way back or *)
(* remembered.                                                             *)
(***************************************************************************)
Granted(k) == \E g \in granted : g[3] = k

AllowedOK(t) ==
    /\ turn[t].at \in InBrokerStates \cup {"running"} => turn[t].mode # "plan"
    /\ At(t, "running") =>
          \/ Request(t) \in Configured
          \/ turn[t].mode = "auto" /\ Request(t) = "read"
          \/ Granted(Request(t))
    /\ reply[t] # "none" => At(t, "waiting")
    /\ reply[t] = "allow" => Granted(Request(t))

(***************************************************************************)
(* The team: whoever is not idle was started for it.                       *)
(***************************************************************************)
CrewOK ==
    /\ ~At(Main, "spawned")
    /\ team.state = "none" => team = NoTeam
    /\ \A h \in Helpers :
          /\ registry[h] = "none" => At(h, "idle")
          /\ ~At(h, "idle") => h \in team.members
          /\ team.state # "short" /\ Working(h) => RunningTeam
          /\ registry[h] \in {"done", "failed"} => At(h, "over")

IInv ==
    /\ TypeOK
    /\ \A t \in Turns : TurnOK(t) /\ AllowedOK(t)
    /\ \A k \in approved : Granted(k)
    /\ CrewOK

----------------------------------------------------------------------------
(* Records, one field at a time.                                           *)

LEMMA SetAt == ASSUME NEW r \in TurnState, NEW x \in Phases PROVE [r EXCEPT !.at = x] \in TurnState
BY DEF TurnState
LEMMA SetMode ==
    ASSUME NEW r \in TurnState, NEW x \in {"auto", "negotiate", "plan"}
    PROVE  [r EXCEPT !.mode = x] \in TurnState
BY DEF TurnState
LEMMA SetRounds == ASSUME NEW r \in TurnState, NEW x \in Nat PROVE [r EXCEPT !.rounds = x] \in TurnState
BY DEF TurnState
LEMMA SetCalls == ASSUME NEW r \in TurnState, NEW x \in Nat PROVE [r EXCEPT !.calls = x] \in TurnState
BY DEF TurnState
LEMMA SetBytes == ASSUME NEW r \in TurnState, NEW x \in Nat PROVE [r EXCEPT !.bytes = x] \in TurnState
BY DEF TurnState
LEMMA SetLimit ==
    ASSUME NEW r \in TurnState, NEW x \in {"none", "rounds", "calls", "bytes"}
    PROVE  [r EXCEPT !.limit = x] \in TurnState
BY DEF TurnState
LEMMA SetTodo == ASSUME NEW r \in TurnState, NEW x \in Seq(Kinds) PROVE [r EXCEPT !.todo = x] \in TurnState
BY DEF TurnState
LEMMA SetOpen == ASSUME NEW r \in TurnState, NEW x \in Nat PROVE [r EXCEPT !.open = x] \in TurnState
BY DEF TurnState
LEMMA SetFailing ==
    ASSUME NEW r \in TurnState, NEW x \in BOOLEAN PROVE [r EXCEPT !.failing = x] \in TurnState
BY DEF TurnState
LEMMA SetFailed ==
    ASSUME NEW r \in TurnState, NEW x \in BOOLEAN PROVE [r EXCEPT !.failed = x] \in TurnState
BY DEF TurnState
LEMMA SetSucceeded ==
    ASSUME NEW r \in TurnState, NEW x \in BOOLEAN PROVE [r EXCEPT !.succeeded = x] \in TurnState
BY DEF TurnState
LEMMA SetChecks ==
    ASSUME NEW r \in TurnState, NEW x \in [CheckNames -> Nat] PROVE [r EXCEPT !.checks = x] \in TurnState
BY DEF TurnState
LEMMA SetOk == ASSUME NEW r \in TurnState, NEW x \in BOOLEAN PROVE [r EXCEPT !.ok = x] \in TurnState
BY DEF TurnState
LEMMA SetSince == ASSUME NEW r \in TurnState, NEW x \in Nat PROVE [r EXCEPT !.since = x] \in TurnState
BY DEF TurnState
LEMMA SetDeadline == ASSUME NEW r \in TurnState, NEW x \in Nat PROVE [r EXCEPT !.deadline = x] \in TurnState
BY DEF TurnState
LEMMA SetOutcome == ASSUME NEW r \in TurnState, NEW x \in Outcomes PROVE [r EXCEPT !.outcome = x] \in TurnState
BY DEF TurnState
LEMMA SetResult ==
    ASSUME NEW r \in TurnState, NEW x \in {"none", "ok", "error"} PROVE [r EXCEPT !.result = x] \in TurnState
BY DEF TurnState

LEMMA IdleType == Idle \in TurnState
BY LimitsAssumption DEF Idle, TurnState, Phases, Outcomes

LEMMA LimitTypes ==
    ASSUME NEW t \in Turns
    PROVE  Limits[t].rounds \in Nat /\ Limits[t].calls \in Nat /\ Limits[t].bytes \in Nat
BY LimitsAssumption

LEMMA LoopedIs ==
    ASSUME NEW t \in Turns, NEW r \in TurnState
    PROVE  LET s == Looped(t, r) IN
           /\ s \in TurnState
           /\ s.at = "model" /\ s.rounds = r.rounds + 1
           /\ s.limit = IF r.limit = "none" /\ r.rounds = Limits[t].rounds THEN "rounds" ELSE r.limit
           /\ s.calls = r.calls /\ s.bytes = r.bytes /\ s.open = r.open /\ s.todo = r.todo
           /\ s.deadline = r.deadline /\ s.outcome = r.outcome /\ s.mode = r.mode
<1>. DEFINE l == IF r.limit = "none" /\ r.rounds = Limits[t].rounds THEN "rounds" ELSE r.limit
<1>1. "model" \in Phases /\ r.rounds + 1 \in Nat /\ l \in {"none", "rounds", "calls", "bytes"}
  BY DEF TurnState, Phases
<1>2. [r EXCEPT !.at = "model", !.rounds = r.rounds + 1, !.failing = FALSE, !.limit = l] \in TurnState
  BY <1>1, SetAt, SetRounds, SetFailing, SetLimit
<1>3. Looped(t, r) = [r EXCEPT !.at = "model", !.rounds = r.rounds + 1, !.failing = FALSE, !.limit = l]
  BY DEF Looped, TurnState
<1>. QED  BY <1>2, <1>3 DEF TurnState

LEMMA AnsweredIs ==
    ASSUME NEW t \in Turns, NEW r \in TurnState, r.todo # <<>>, r.open > 0,
           NEW n \in Nat, NEW ok \in BOOLEAN
    PROVE  LET s == Answered(t, r, n, ok) IN
           /\ s \in TurnState
           /\ s.at = r.at /\ s.rounds = r.rounds /\ s.calls = r.calls /\ s.bytes = r.bytes + n
           /\ s.limit = IF r.bytes + n > Limits[t].bytes THEN "bytes" ELSE r.limit
           /\ s.todo = Tail(r.todo) /\ s.open = r.open - 1
           /\ s.deadline = r.deadline /\ s.outcome = r.outcome
<1>. DEFINE l == IF r.bytes + n > Limits[t].bytes THEN "bytes" ELSE r.limit
<1>1. /\ Tail(r.todo) \in Seq(Kinds) /\ r.open - 1 \in Nat /\ r.bytes + n \in Nat
      /\ l \in {"none", "rounds", "calls", "bytes"}
  BY DEF TurnState
<1>2. (r.failing \/ ~ok) \in BOOLEAN /\ (r.failed \/ ~ok) \in BOOLEAN /\ (r.succeeded \/ ok) \in BOOLEAN
  OBVIOUS
<1>. DEFINE q == [r EXCEPT !.todo = Tail(r.todo), !.open = r.open - 1, !.bytes = r.bytes + n, !.limit = l]
<1>3. [r EXCEPT !.todo = Tail(r.todo), !.open = r.open - 1, !.bytes = r.bytes + n, !.limit = l,
                !.failing = r.failing \/ ~ok, !.failed = r.failed \/ ~ok,
                !.succeeded = r.succeeded \/ ok, !.ok = FALSE] \in TurnState
  <2>1. q \in TurnState
    BY <1>1, SetTodo, SetOpen, SetBytes, SetLimit
  <2>. HIDE DEF q
  <2>2. [q EXCEPT !.failing = r.failing \/ ~ok, !.failed = r.failed \/ ~ok,
                  !.succeeded = r.succeeded \/ ok, !.ok = FALSE] \in TurnState
    BY <1>2, <2>1, SetFailing, SetFailed, SetSucceeded, SetOk
  <2>. QED  BY <2>2 DEF q
<1>4. Answered(t, r, n, ok) =
        [r EXCEPT !.todo = Tail(r.todo), !.open = r.open - 1, !.bytes = r.bytes + n, !.limit = l,
                  !.failing = r.failing \/ ~ok, !.failed = r.failed \/ ~ok,
                  !.succeeded = r.succeeded \/ ok, !.ok = FALSE]
  BY DEF Answered, TurnState
<1>. QED  BY <1>3, <1>4 DEF TurnState

LEMMA EndedIs ==
    ASSUME NEW r \in TurnState, NEW o \in Outcomes
    PROVE  LET s == Ended(r, o) IN
           /\ s \in TurnState
           /\ s.at = "ending" /\ s.rounds = r.rounds /\ s.calls = r.calls /\ s.outcome = o
<1>1. "ending" \in Phases /\ r.rounds \in Nat /\ r.calls \in Nat
  BY DEF Phases, TurnState
<1>2. [Idle EXCEPT !.at = "ending", !.rounds = r.rounds, !.calls = r.calls, !.outcome = o] \in TurnState
  BY <1>1, IdleType, SetAt, SetRounds, SetCalls, SetOutcome
<1>. QED  BY <1>2, IdleType DEF Ended, TurnState

----------------------------------------------------------------------------
(* What a turn's thread computes keeps its limits, results and journal.    *)

Sound(t, r, j) == r \in TurnState /\ j \in Entry /\ Bounded(t, r) /\ Owes(r) /\ Logged(r, j)

\* The journal of a turn between two calls.
Level(r, j) ==
    /\ j \in Entry /\ j.started /\ j.end = "none"
    /\ j.requested = j.finished /\ j.requested <= r.calls

\* A turn that may go on to its next call or round.
Within(t, r) ==
    /\ r \in TurnState
    /\ r.rounds <= Limits[t].rounds /\ r.calls <= Limits[t].calls
    /\ r.limit = "none" => r.bytes <= Limits[t].bytes

LEMMA LoopedSound ==
    ASSUME NEW t \in Turns, NEW r, NEW j, Within(t, r), Level(r, j), r.open = 0
    PROVE  Sound(t, Looped(t, r), j)
<1>. DEFINE s == Looped(t, r)
<1>1. /\ s \in TurnState
      /\ s.at = "model" /\ s.rounds = r.rounds + 1
      /\ s.limit = IF r.limit = "none" /\ r.rounds = Limits[t].rounds THEN "rounds" ELSE r.limit
      /\ s.calls = r.calls /\ s.bytes = r.bytes /\ s.open = r.open
  BY LoopedIs DEF Within
<1>2. r.rounds \in Nat /\ r.calls \in Nat /\ r.bytes \in Nat
  BY DEF Within, TurnState
<1>3. Bounded(t, s)
  BY <1>1, <1>2, LimitTypes DEF Bounded, Within, ToolStates, Threaded
<1>4. Owes(s) /\ Logged(s, j)
  BY <1>1 DEF Owes, Logged, Level, ToolStates, Threaded
<1>. QED  BY <1>1, <1>3, <1>4 DEF Sound, Level

LEMMA SettledSound ==
    ASSUME NEW t \in Turns, NEW r, NEW j, Within(t, r), Level(r, j), r.open = Len(r.todo),
           NEW s \in Settled(t, r)
    PROVE  /\ Sound(t, s, j) /\ s.at \in {"model", "calls"}
           /\ s.deadline = r.deadline /\ s.outcome = r.outcome
<1>1. CASE r.todo # <<>>
  <2>1. s = [r EXCEPT !.at = "calls"] /\ "calls" \in Phases
    BY <1>1 DEF Settled, Phases
  <2>2. s \in TurnState
    BY <2>1, SetAt DEF Within
  <2>3. /\ s.at = "calls" /\ s.rounds = r.rounds /\ s.calls = r.calls /\ s.bytes = r.bytes
        /\ s.limit = r.limit /\ s.open = r.open /\ s.todo = r.todo
        /\ s.deadline = r.deadline /\ s.outcome = r.outcome
    BY <2>1 DEF Within, TurnState
  <2>4. r.open > 0
    <3>1. r.todo \in Seq(Kinds)
      BY DEF Within, TurnState
    <3>. QED  BY <1>1, <3>1 DEF Within
  <2>5. Bounded(t, s)
    BY <2>3, LimitTypes DEF Within, Bounded, ToolStates, Threaded, TurnState
  <2>6. Owes(s) /\ Logged(s, j)
    BY <2>3, <2>4 DEF Within, Owes, Logged, Level, ToolStates, Threaded
  <2>. QED  BY <2>2, <2>3, <2>5, <2>6 DEF Sound, Level
<1>2. CASE r.todo = <<>>
  <2>1. r.open = 0
    BY <1>2 DEF Within
  <2>2. PICK q : s = Looped(t, q) /\
               (q = r \/ q = [r EXCEPT !.checks = [r.checks EXCEPT !["execution"] = 0]])
    BY <1>2 DEF Settled
  <2>3. /\ Within(t, q) /\ Level(q, j) /\ q.open = 0
        /\ q.deadline = r.deadline /\ q.outcome = r.outcome
    <3>1. CASE q = r
      BY <3>1, <2>1
    <3>2. CASE q = [r EXCEPT !.checks = [r.checks EXCEPT !["execution"] = 0]]
      <4>1. [r.checks EXCEPT !["execution"] = 0] \in [CheckNames -> Nat]
        BY DEF Within, TurnState
      <4>2. q \in TurnState
        BY <3>2, <4>1, SetChecks DEF Within
      <4>3. /\ q.rounds = r.rounds /\ q.calls = r.calls /\ q.bytes = r.bytes /\ q.limit = r.limit
            /\ q.open = r.open /\ q.todo = r.todo /\ q.deadline = r.deadline /\ q.outcome = r.outcome
        BY <3>2 DEF Within, TurnState
      <4>. QED  BY <2>1, <4>2, <4>3 DEF Within, Level
    <3>. QED  BY <2>2, <3>1, <3>2
  <2>. QED  BY <2>2, <2>3, LoopedSound, LoopedIs DEF Within
<1>. QED  BY <1>1, <1>2

LEMMA EndedSound ==
    ASSUME NEW t \in Turns, NEW r \in TurnState, NEW o \in Outcomes, NEW j \in Entry,
           r.rounds <= Limits[t].rounds + 1, r.calls <= Limits[t].calls,
           j.started, j.end = "none", j.requested <= r.calls,
           j.requested \in {j.finished, j.finished + 1},
           o \in Good => j.requested = j.finished
    PROVE  Sound(t, Ended(r, o), j)
<1>. DEFINE s == Ended(r, o)
<1>1. /\ s \in TurnState /\ s.at = "ending" /\ s.rounds = r.rounds /\ s.calls = r.calls
      /\ s.outcome = o
  BY EndedIs
<1>2. Bounded(t, s) /\ Owes(s)
  BY <1>1 DEF Bounded, Owes, ToolStates, Threaded
<1>3. Logged(s, j)
  BY <1>1 DEF Logged, ToolStates, Threaded
<1>. QED  BY <1>1, <1>2, <1>3 DEF Sound

\* A result settles one call.
LEMMA AnsweredWithin ==
    ASSUME NEW t \in Turns, NEW r \in TurnState, NEW n \in Nat, NEW ok \in BOOLEAN,
           r.rounds <= Limits[t].rounds, r.calls <= Limits[t].calls,
           r.open = Len(r.todo), r.open > 0
    PROVE  LET s == Answered(t, r, n, ok) IN
           /\ Within(t, s) /\ s.open = Len(s.todo)
           /\ s.calls = r.calls /\ s.deadline = r.deadline /\ s.outcome = r.outcome
<1>. DEFINE s == Answered(t, r, n, ok)
<1>1. r.todo \in Seq(Kinds) /\ r.bytes \in Nat
  BY DEF TurnState
<1>2. r.todo # <<>> /\ Len(Tail(r.todo)) = Len(r.todo) - 1
  BY <1>1
<1>3. /\ s \in TurnState
      /\ s.rounds = r.rounds /\ s.calls = r.calls /\ s.bytes = r.bytes + n
      /\ s.limit = IF r.bytes + n > Limits[t].bytes THEN "bytes" ELSE r.limit
      /\ s.todo = Tail(r.todo) /\ s.open = r.open - 1
      /\ s.deadline = r.deadline /\ s.outcome = r.outcome
  BY <1>2, AnsweredIs
<1>. QED  BY <1>1, <1>2, <1>3, LimitTypes DEF Within

----------------------------------------------------------------------------
(* A step of one thread that leaves the crew alone.                        *)

MayRun(r) ==
    /\ r.at \in InBrokerStates \cup {"running"} => r.mode # "plan"
    /\ r.at = "running" =>
          \/ Head(r.todo) \in Configured
          \/ r.mode = "auto" /\ Head(r.todo) = "read"
          \/ Granted(Head(r.todo))

LEMMA ThreadKeeps ==
    ASSUME IInv, NEW t \in Turns, NEW r, NEW j,
           turn' = [turn EXCEPT ![t] = r], journal' = [journal EXCEPT ![t] = j],
           Sound(t, r, j), MayRun(r),
           r.at \notin {"idle", "spawned", "over"}, turn[t].at \notin {"idle", "spawned", "over"},
           r.at \in InBrokerStates => r.since <= now,
           (t = Main => team = NoTeam) => Timed(r, now, work[t], cancelled),
           t = Main => ~RunningTeam,
           reply' = [reply EXCEPT ![t] = "none"],
           asks' \in Seq([turn : Turns, call : Nat]), Len(asks') <= 1, shown' = shown,
           approved' \subseteq Kinds, \A k \in approved' : Granted(k), granted' = granted,
           committed' \in BOOLEAN,
           UNCHANGED <<cancelled, crew, now, work>>
    PROVE  IInv'
<1>1. /\ turn \in [Turns -> TurnState] /\ journal \in [Turns -> Entry]
      /\ reply \in [Turns -> {"none", "allow", "deny"}]
  BY DEF IInv, TypeOK, Entry
<1>2. turn'[t] = r /\ journal'[t] = j /\ reply'[t] = "none"
  BY <1>1
<1>3. \A u \in Turns : u # t => turn'[u] = turn[u] /\ journal'[u] = journal[u] /\ reply'[u] = reply[u]
  BY <1>1
<1>4. TypeOK'
  <2>1. turn' \in [Turns -> TurnState] /\ journal' \in [Turns -> Entry]
    BY <1>1 DEF Sound
  <2>2. reply' \in [Turns -> {"none", "allow", "deny"}]
    BY <1>1
  <2>. QED  BY <2>1, <2>2 DEF IInv, TypeOK, Entry, crew
<1>5. \A u \in Turns : TurnOK(u)'
  <2>. SUFFICES ASSUME NEW u \in Turns PROVE TurnOK(u)'
    OBVIOUS
  <2>1. CASE u = t
    BY <2>1, <1>2 DEF TurnOK, Fresh, Sound, crew
  <2>2. CASE u # t
    <3>1. TurnOK(u)
      BY DEF IInv
    <3>. QED  BY <2>2, <3>1, <1>3 DEF TurnOK, crew
  <2>. QED  BY <2>1, <2>2
<1>6. \A u \in Turns : AllowedOK(u)'
  <2>. SUFFICES ASSUME NEW u \in Turns PROVE AllowedOK(u)'
    OBVIOUS
  <2>1. CASE u = t
    BY <2>1, <1>2 DEF AllowedOK, MayRun, Request, At, Granted
  <2>2. CASE u # t
    <3>1. AllowedOK(u)
      BY DEF IInv
    <3>. QED  BY <2>2, <3>1, <1>3 DEF AllowedOK, Request, At, Granted
  <2>. QED  BY <2>1, <2>2
<1>7. \A k \in approved' : Granted(k)'
  BY DEF Granted
<1>8. CrewOK'
  <2>1. CrewOK
    BY DEF IInv
  <2>2. ~At(Main, "spawned")'
    BY <1>2, <1>3, <2>1 DEF CrewOK, At, Turns
  <2>3. (team.state = "none" => team = NoTeam)'
    BY <2>1 DEF CrewOK, crew
  <2>4. ASSUME NEW h \in Helpers
        PROVE  (/\ registry[h] = "none" => At(h, "idle")
                /\ ~At(h, "idle") => h \in team.members
                /\ team.state # "short" /\ Working(h) => RunningTeam
                /\ registry[h] \in {"done", "failed"} => At(h, "over"))'
    <3>1. h \in Turns /\ h # Main /\ Main \in Turns
      BY TurnsAssumption DEF Turns
    <3>2. CASE h = t
      <4>1. RunningTeam' = RunningTeam
        BY <3>1, <3>2, <1>3 DEF RunningTeam, Spawning, At, Request, crew
      <4>. QED  BY <4>1, <3>1, <3>2, <1>2, <2>1 DEF CrewOK, At, Working, crew
    <3>3. CASE h # t
      <4>1. CASE t = Main
        BY <4>1, <3>1, <3>3, <1>3, <2>1 DEF CrewOK, At, Working, crew
      <4>2. CASE t # Main
        <5>1. RunningTeam' = RunningTeam
          BY <4>2, <3>1, <1>3 DEF RunningTeam, Spawning, At, Request, crew
        <5>. QED  BY <5>1, <3>1, <3>3, <1>3, <2>1 DEF CrewOK, At, Working, crew
      <4>. QED  BY <4>1, <4>2
    <3>. QED  BY <3>2, <3>3
  <2>. QED  BY <2>2, <2>3, <2>4 DEF CrewOK
<1>. QED  BY <1>4, <1>5, <1>6, <1>7, <1>8 DEF IInv

\* What is known of a thread that steps.
LEMMA ThreadIs ==
    ASSUME IInv, NEW t \in Turns
    PROVE  /\ turn[t] \in TurnState /\ journal[t] \in Entry /\ work[t] \in 0 .. TurnTimeout
           /\ reply \in [Turns -> {"none", "allow", "deny"}]
           /\ Bounded(t, turn[t]) /\ Owes(turn[t]) /\ Logged(turn[t], journal[t])
           /\ turn = [turn EXCEPT ![t] = turn[t]] /\ journal = [journal EXCEPT ![t] = journal[t]]
           /\ now \in Nat
BY DEF IInv, TypeOK, Entry, TurnOK

LEMMA Silent ==
    ASSUME IInv, NEW t \in Turns, ~At(t, "waiting")
    PROVE  reply = [reply EXCEPT ![t] = "none"]
<1>1. reply[t] = "none"
  BY DEF IInv, AllowedOK
<1>. QED  BY <1>1, ThreadIs

\* A step outside the approval channel.
LEMMA QuietKeeps ==
    ASSUME IInv, NEW t \in Turns, NEW r, NEW j,
           turn' = [turn EXCEPT ![t] = r], journal' = [journal EXCEPT ![t] = j],
           Sound(t, r, j), r.at \in {"model", "calls", "returned", "ending"},
           turn[t].at \in {"model", "calls", "running", "returned"},
           (t = Main => team = NoTeam) => Timed(r, now, work[t], cancelled),
           t = Main => ~RunningTeam,
           committed' \in BOOLEAN,
           UNCHANGED <<cancelled, channel, crew, now, work>>
    PROVE  IInv'
<1>1. reply' = [reply EXCEPT ![t] = "none"]
  BY Silent DEF At, channel
<1>2. /\ asks' \in Seq([turn : Turns, call : Nat]) /\ Len(asks') <= 1 /\ shown' = shown
      /\ approved' \subseteq Kinds /\ (\A k \in approved' : Granted(k)) /\ granted' = granted
  BY DEF channel, IInv, TypeOK
<1>3. MayRun(r) /\ r.at \notin {"idle", "spawned", "over"} /\ r.at \notin InBrokerStates
  BY DEF MayRun, InBrokerStates
<1>. QED  BY <1>1, <1>2, <1>3, ThreadKeeps

\* The turn goes on, with its deadline.
LEMMA GoKeeps ==
    ASSUME IInv, NEW t \in Turns, NEW r, NEW j,
           turn' = [turn EXCEPT ![t] = r], journal' = [journal EXCEPT ![t] = j],
           Sound(t, r, j), r.at \in {"model", "calls", "returned"},
           turn[t].at \in {"model", "calls", "running", "returned"},
           r.deadline = turn[t].deadline, r.outcome = turn[t].outcome,
           t = Main => ~RunningTeam,
           UNCHANGED <<committed, cancelled, channel, crew, now, work>>
    PROVE  IInv'
<1>1. (t = Main => team = NoTeam) => Timed(r, now, work[t], cancelled)
  <2>1. (t = Main => team = NoTeam) => Timed(turn[t], now, work[t], cancelled)
    BY DEF IInv, TurnOK
  <2>. QED  BY <2>1 DEF Timed, InBrokerStates, Threaded, ToolStates
<1>2. committed' \in BOOLEAN
  BY DEF IInv, TypeOK
<1>. QED  BY <1>1, <1>2, QuietKeeps

\* The turn's loop returns.
LEMMA EndKeeps ==
    ASSUME IInv, NEW t \in Turns, NEW q \in TurnState, NEW o \in Outcomes, NEW j \in Entry,
           turn' = [turn EXCEPT ![t] = Ended(q, o)], journal' = [journal EXCEPT ![t] = j],
           turn[t].at \in {"model", "calls", "returned"},
           q.rounds = turn[t].rounds, q.calls <= Limits[t].calls,
           j.started, j.end = "none", j.requested <= q.calls,
           j.requested \in {j.finished, j.finished + 1},
           o \in Good => j.requested = j.finished,
           o = "deadline" => ~cancelled /\ ~(now < turn[t].deadline),
           committed' \in BOOLEAN,
           UNCHANGED <<cancelled, channel, crew, now, work>>
    PROVE  IInv'
<1>. DEFINE r == Ended(q, o)
<1>1. r \in TurnState /\ r.at = "ending" /\ r.outcome = o
  BY EndedIs
<1>2. Sound(t, r, j)
  <2>1. q.rounds <= Limits[t].rounds + 1
    BY ThreadIs DEF Bounded
  <2>. QED  BY <2>1, EndedSound
<1>3. (t = Main => team = NoTeam) => Timed(r, now, work[t], cancelled)
  <2>. SUFFICES ASSUME t = Main => team = NoTeam, o = "deadline"
               PROVE  work[t] = TurnTimeout
    BY <1>1 DEF Timed, Threaded, ToolStates, InBrokerStates
  <2>1. Timed(turn[t], now, work[t], cancelled)
    BY DEF IInv, TurnOK
  <2>2. work[t] = TurnTimeout \/ now + TurnTimeout <= turn[t].deadline + work[t]
    BY <2>1 DEF Timed, Threaded, ToolStates, InBrokerStates
  <2>3. turn[t].deadline \in Nat /\ work[t] \in 0 .. TurnTimeout /\ now \in Nat /\ TurnTimeout \in Nat
    BY ThreadIs, LimitsAssumption DEF TurnState
  <2>. QED  BY <2>2, <2>3
<1>4. t = Main => ~RunningTeam
  BY DEF RunningTeam, Spawning, At
<1>. HIDE DEF r
<1>. QED  BY <1>1, <1>2, <1>3, <1>4, QuietKeeps DEF r

\* The end of a turn between two calls, or at the model.
LEMMA StopKeeps ==
    ASSUME IInv, NEW t \in Turns, NEW o \in Outcomes,
           turn[t].at \in {"model", "calls", "returned"},
           turn[t].at = "returned" => o \notin Good,
           o = "deadline" => ~cancelled /\ ~(now < turn[t].deadline),
           turn' = [turn EXCEPT ![t] = Ended(turn[t], o)],
           committed' \in BOOLEAN,
           UNCHANGED <<journal, cancelled, channel, crew, now, work>>
    PROVE  IInv'
<1>1. journal' = [journal EXCEPT ![t] = journal[t]]
  BY ThreadIs
<1>2. /\ journal[t].started /\ journal[t].end = "none" /\ journal[t].requested <= turn[t].calls
      /\ journal[t].requested \in {journal[t].finished, journal[t].finished + 1}
      /\ o \in Good => journal[t].requested = journal[t].finished
  BY ThreadIs DEF Logged, Threaded, ToolStates
<1>3. turn[t].calls <= Limits[t].calls
  BY ThreadIs DEF Bounded
<1>. QED  BY <1>1, <1>2, <1>3, ThreadIs, EndKeeps

LEMMA CutOutcome ==
    ASSUME NEW t \in Turns, ~Active(t)
    PROVE  /\ Cut \in Outcomes /\ Cut \notin Good
           /\ Cut = "deadline" => ~cancelled /\ ~(now < turn[t].deadline)
BY DEF Cut, Active, Outcomes, Good

----------------------------------------------------------------------------
(* The model round.                                                        *)

LEMMA CutOffKeeps == ASSUME IInv, NEW t \in Turns, CutOff(t) PROVE IInv'
<1>1. committed' \in BOOLEAN
  BY DEF CutOff, IInv, TypeOK
<1>. QED  BY <1>1, CutOutcome, StopKeeps DEF CutOff, EndWith, Put, At

LEMMA BreakKeeps == ASSUME IInv, NEW t \in Turns, Break(t) PROVE IInv'
<1>1. committed' \in BOOLEAN
  BY DEF Break, IInv, TypeOK
<1>2. PICK o \in {"provider", "output"} : EndWith(t, o)
  BY DEF Break
<1>3. o \in Outcomes /\ o # "deadline"
  BY DEF Outcomes
<1>. QED  BY <1>1, <1>2, <1>3, StopKeeps DEF Break, EndWith, Put, At

LEMMA SummariseKeeps == ASSUME IInv, NEW t \in Turns, Summarise(t) PROVE IInv'
<1>1. committed' \in BOOLEAN
  BY DEF Summarise
<1>2. "summary" \in Outcomes
  BY DEF Outcomes
<1>. QED  BY <1>1, <1>2, StopKeeps DEF Summarise, EndWith, Put, At

LEMMA AnswerKeeps == ASSUME IInv, NEW t \in Turns, Answer(t) PROVE IInv'
<1>1. committed' \in BOOLEAN
  BY DEF Answer
<1>2. "answered" \in Outcomes
  BY DEF Outcomes
<1>. QED  BY <1>1, <1>2, StopKeeps DEF Answer, EndWith, Put, At

LEMMA ModelLevel ==
    ASSUME IInv, NEW t \in Turns, turn[t].at \in {"model", "calls"}
    PROVE  /\ Level(turn[t], journal[t]) /\ turn[t].calls <= Limits[t].calls
           /\ turn[t].at = "model" => turn[t].open = 0
           /\ turn[t].limit = "none" \/ turn[t].at = "calls" => turn[t].rounds <= Limits[t].rounds
<1>1. Level(turn[t], journal[t])
  BY ThreadIs DEF Logged, Level, Threaded
<1>2. turn[t].rounds \in Nat /\ Limits[t].rounds \in Nat
  BY ThreadIs, LimitTypes DEF TurnState
<1>. QED  BY <1>1, <1>2, ThreadIs DEF Bounded, Owes

LEMMA ReviseKeeps == ASSUME IInv, NEW t \in Turns, Revise(t) PROVE IInv'
<1>. USE DEF At
<1>1. PICK n \in Sizes, c \in CheckNames :
         /\ Fits(t, n) /\ MayRevise(t, c)
         /\ Put(t, Looped(t, [turn[t] EXCEPT !.bytes = @ + n, !.checks[c] = @ - 1]))
  BY DEF Revise
<1>2. turn[t] \in TurnState /\ turn[t].at = "model"
  BY ThreadIs DEF Revise
<1>3. turn[t].bytes + n \in Nat
  BY <1>2, LimitsAssumption DEF TurnState
<1>4. [turn[t].checks EXCEPT ![c] = @ - 1] \in [CheckNames -> Nat]
  <2>1. turn[t].checks \in [CheckNames -> Nat] /\ turn[t].checks[c] > 0
    BY <1>1, <1>2 DEF TurnState, MayRevise
  <2>2. turn[t].checks[c] - 1 \in Nat
    BY <2>1
  <2>. QED  BY <2>1, <2>2
<1>. DEFINE d == [turn[t].checks EXCEPT ![c] = @ - 1]
            q == [turn[t] EXCEPT !.bytes = turn[t].bytes + n, !.checks = d]
<1>5. q \in TurnState
  BY <1>2, <1>3, <1>4, SetBytes, SetChecks
<1>6. q = [turn[t] EXCEPT !.bytes = @ + n, !.checks[c] = @ - 1]
  <2>. PICK r \in TurnState : r = turn[t]
    BY <1>2
  <2>1. r.checks \in [CheckNames -> Nat] /\ c \in CheckNames
    BY DEF TurnState
  <2>2. [r EXCEPT !.bytes = r.bytes + n, !.checks = [r.checks EXCEPT ![c] = @ - 1]]
          = [r EXCEPT !.bytes = @ + n, !.checks[c] = @ - 1]
    BY <2>1 DEF TurnState
  <2>. QED  BY <2>2
<1>7. /\ q.rounds = turn[t].rounds /\ q.calls = turn[t].calls /\ q.limit = turn[t].limit
      /\ q.bytes = turn[t].bytes + n /\ q.open = turn[t].open
      /\ q.deadline = turn[t].deadline /\ q.outcome = turn[t].outcome
  BY <1>2 DEF TurnState
<1>. HIDE DEF q
<1>8. Within(t, q) /\ Level(q, journal[t]) /\ q.open = 0
  BY <1>1, <1>2, <1>5, <1>7, ModelLevel DEF Within, Level, Fits
<1>9. /\ Sound(t, Looped(t, q), journal[t]) /\ Looped(t, q).at = "model"
      /\ Looped(t, q).deadline = turn[t].deadline /\ Looped(t, q).outcome = turn[t].outcome
  BY <1>5, <1>7, <1>8, LoopedSound, LoopedIs
<1>10. t = Main => ~RunningTeam
  BY <1>2 DEF RunningTeam, Spawning
<1>11. journal' = [journal EXCEPT ![t] = journal[t]]
  BY ThreadIs DEF Revise
<1>. QED  BY <1>1, <1>2, <1>6, <1>9, <1>10, <1>11, GoKeeps DEF Revise, Put

LEMMA RequestToolsKeeps == ASSUME IInv, NEW t \in Turns, RequestTools(t) PROVE IInv'
<1>. USE DEF At
<1>1. PICK n \in Sizes, batch \in Batches :
         /\ Fits(t, n)
         /\ LET r == [turn[t] EXCEPT !.at = "calls", !.bytes = @ + n, !.todo = batch.calls,
                                  !.open = Len(batch.calls)]
            IN  Put(t, IF batch.calls = <<>> THEN Looped(t, r) ELSE r)
  BY DEF RequestTools
<1>2. turn[t] \in TurnState /\ turn[t].at = "model"
  BY ThreadIs DEF RequestTools
<1>3. /\ "calls" \in Phases /\ turn[t].bytes + n \in Nat /\ batch.calls \in Seq(Kinds)
      /\ Len(batch.calls) \in Nat
  <2>1. batch.calls \in Seq(Kinds)
    BY LimitsAssumption
  <2>2. Len(batch.calls) \in Nat
    BY <2>1
  <2>3. turn[t].bytes + n \in Nat
    BY <1>2, LimitsAssumption DEF TurnState
  <2>. QED  BY <2>1, <2>2, <2>3 DEF Phases
<1>. DEFINE q == [turn[t] EXCEPT !.at = "calls", !.bytes = turn[t].bytes + n, !.todo = batch.calls,
                                  !.open = Len(batch.calls)]
<1>4. q \in TurnState
  BY <1>2, <1>3, SetAt, SetBytes, SetTodo, SetOpen
<1>5. turn' = [turn EXCEPT ![t] = IF batch.calls = <<>> THEN Looped(t, q) ELSE q]
  <2>1. q = [turn[t] EXCEPT !.at = "calls", !.bytes = @ + n, !.todo = batch.calls,
                                  !.open = Len(batch.calls)]
    BY <1>2 DEF TurnState
  <2>. QED  BY <1>1, <2>1 DEF Put
<1>6. /\ q.at = "calls" /\ q.rounds = turn[t].rounds /\ q.calls = turn[t].calls
      /\ q.limit = turn[t].limit /\ q.bytes = turn[t].bytes + n /\ q.todo = batch.calls
      /\ q.open = Len(batch.calls)
      /\ q.deadline = turn[t].deadline /\ q.outcome = turn[t].outcome
  BY <1>2 DEF TurnState
<1>. HIDE DEF q
<1>7. Within(t, q) /\ Level(q, journal[t])
  BY <1>1, <1>2, <1>4, <1>6, ModelLevel DEF Within, Level, Fits
<1>8. t = Main => ~RunningTeam
  BY <1>2 DEF RunningTeam, Spawning
<1>9. journal' = [journal EXCEPT ![t] = journal[t]]
  BY ThreadIs DEF RequestTools
<1>10. CASE batch.calls = <<>>
  <2>1. q.open = 0
    BY <1>6, <1>10
  <2>2. /\ Sound(t, Looped(t, q), journal[t]) /\ Looped(t, q).at = "model"
        /\ Looped(t, q).deadline = turn[t].deadline /\ Looped(t, q).outcome = turn[t].outcome
    BY <2>1, <1>4, <1>6, <1>7, LoopedSound, LoopedIs
  <2>. QED  BY <1>2, <1>5, <1>8, <1>9, <1>10, <2>2, GoKeeps DEF RequestTools
<1>11. CASE batch.calls # <<>>
  <2>1. Len(batch.calls) > 0
    BY <1>3, <1>11
  <2>2. Bounded(t, q)
    BY <1>6, <1>7, LimitTypes DEF Bounded, Within, ToolStates, Threaded, TurnState
  <2>3. Owes(q) /\ Logged(q, journal[t])
    BY <1>6, <1>7, <2>1 DEF Owes, Logged, Level, ToolStates, Threaded
  <2>4. Sound(t, q, journal[t])
    BY <1>4, <2>2, <2>3, ThreadIs DEF Sound
  <2>. QED  BY <1>2, <1>5, <1>6, <1>8, <1>9, <1>11, <2>4, GoKeeps DEF RequestTools
<1>. QED  BY <1>10, <1>11

----------------------------------------------------------------------------
(* Tool calls.                                                             *)

LEMMA ToolIs ==
    ASSUME IInv, NEW t \in Turns, turn[t].at \in {"calls"} \cup ToolStates
    PROVE  /\ turn[t].rounds <= Limits[t].rounds /\ turn[t].calls <= Limits[t].calls
           /\ turn[t].limit = "none" => turn[t].bytes <= Limits[t].bytes
           /\ turn[t].open = Len(turn[t].todo) /\ turn[t].open > 0
           /\ turn[t].at # "calls" => turn[t].limit = "none"
           /\ Request(t) \in Kinds
<1>1. turn[t].todo \in Seq(Kinds)
  BY ThreadIs DEF TurnState
<1>2. turn[t].open = Len(turn[t].todo) /\ turn[t].open > 0
  BY ThreadIs DEF Owes
<1>3. Request(t) \in Kinds
  BY <1>1, <1>2 DEF Request
<1>. QED  BY <1>2, <1>3, ThreadIs DEF Bounded, Threaded, ToolStates

LEMMA SkipKeeps == ASSUME IInv, NEW t \in Turns, Skip(t) PROVE IInv'
<1>. USE DEF At
<1>1. turn[t] \in TurnState /\ turn[t].at = "calls" /\ turn[t].open = Len(turn[t].todo)
  BY ThreadIs, ToolIs DEF Skip
<1>. DEFINE l == IF turn[t].limit = "none" THEN "calls" ELSE turn[t].limit
            q == [turn[t] EXCEPT !.limit = l, !.open = 0, !.todo = <<>>]
<1>2. l \in {"none", "rounds", "calls", "bytes"} /\ <<>> \in Seq(Kinds) /\ 0 \in Nat
  BY <1>1 DEF TurnState
<1>3. q \in TurnState
  BY <1>1, <1>2, SetLimit, SetOpen, SetTodo
<1>4. [turn[t] EXCEPT !.limit = IF @ = "none" THEN "calls" ELSE @,
                      !.open = @ - Len(turn[t].todo), !.todo = <<>>] = q
  <2>. PICK r \in TurnState : r = turn[t]
    BY <1>1
  <2>1. r.open - Len(r.todo) = 0
    BY <1>1 DEF TurnState
  <2>2. [r EXCEPT !.limit = IF @ = "none" THEN "calls" ELSE @, !.open = @ - Len(r.todo), !.todo = <<>>]
          = [r EXCEPT !.limit = IF r.limit = "none" THEN "calls" ELSE r.limit, !.open = 0, !.todo = <<>>]
    BY <2>1 DEF TurnState
  <2>. QED  BY <2>2
<1>5. /\ q.rounds = turn[t].rounds /\ q.calls = turn[t].calls /\ q.limit # "none"
      /\ q.bytes = turn[t].bytes /\ q.open = 0 /\ q.todo = <<>>
      /\ q.deadline = turn[t].deadline /\ q.outcome = turn[t].outcome
  BY <1>1 DEF TurnState
<1>. HIDE DEF q
<1>6. Within(t, q) /\ Level(q, journal[t]) /\ q.open = Len(q.todo)
  BY <1>1, <1>3, <1>5, ModelLevel, ToolIs DEF Within, Level
<1>7. PICK s \in Settled(t, q) : turn' = [turn EXCEPT ![t] = s]
  BY <1>4 DEF Skip, Put
<1>8. /\ Sound(t, s, journal[t]) /\ s.at \in {"model", "calls"}
      /\ s.deadline = turn[t].deadline /\ s.outcome = turn[t].outcome
  BY <1>5, <1>6, SettledSound
<1>9. t = Main => ~RunningTeam
  BY <1>1 DEF RunningTeam, Spawning
<1>10. journal' = [journal EXCEPT ![t] = journal[t]]
  BY ThreadIs DEF Skip
<1>. QED  BY <1>1, <1>7, <1>8, <1>9, <1>10, GoKeeps DEF Skip

\* One more call.
LEMMA CountedIs ==
    ASSUME IInv, NEW t \in Turns, turn[t].at = "calls", ~Exhausted(t)
    PROVE  LET r == [turn[t] EXCEPT !.calls = @ + 1] IN
           /\ r \in TurnState /\ r.at = "calls"
           /\ r.rounds = turn[t].rounds /\ r.calls = turn[t].calls + 1 /\ r.limit = "none"
           /\ r.bytes = turn[t].bytes /\ r.open = turn[t].open /\ r.todo = turn[t].todo
           /\ r.deadline = turn[t].deadline /\ r.outcome = turn[t].outcome /\ r.mode = turn[t].mode
           /\ r.calls <= Limits[t].calls
           /\ r.rounds <= Limits[t].rounds /\ r.bytes <= Limits[t].bytes
           /\ r.open = Len(r.todo) /\ r.open > 0
<1>1. turn[t] \in TurnState
  BY ThreadIs
<1>. PICK r \in TurnState : r = turn[t]
  BY <1>1
<1>2. r.calls \in Nat /\ Limits[t].calls \in Nat
  BY LimitTypes DEF TurnState
<1>3. [r EXCEPT !.calls = @ + 1] = [r EXCEPT !.calls = r.calls + 1]
  BY DEF TurnState
<1>4. [r EXCEPT !.calls = r.calls + 1] \in TurnState
  BY <1>2, SetCalls
<1>5. r.calls # Limits[t].calls /\ r.limit = "none" /\ r.calls <= Limits[t].calls
  BY ToolIs DEF Exhausted
<1>6. r.calls + 1 <= Limits[t].calls
  BY <1>2, <1>5
<1>. QED  BY <1>3, <1>4, <1>5, <1>6, ToolIs DEF TurnState

LEMMA RejectKeeps == ASSUME IInv, NEW t \in Turns, Reject(t) PROVE IInv'
<1>. USE DEF At
<1>. DEFINE r == [turn[t] EXCEPT !.calls = @ + 1]
<1>1. turn[t].at = "calls" /\ ~Exhausted(t)
  BY DEF Reject
<1>2. /\ r \in TurnState
      /\ r.rounds = turn[t].rounds /\ r.calls = turn[t].calls + 1 /\ r.limit = "none"
      /\ r.bytes = turn[t].bytes
      /\ r.deadline = turn[t].deadline /\ r.outcome = turn[t].outcome
      /\ r.calls <= Limits[t].calls
      /\ r.rounds <= Limits[t].rounds /\ r.bytes <= Limits[t].bytes
      /\ r.open = Len(r.todo) /\ r.open > 0
  BY <1>1, CountedIs
<1>3. \/ ~Active(t) /\ turn' = [turn EXCEPT ![t] = Ended(r, Cut)]
      \/ \E n \in Sizes : \E s \in Settled(t, Answered(t, r, n, FALSE)) : turn' = [turn EXCEPT ![t] = s]
  BY DEF Reject, Put
<1>. HIDE DEF r
<1>4. journal' = [journal EXCEPT ![t] = journal[t]]
  BY ThreadIs DEF Reject
<1>5. Level(turn[t], journal[t]) /\ turn[t].calls \in Nat /\ journal[t] \in Entry
  BY <1>1, ModelLevel, ThreadIs DEF TurnState
<1>6. Level(r, journal[t])
  BY <1>2, <1>5 DEF Level, Entry
<1>7. t = Main => ~RunningTeam
  BY <1>1 DEF RunningTeam, Spawning
<1>8. CASE ~Active(t) /\ turn' = [turn EXCEPT ![t] = Ended(r, Cut)]
  <2>1. committed' \in BOOLEAN
    BY DEF Reject, IInv, TypeOK
  <2>2. journal[t].requested \in {journal[t].finished, journal[t].finished + 1}
    BY <1>6 DEF Level
  <2>. QED  BY <1>1, <1>2, <1>4, <1>5, <1>6, <1>8, <2>1, <2>2, CutOutcome, EndKeeps DEF Level, Reject
<1>9. CASE \E n \in Sizes : \E s \in Settled(t, Answered(t, r, n, FALSE)) : turn' = [turn EXCEPT ![t] = s]
  <2>1. PICK n \in Sizes : \E s \in Settled(t, Answered(t, r, n, FALSE)) : turn' = [turn EXCEPT ![t] = s]
    BY <1>9
  <2>2. PICK s \in Settled(t, Answered(t, r, n, FALSE)) : turn' = [turn EXCEPT ![t] = s]
    BY <2>1
  <2>. DEFINE q == Answered(t, r, n, FALSE)
  <2>3. /\ Within(t, q) /\ q.open = Len(q.todo)
        /\ q.calls = r.calls /\ q.deadline = r.deadline /\ q.outcome = r.outcome
    <3>1. n \in Nat /\ FALSE \in BOOLEAN
      BY LimitsAssumption
    <3>. QED  BY <1>2, <3>1, AnsweredWithin
  <2>. HIDE DEF q
  <2>4. Level(q, journal[t])
    BY <1>6, <2>3 DEF Level
  <2>5. /\ Sound(t, s, journal[t]) /\ s.at \in {"model", "calls"}
        /\ s.deadline = turn[t].deadline /\ s.outcome = turn[t].outcome
    BY <1>2, <2>2, <2>3, <2>4, SettledSound DEF q
  <2>. QED  BY <1>1, <1>4, <1>7, <2>2, <2>5, GoKeeps DEF Reject
<1>. QED  BY <1>3, <1>8, <1>9

\* A turn in a tool call that only moves on in it.
LEMMA ToolMove ==
    ASSUME IInv, NEW t \in Turns, turn[t].at \in ToolStates,
           NEW r \in TurnState, r.at \in ToolStates,
           r.rounds = turn[t].rounds, r.calls = turn[t].calls, r.bytes = turn[t].bytes,
           r.limit = turn[t].limit, r.open = turn[t].open, r.todo = turn[t].todo
    PROVE  Sound(t, r, journal[t])
<1>1. Bounded(t, r)
  BY ThreadIs, ToolIs DEF Bounded, Threaded, ToolStates
<1>2. Owes(r)
  BY ToolIs DEF Owes, ToolStates
<1>3. Logged(r, journal[t])
  BY ThreadIs DEF Logged, Threaded, ToolStates
<1>. QED  BY <1>1, <1>2, <1>3, ThreadIs DEF Sound

LEMMA ReturnKeeps == ASSUME IInv, NEW t \in Turns, Return(t) PROVE IInv'
<1>. USE DEF At
<1>1. turn[t] \in TurnState /\ turn[t].at = "running" /\ Request(t) # "team"
  BY ThreadIs DEF Return
<1>2. PICK ok \in BOOLEAN : turn' = [turn EXCEPT ![t] = [turn[t] EXCEPT !.at = "returned", !.ok = ok]]
  BY DEF Return, Put
<1>. DEFINE r == [turn[t] EXCEPT !.at = "returned", !.ok = ok]
<1>3. r \in TurnState
  BY <1>1, SetAt, SetOk DEF Phases
<1>4. /\ r.at = "returned"
      /\ r.rounds = turn[t].rounds /\ r.calls = turn[t].calls /\ r.bytes = turn[t].bytes
      /\ r.limit = turn[t].limit /\ r.open = turn[t].open /\ r.todo = turn[t].todo
      /\ r.deadline = turn[t].deadline /\ r.outcome = turn[t].outcome
  BY <1>1 DEF TurnState
<1>5. Sound(t, r, journal[t])
  BY <1>1, <1>3, <1>4, ToolMove DEF ToolStates
<1>6. t = Main => ~RunningTeam
  BY <1>1 DEF RunningTeam, Spawning
<1>7. journal' = [journal EXCEPT ![t] = journal[t]]
  BY ThreadIs DEF Return
<1>. HIDE DEF r
<1>. QED  BY <1>1, <1>2, <1>4, <1>5, <1>6, <1>7, GoKeeps DEF Return, r

LEMMA ReportKeeps == ASSUME IInv, NEW t \in Turns, Report(t) PROVE IInv'
<1>. USE DEF At
<1>1. turn[t] \in TurnState /\ turn[t].at = "returned"
  BY ThreadIs DEF Report
<1>2. CASE ~Active(t) /\ EndWith(t, Cut) /\ UNCHANGED journal
  <2>1. committed' \in BOOLEAN
    BY DEF Report, IInv, TypeOK
  <2>. QED  BY <1>1, <1>2, <2>1, CutOutcome, StopKeeps DEF Report, EndWith, Put
<1>. DEFINE j == [journal[t] EXCEPT !.finished = journal[t].finished + 1]
<1>3. /\ journal[t] \in Entry /\ journal[t].started /\ journal[t].end = "none"
      /\ journal[t].requested = journal[t].finished + 1 /\ journal[t].requested <= turn[t].calls
  BY <1>1, ThreadIs DEF Logged, Threaded, ToolStates
<1>4. Level(turn[t], j)
  BY <1>3 DEF Level, Entry
<1>5. journal' = [journal EXCEPT ![t].finished = @ + 1] => journal' = [journal EXCEPT ![t] = j]
  OBVIOUS
<1>6. t = Main => ~RunningTeam
  BY <1>1 DEF RunningTeam, Spawning
<1>. HIDE DEF j
<1>7. CASE journal' = [journal EXCEPT ![t].finished = @ + 1] /\ EndWith(t, "journal")
  <2>1. committed' \in BOOLEAN
    BY DEF Report, IInv, TypeOK
  <2>2. "journal" \in Outcomes \ Good /\ j \in Entry /\ j.requested \in {j.finished, j.finished + 1}
    BY <1>4 DEF Outcomes, Good, Level
  <2>. QED  BY <1>1, <1>4, <1>5, <1>7, <2>1, <2>2, ToolIs, EndKeeps DEF Report, EndWith, Put, Level, ToolStates
<1>8. CASE journal' = [journal EXCEPT ![t].finished = @ + 1] /\
           \E n \in Sizes : \E r \in Settled(t, Answered(t, turn[t], n, turn[t].ok)) : Put(t, r)
  <2>1. PICK n \in Sizes : \E r \in Settled(t, Answered(t, turn[t], n, turn[t].ok)) : Put(t, r)
    BY <1>8
  <2>2. PICK s \in Settled(t, Answered(t, turn[t], n, turn[t].ok)) : turn' = [turn EXCEPT ![t] = s]
    BY <2>1 DEF Put
  <2>. DEFINE q == Answered(t, turn[t], n, turn[t].ok)
  <2>3. /\ Within(t, q) /\ q.open = Len(q.todo)
        /\ q.calls = turn[t].calls /\ q.deadline = turn[t].deadline /\ q.outcome = turn[t].outcome
    <3>1. n \in Nat /\ turn[t].ok \in BOOLEAN
      BY <1>1, LimitsAssumption DEF TurnState
    <3>. QED  BY <1>1, <3>1, ToolIs, AnsweredWithin DEF ToolStates
  <2>. HIDE DEF q
  <2>4. Level(q, j)
    BY <1>4, <2>3 DEF Level
  <2>5. /\ Sound(t, s, j) /\ s.at \in {"model", "calls"}
        /\ s.deadline = turn[t].deadline /\ s.outcome = turn[t].outcome
    BY <2>2, <2>3, <2>4, SettledSound DEF q
  <2>. QED  BY <1>1, <1>5, <1>6, <1>8, <2>2, <2>5, GoKeeps DEF Report
<1>. QED  BY <1>2, <1>7, <1>8 DEF Report

\* What a prepared call may do at once is configured, passive or approved.
LEMMA InvokeKeeps == ASSUME IInv, NEW t \in Turns, Invoke(t) PROVE IInv'
<1>. USE DEF At
<1>. DEFINE r == [turn[t] EXCEPT !.calls = @ + 1]
            k == Request(t)
<1>1. /\ turn[t] \in TurnState /\ turn[t].at = "calls" /\ ~Exhausted(t) /\ Active(t)
      /\ now \in Nat
  BY ThreadIs DEF Invoke
<1>2. /\ r \in TurnState
      /\ r.rounds = turn[t].rounds /\ r.calls = turn[t].calls + 1 /\ r.limit = "none"
      /\ r.bytes = turn[t].bytes /\ r.todo = turn[t].todo
      /\ r.deadline = turn[t].deadline /\ r.outcome = turn[t].outcome /\ r.mode = turn[t].mode
      /\ r.calls <= Limits[t].calls
      /\ r.rounds <= Limits[t].rounds /\ r.bytes <= Limits[t].bytes
      /\ r.open = Len(r.todo) /\ r.open > 0
  BY <1>1, CountedIs
<1>3. \/ turn' = [turn EXCEPT ![t] = Ended(r, "journal")]
      \/ turn' = [turn EXCEPT ![t] =
                    IF turn[t].mode = "plan" THEN [r EXCEPT !.at = "returned"]
                    ELSE IF NeedsUser(t, k) THEN [r EXCEPT !.at = "sending", !.since = now]
                    ELSE [r EXCEPT !.at = "running"]]
  BY DEF Invoke, Put
<1>. HIDE DEF r, k
<1>. DEFINE j == [journal[t] EXCEPT !.requested = journal[t].requested + 1]
<1>4. journal' = [journal EXCEPT ![t] = j]
  BY DEF Invoke
<1>5. /\ journal[t] \in Entry /\ journal[t].started /\ journal[t].end = "none"
      /\ journal[t].requested = journal[t].finished /\ journal[t].requested <= turn[t].calls
      /\ turn[t].calls \in Nat
  BY <1>1, ThreadIs DEF Logged, Threaded, TurnState
<1>6. /\ j \in Entry /\ j.started /\ j.end = "none"
      /\ j.requested = j.finished + 1 /\ j.requested <= r.calls
  BY <1>2, <1>5 DEF Entry
<1>. HIDE DEF j
<1>7. t = Main => ~RunningTeam
  BY <1>1 DEF RunningTeam, Spawning
<1>8. CASE turn' = [turn EXCEPT ![t] = Ended(r, "journal")]
  <2>1. committed' \in BOOLEAN
    BY DEF Invoke, IInv, TypeOK
  <2>2. "journal" \in Outcomes \ Good
    BY DEF Outcomes, Good
  <2>. QED  BY <1>1, <1>2, <1>4, <1>6, <1>8, <2>1, <2>2, EndKeeps DEF Invoke
<1>9. ASSUME NEW s \in TurnState, s.at \in {"sending", "returned", "running"},
             s.rounds = r.rounds, s.calls = r.calls, s.bytes = r.bytes, s.limit = r.limit,
             s.open = r.open, s.todo = r.todo, s.mode = r.mode,
             s.deadline = r.deadline, s.outcome = r.outcome,
             s.at = "sending" => s.since = now,
             s.at # "returned" => turn[t].mode # "plan",
             s.at = "running" => ~NeedsUser(t, k),
             turn' = [turn EXCEPT ![t] = s]
      PROVE  IInv'
  <2>1. Bounded(t, s)
    <3>1. r.rounds \in Nat /\ Limits[t].rounds \in Nat
      BY <1>2, LimitTypes DEF TurnState
    <3>. QED  BY <1>2, <1>9, <3>1 DEF Bounded, ToolStates, Threaded
  <2>2. Owes(s) /\ Logged(s, j)
    BY <1>2, <1>6, <1>9 DEF Owes, Logged, ToolStates, Threaded
  <2>3. Sound(t, s, j)
    BY <1>6, <2>1, <2>2 DEF Sound
  <2>4. MayRun(s)
    <3>1. s.at = "running" => k \in Configured \/ (s.mode = "auto" /\ k = "read") \/ k \in approved
      BY <1>2, <1>9 DEF NeedsUser
    <3>2. k = Head(s.todo)
      BY <1>2, <1>9 DEF k, Request
    <3>3. \A a \in approved : Granted(a)
      BY DEF IInv
    <3>. QED  BY <1>2, <1>9, <3>1, <3>2, <3>3 DEF MayRun, InBrokerStates
  <2>5. (t = Main => team = NoTeam) => Timed(s, now, work[t], cancelled)
    <3>1. (t = Main => team = NoTeam) => Timed(turn[t], now, work[t], cancelled)
      BY DEF IInv, TurnOK
    <3>. QED  BY <1>1, <1>2, <1>9, <3>1 DEF Timed, InBrokerStates, Threaded, ToolStates
  <2>6. reply' = [reply EXCEPT ![t] = "none"]
    BY <1>1, Silent DEF Invoke, channel
  <2>7. /\ asks' \in Seq([turn : Turns, call : Nat]) /\ Len(asks') <= 1 /\ shown' = shown
        /\ approved' \subseteq Kinds /\ (\A a \in approved' : Granted(a)) /\ granted' = granted
        /\ committed' \in BOOLEAN
    BY DEF Invoke, channel, IInv, TypeOK
  <2>8. UNCHANGED <<cancelled, crew, now, work>>
    BY DEF Invoke
  <2>9. s.since <= now \/ s.at \notin InBrokerStates
    BY <1>1, <1>9 DEF InBrokerStates
  <2>. QED  BY <1>1, <1>4, <1>7, <1>9, <2>3, <2>4, <2>5, <2>6, <2>7, <2>8, <2>9, ThreadKeeps
<1>10. CASE turn' = [turn EXCEPT ![t] =
                    IF turn[t].mode = "plan" THEN [r EXCEPT !.at = "returned"]
                    ELSE IF NeedsUser(t, k) THEN [r EXCEPT !.at = "sending", !.since = now]
                    ELSE [r EXCEPT !.at = "running"]]
  <2>1. CASE turn[t].mode = "plan"
    <3>. DEFINE s == [r EXCEPT !.at = "returned"]
    <3>1. s \in TurnState
      BY <1>2, SetAt DEF Phases
    <3>2. /\ s.at = "returned" /\ s.rounds = r.rounds /\ s.calls = r.calls /\ s.bytes = r.bytes
          /\ s.limit = r.limit /\ s.open = r.open /\ s.todo = r.todo /\ s.mode = r.mode
          /\ s.deadline = r.deadline /\ s.outcome = r.outcome
      BY <1>2 DEF TurnState
    <3>3. turn' = [turn EXCEPT ![t] = s]
      BY <1>10, <2>1
    <3>. HIDE DEF s
    <3>. QED  BY <1>9, <3>1, <3>2, <3>3
  <2>2. CASE turn[t].mode # "plan" /\ NeedsUser(t, k)
    <3>. DEFINE s == [r EXCEPT !.at = "sending", !.since = now]
    <3>1. s \in TurnState
      BY <1>1, <1>2, SetAt, SetSince DEF Phases
    <3>2. /\ s.at = "sending" /\ s.rounds = r.rounds /\ s.calls = r.calls /\ s.bytes = r.bytes
          /\ s.limit = r.limit /\ s.open = r.open /\ s.todo = r.todo /\ s.mode = r.mode
          /\ s.deadline = r.deadline /\ s.outcome = r.outcome /\ s.since = now
      BY <1>2 DEF TurnState
    <3>3. turn' = [turn EXCEPT ![t] = s]
      BY <1>10, <2>2
    <3>. HIDE DEF s
    <3>. QED  BY <1>9, <2>2, <3>1, <3>2, <3>3
  <2>3. CASE turn[t].mode # "plan" /\ ~NeedsUser(t, k)
    <3>. DEFINE s == [r EXCEPT !.at = "running"]
    <3>1. s \in TurnState
      BY <1>2, SetAt DEF Phases
    <3>2. /\ s.at = "running" /\ s.rounds = r.rounds /\ s.calls = r.calls /\ s.bytes = r.bytes
          /\ s.limit = r.limit /\ s.open = r.open /\ s.todo = r.todo /\ s.mode = r.mode
          /\ s.deadline = r.deadline /\ s.outcome = r.outcome
      BY <1>2 DEF TurnState
    <3>3. turn' = [turn EXCEPT ![t] = s]
      BY <1>10, <2>3
    <3>. HIDE DEF s
    <3>. QED  BY <1>9, <2>3, <3>1, <3>2, <3>3
  <2>. QED  BY <2>1, <2>2, <2>3
<1>. QED  BY <1>3, <1>8, <1>10

----------------------------------------------------------------------------
(* The approval channel.                                                   *)

LEMMA SendKeeps == ASSUME IInv, NEW t \in Turns, Send(t) PROVE IInv'
<1>. USE DEF At
<1>1. turn[t] \in TurnState /\ turn[t].at = "sending"
  BY ThreadIs DEF Send
<1>. DEFINE r == [turn[t] EXCEPT !.at = "waiting"]
<1>2. r \in TurnState
  BY <1>1, SetAt DEF Phases
<1>3. /\ r.at = "waiting" /\ r.mode = turn[t].mode /\ r.since = turn[t].since
      /\ r.rounds = turn[t].rounds /\ r.calls = turn[t].calls /\ r.bytes = turn[t].bytes
      /\ r.limit = turn[t].limit /\ r.open = turn[t].open /\ r.todo = turn[t].todo
      /\ r.deadline = turn[t].deadline /\ r.outcome = turn[t].outcome
  BY <1>1 DEF TurnState
<1>4. turn' = [turn EXCEPT ![t] = r]
  BY DEF Send, Put
<1>. HIDE DEF r
<1>5. Sound(t, r, journal[t])
  BY <1>1, <1>2, <1>3, ToolMove DEF ToolStates
<1>6. MayRun(r)
  <2>1. turn[t].mode # "plan"
    BY <1>1 DEF IInv, AllowedOK, InBrokerStates
  <2>. QED  BY <1>3, <2>1 DEF MayRun
<1>7. /\ (t = Main => team = NoTeam) => Timed(r, now, work[t], cancelled)
      /\ r.since <= now
  <2>1. TurnOK(t)
    BY DEF IInv
  <2>. QED  BY <1>1, <1>3, <2>1 DEF TurnOK, Timed, InBrokerStates, Threaded, ToolStates
<1>8. t = Main => ~RunningTeam
  BY <1>1 DEF RunningTeam, Spawning
<1>9. reply' = [reply EXCEPT ![t] = "none"]
  BY <1>1, Silent DEF Send
<1>10. /\ asks' \in Seq([turn : Turns, call : Nat]) /\ Len(asks') <= 1
  <2>1. Ask(t) \in [turn : Turns, call : Nat]
    BY <1>1 DEF Ask, TurnState
  <2>. QED  BY <2>1 DEF Send
<1>11. /\ shown' = shown /\ approved' \subseteq Kinds /\ (\A a \in approved' : Granted(a))
       /\ granted' = granted /\ committed' \in BOOLEAN
  BY DEF Send, IInv, TypeOK
<1>12. journal' = [journal EXCEPT ![t] = journal[t]] /\ UNCHANGED <<cancelled, crew, now, work>>
  BY ThreadIs DEF Send
<1>. QED  BY <1>1, <1>3, <1>4, <1>5, <1>6, <1>7, <1>8, <1>9, <1>10, <1>11, <1>12, ThreadKeeps

LEMMA HearKeeps == ASSUME IInv, NEW t \in Turns, Hear(t) PROVE IInv'
<1>. USE DEF At
<1>. DEFINE to == IF reply[t] = "allow" THEN "running" ELSE "returned"
            r == Heard(t, to)
            d == turn[t].deadline + (now - turn[t].since)
<1>1. turn[t] \in TurnState /\ turn[t].at = "waiting" /\ ~cancelled
  BY ThreadIs DEF Hear
<1>2. turn[t].since <= now /\ turn[t].since \in Nat /\ now \in Nat /\ turn[t].deadline \in Nat
  BY <1>1, ThreadIs DEF IInv, TurnOK, InBrokerStates, TurnState
<1>3. r = [turn[t] EXCEPT !.at = to, !.since = 0, !.deadline = d]
  <2>. PICK q \in TurnState : q = turn[t]
    BY <1>1
  <2>1. [q EXCEPT !.at = to, !.since = 0, !.deadline = @ + (now - q.since)]
          = [q EXCEPT !.at = to, !.since = 0, !.deadline = q.deadline + (now - q.since)]
    BY DEF TurnState
  <2>. QED  BY <2>1 DEF Heard
<1>4. r \in TurnState
  <2>1. d \in Nat
    BY <1>2
  <2>2. to \in Phases /\ 0 \in Nat
    BY DEF Phases
  <2>. HIDE DEF d, to, r
  <2>3. [turn[t] EXCEPT !.at = to, !.since = 0] \in TurnState
    BY <1>1, <2>2, SetAt, SetSince
  <2>4. [turn[t] EXCEPT !.at = to, !.since = 0, !.deadline = d] \in TurnState
    BY <2>1, <2>3, SetDeadline
  <2>. QED  BY <1>3, <2>4
<1>5. /\ r.at = to /\ r.mode = turn[t].mode
      /\ r.rounds = turn[t].rounds /\ r.calls = turn[t].calls /\ r.bytes = turn[t].bytes
      /\ r.limit = turn[t].limit /\ r.open = turn[t].open /\ r.todo = turn[t].todo
      /\ r.deadline = d /\ r.outcome = turn[t].outcome
  <2>. HIDE DEF d, to, r
  <2>. QED  BY <1>1, <1>3 DEF TurnState
<1>6. turn' = [turn EXCEPT ![t] = r]
  BY DEF Hear, Put
<1>. HIDE DEF r
<1>7. Sound(t, r, journal[t])
  BY <1>1, <1>4, <1>5, ToolMove DEF ToolStates
<1>8. turn[t].mode # "plan" /\ (reply[t] = "allow" => Granted(Request(t)))
  BY <1>1 DEF IInv, AllowedOK, InBrokerStates
<1>9. MayRun(r)
  BY <1>5, <1>8 DEF MayRun, Request, InBrokerStates
<1>10. (t = Main => team = NoTeam) => Timed(r, now, work[t], cancelled)
  <2>. SUFFICES ASSUME t = Main => team = NoTeam
                PROVE  Timed(r, now, work[t], cancelled)
    OBVIOUS
  <2>1. Timed(turn[t], now, work[t], cancelled)
    BY DEF IInv, TurnOK
  <2>2. work[t] = TurnTimeout \/ turn[t].since + TurnTimeout <= turn[t].deadline + work[t]
    BY <1>1, <2>1 DEF Timed, InBrokerStates
  <2>3. TurnTimeout \in Nat /\ work[t] \in Nat
    BY ThreadIs, LimitsAssumption
  <2>4. work[t] = TurnTimeout \/ now + TurnTimeout <= d + work[t]
    BY <1>2, <2>2, <2>3
  <2>. QED  BY <1>5, <2>1, <2>4 DEF Timed, InBrokerStates, Threaded, ToolStates
<1>11. t = Main => ~RunningTeam
  BY <1>1 DEF RunningTeam, Spawning
<1>12. /\ approved' \subseteq Kinds /\ (\A a \in approved' : Granted(a))
  <2>1. Request(t) \in Kinds
    BY <1>1, ToolIs DEF ToolStates
  <2>2. approved \subseteq Kinds /\ \A a \in approved : Granted(a)
    BY DEF IInv, TypeOK
  <2>. QED  BY <1>8, <2>1, <2>2 DEF Hear
<1>13. /\ reply' = [reply EXCEPT ![t] = "none"]
       /\ asks' \in Seq([turn : Turns, call : Nat]) /\ Len(asks') <= 1 /\ shown' = shown
       /\ granted' = granted /\ committed' \in BOOLEAN
  BY DEF Hear, IInv, TypeOK
<1>14. journal' = [journal EXCEPT ![t] = journal[t]] /\ UNCHANGED <<cancelled, crew, now, work>>
  BY ThreadIs DEF Hear
<1>15. r.at \notin InBrokerStates /\ r.at \notin {"idle", "spawned", "over"}
  BY <1>5 DEF InBrokerStates
<1>. QED  BY <1>1, <1>6, <1>7, <1>9, <1>10, <1>11, <1>12, <1>13, <1>14, <1>15, ThreadKeeps

LEMMA GiveUpKeeps == ASSUME IInv, NEW t \in Turns, GiveUp(t) PROVE IInv'
<1>. USE DEF At
<1>1. turn[t] \in TurnState /\ turn[t].at \in {"sending", "waiting"} /\ cancelled
  BY ThreadIs DEF GiveUp
<1>. DEFINE r == [turn[t] EXCEPT !.at = "returned", !.since = 0]
<1>2. r \in TurnState
  BY <1>1, SetAt, SetSince DEF Phases
<1>3. /\ r.at = "returned"
      /\ r.rounds = turn[t].rounds /\ r.calls = turn[t].calls /\ r.bytes = turn[t].bytes
      /\ r.limit = turn[t].limit /\ r.open = turn[t].open /\ r.todo = turn[t].todo
      /\ r.deadline = turn[t].deadline /\ r.outcome = turn[t].outcome
  BY <1>1 DEF TurnState
<1>4. turn' = [turn EXCEPT ![t] = r]
  BY DEF GiveUp, Put
<1>. HIDE DEF r
<1>5. Sound(t, r, journal[t])
  BY <1>1, <1>2, <1>3, ToolMove DEF ToolStates
<1>6. MayRun(r) /\ r.at \notin InBrokerStates
  BY <1>3 DEF MayRun, InBrokerStates
<1>7. (t = Main => team = NoTeam) => Timed(r, now, work[t], cancelled)
  <2>1. (t = Main => team = NoTeam) => Timed(turn[t], now, work[t], cancelled)
    BY DEF IInv, TurnOK
  <2>. QED  BY <1>1, <1>3, <2>1 DEF Timed, InBrokerStates, Threaded, ToolStates
<1>8. t = Main => ~RunningTeam
  BY <1>1 DEF RunningTeam, Spawning
<1>9. /\ reply' = [reply EXCEPT ![t] = "none"]
      /\ asks' \in Seq([turn : Turns, call : Nat]) /\ Len(asks') <= 1 /\ shown' = shown
      /\ approved' \subseteq Kinds /\ (\A a \in approved' : Granted(a))
      /\ granted' = granted /\ committed' \in BOOLEAN
  BY DEF GiveUp, IInv, TypeOK
<1>10. journal' = [journal EXCEPT ![t] = journal[t]] /\ UNCHANGED <<cancelled, crew, now, work>>
  BY ThreadIs DEF GiveUp
<1>. QED  BY <1>1, <1>3, <1>4, <1>5, <1>6, <1>7, <1>8, <1>9, <1>10, ThreadKeeps

----------------------------------------------------------------------------
(* The beginning and the end of a turn.                                    *)

LEMMA EdgeKeeps ==
    ASSUME IInv, NEW t \in Turns, NEW r, NEW j,
           turn' = [turn EXCEPT ![t] = r], journal' = [journal EXCEPT ![t] = j],
           Sound(t, r, j), r.at \in {"model", "over"},
           turn[t].at = "ending" \/ turn[t].at = IF t = Main THEN "idle" ELSE "spawned",
           (t = Main => team = NoTeam) => Timed(r, now, work[t], cancelled),
           \/ registry' = registry
           \/ /\ t \in Helpers /\ r.at = "over"
              /\ \E v \in {"done", "failed"} : registry' = [registry EXCEPT ![t] = v],
           UNCHANGED <<committed, cancelled, channel, team, now, work>>
    PROVE  IInv'
<1>1. /\ turn \in [Turns -> TurnState] /\ journal \in [Turns -> Entry]
      /\ registry \in [Helpers -> {"none", "working", "done", "failed"}]
  BY DEF IInv, TypeOK, Entry
<1>2. turn'[t] = r /\ journal'[t] = j
  BY <1>1
<1>3. \A u \in Turns : u # t => turn'[u] = turn[u] /\ journal'[u] = journal[u]
  BY <1>1
<1>4. TypeOK'
  <2>1. turn' \in [Turns -> TurnState] /\ journal' \in [Turns -> Entry]
    BY <1>1 DEF Sound
  <2>2. registry' \in [Helpers -> {"none", "working", "done", "failed"}]
    BY <1>1
  <2>. QED  BY <2>1, <2>2 DEF IInv, TypeOK, Entry, channel
<1>5. \A u \in Turns : TurnOK(u)'
  <2>. SUFFICES ASSUME NEW u \in Turns PROVE TurnOK(u)'
    OBVIOUS
  <2>1. CASE u = t
    BY <2>1, <1>2 DEF TurnOK, Fresh, Sound, InBrokerStates
  <2>2. CASE u # t
    <3>1. TurnOK(u)
      BY DEF IInv
    <3>. QED  BY <2>2, <3>1, <1>3 DEF TurnOK
  <2>. QED  BY <2>1, <2>2
<1>6. \A u \in Turns : AllowedOK(u)'
  <2>. SUFFICES ASSUME NEW u \in Turns PROVE AllowedOK(u)'
    OBVIOUS
  <2>1. AllowedOK(u)
    BY DEF IInv
  <2>2. CASE u = t
    BY <2>1, <2>2, <1>2 DEF AllowedOK, At, InBrokerStates, channel
  <2>3. CASE u # t
    BY <2>1, <2>3, <1>3 DEF AllowedOK, Request, At, Granted, channel
  <2>. QED  BY <2>2, <2>3
<1>7. \A k \in approved' : Granted(k)'
  BY DEF IInv, Granted, channel
<1>8. CrewOK'
  <2>1. CrewOK
    BY DEF IInv
  <2>2. ~At(Main, "spawned")'
    BY <1>2, <1>3, <2>1 DEF CrewOK, At, Turns
  <2>3. (team.state = "none" => team = NoTeam)'
    BY <2>1 DEF CrewOK
  <2>4. ASSUME NEW h \in Helpers
        PROVE  (/\ registry[h] = "none" => At(h, "idle")
                /\ ~At(h, "idle") => h \in team.members
                /\ team.state # "short" /\ Working(h) => RunningTeam
                /\ registry[h] \in {"done", "failed"} => At(h, "over"))'
    <3>1. h \in Turns /\ h # Main /\ Main \in Turns
      BY TurnsAssumption DEF Turns
    <3>2. CASE h = t
      <4>1. RunningTeam' = RunningTeam
        BY <3>1, <3>2, <1>3 DEF RunningTeam, Spawning, At, Request
      <4>2. turn[h].at \in {"spawned", "ending"}
        BY <3>1, <3>2
      <4>3. registry'[h] # "none" /\ (registry'[h] \in {"done", "failed"} => r.at = "over")
        <5>1. registry[h] \notin {"none", "done", "failed"}
          BY <2>1, <4>2 DEF CrewOK, At
        <5>. QED  BY <1>1, <3>2, <5>1
      <4>. QED  BY <4>1, <4>2, <4>3, <3>1, <3>2, <1>2, <2>1 DEF CrewOK, At, Working
    <3>3. CASE h # t
      <4>1. registry'[h] = registry[h]
        BY <3>3, <1>1
      <4>2. CASE t = Main
        <5>1. ~RunningTeam
          BY <4>2 DEF RunningTeam, Spawning, At
        <5>. QED  BY <4>1, <5>1, <3>1, <3>3, <1>3, <2>1 DEF CrewOK, At, Working
      <4>3. CASE t # Main
        <5>1. RunningTeam' = RunningTeam
          BY <4>3, <3>1, <1>3 DEF RunningTeam, Spawning, At, Request
        <5>. QED  BY <4>1, <5>1, <3>1, <3>3, <1>3, <2>1 DEF CrewOK, At, Working
      <4>. QED  BY <4>2, <4>3
    <3>. QED  BY <3>2, <3>3
  <2>. QED  BY <2>2, <2>3, <2>4 DEF CrewOK
<1>. QED  BY <1>4, <1>5, <1>6, <1>7, <1>8 DEF IInv

\* A turn before its beginning.
LEMMA FreshIs ==
    ASSUME IInv, NEW t \in Turns, turn[t].at \in {"idle", "spawned"}
    PROVE  /\ turn[t].rounds = 0 /\ turn[t].calls = 0 /\ turn[t].bytes = 0
           /\ turn[t].limit = "none" /\ turn[t].open = 0 /\ turn[t].todo = <<>>
           /\ turn[t].outcome = "none"
           /\ journal[t] = [started |-> FALSE, requested |-> 0, finished |-> 0, end |-> "none"]
<1>1. turn[t] = [Idle EXCEPT !.at = turn[t].at]
  BY DEF IInv, TurnOK, Fresh
<1>. PICK p : p = turn[t].at
  OBVIOUS
<1>2. turn[t] = [Idle EXCEPT !.at = p]
  BY <1>1
<1>3. journal[t] = [started |-> FALSE, requested |-> 0, finished |-> 0, end |-> "none"]
  BY ThreadIs DEF Logged
<1>. QED  BY <1>2, <1>3, IdleType DEF Idle, TurnState

\* A turn that could not be journaled is over before it began.
LEMMA UnbegunKeeps ==
    ASSUME IInv, NEW t \in Turns, turn[t].at = IF t = Main THEN "idle" ELSE "spawned",
           turn' = [turn EXCEPT ![t] = [turn[t] EXCEPT !.at = "over", !.outcome = "journal",
                                                      !.result = "error"]],
           registry' = registry \/ (t \in Helpers /\ registry' = [registry EXCEPT ![t] = "failed"]),
           UNCHANGED <<journal, committed, cancelled, channel, team, now, work>>
    PROVE  IInv'
<1>1. turn[t] \in TurnState
  BY ThreadIs
<1>. DEFINE r == [turn[t] EXCEPT !.at = "over", !.outcome = "journal", !.result = "error"]
<1>2. r \in TurnState
  BY <1>1, SetAt, SetOutcome, SetResult DEF Phases, Outcomes
<1>3. /\ r.at = "over" /\ r.outcome = "journal" /\ r.rounds = turn[t].rounds
      /\ r.calls = turn[t].calls
  BY <1>1 DEF TurnState
<1>. HIDE DEF r
<1>4. Sound(t, r, journal[t])
  <2>1. Bounded(t, r)
    BY <1>3, FreshIs, LimitTypes DEF Bounded, Threaded, ToolStates
  <2>2. Owes(r) /\ Logged(r, journal[t])
    BY <1>3, FreshIs DEF Owes, Logged, Threaded, ToolStates
  <2>. QED  BY <1>2, <2>1, <2>2, ThreadIs DEF Sound
<1>5. Timed(r, now, work[t], cancelled)
  BY <1>3 DEF Timed, Threaded, ToolStates, InBrokerStates
<1>6. journal' = [journal EXCEPT ![t] = journal[t]]
  BY ThreadIs
<1>. QED  BY <1>3, <1>4, <1>5, <1>6, EdgeKeeps DEF r

LEMMA BeginKeeps ==
    ASSUME IInv, NEW t \in Turns, turn[t].at = IF t = Main THEN "idle" ELSE "spawned",
           NEW mode \in {"auto", "negotiate", "plan"}, Begin(t, mode),
           UNCHANGED <<committed, cancelled, channel, team, now, work>>
    PROVE  IInv'
<1>1. turn[t] \in TurnState /\ now \in Nat /\ TurnTimeout \in Nat
  BY ThreadIs, LimitsAssumption
<1>2. CASE /\ journal' = [journal EXCEPT ![t].started = TRUE]
           /\ Put(t, Looped(t, [turn[t] EXCEPT !.mode = mode, !.deadline = now + TurnTimeout]))
           /\ UNCHANGED registry
  <2>. DEFINE q == [turn[t] EXCEPT !.mode = mode, !.deadline = now + TurnTimeout]
              j == [journal[t] EXCEPT !.started = TRUE]
  <2>1. q \in TurnState
    <3>1. now + TurnTimeout \in Nat
      BY <1>1
    <3>. QED  BY <1>1, <3>1, SetMode, SetDeadline
  <2>2. /\ q.rounds = 0 /\ q.calls = 0 /\ q.bytes = 0 /\ q.limit = "none" /\ q.open = 0
        /\ q.outcome = "none" /\ q.deadline = now + TurnTimeout
    BY <1>1, FreshIs DEF TurnState
  <2>3. journal' = [journal EXCEPT ![t] = j]
    BY <1>2
  <2>4. Level(q, j)
    <3>1. /\ journal[t] \in Entry /\ journal[t].requested = 0 /\ journal[t].finished = 0
          /\ journal[t].end = "none"
      BY FreshIs, ThreadIs
    <3>2. j \in Entry /\ j.started /\ j.requested = 0 /\ j.finished = 0 /\ j.end = "none"
      BY <3>1 DEF Entry
    <3>. HIDE DEF q, j
    <3>. QED  BY <2>2, <3>2 DEF Level
  <2>5. turn' = [turn EXCEPT ![t] = Looped(t, q)]
    BY <1>2 DEF Put
  <2>. HIDE DEF q, j
  <2>6. Within(t, q)
    BY <2>1, <2>2, LimitTypes DEF Within
  <2>7. /\ Sound(t, Looped(t, q), j) /\ Looped(t, q).at = "model"
        /\ Looped(t, q).deadline = now + TurnTimeout /\ Looped(t, q).outcome = "none"
    BY <2>1, <2>2, <2>4, <2>6, LoopedSound, LoopedIs
  <2>8. Timed(Looped(t, q), now, work[t], cancelled)
    <3>1. work[t] \in Nat
      BY ThreadIs, <1>1
    <3>2. now + TurnTimeout <= now + TurnTimeout + work[t]
      BY <1>1, <3>1
    <3>. QED  BY <2>7, <3>2 DEF Timed, InBrokerStates
  <2>. QED  BY <1>2, <2>3, <2>5, <2>7, <2>8, EdgeKeeps
<1>3. CASE /\ Put(t, [turn[t] EXCEPT !.at = "over", !.outcome = "journal", !.result = "error"])
           /\ registry' = IF t = Main THEN registry ELSE [registry EXCEPT ![t] = "failed"]
           /\ UNCHANGED journal
  BY <1>3, UnbegunKeeps DEF Put, Turns
<1>. QED  BY <1>2, <1>3 DEF Begin

LEMMA ConcludeKeeps == ASSUME IInv, NEW t \in Turns, Conclude(t) PROVE IInv'
<1>. USE DEF At
<1>1. turn[t] \in TurnState /\ turn[t].at = "ending"
  BY ThreadIs DEF Conclude
<1>2. PICK recorded \in BOOLEAN :
         LET result == IF recorded /\ turn[t].outcome \in Good THEN "ok" ELSE "error"
         IN  /\ journal' = IF recorded
                           THEN [journal EXCEPT ![t].end = Status(turn[t].outcome)]
                           ELSE journal
             /\ Put(t, [turn[t] EXCEPT !.at = "over", !.result = result])
             /\ registry' = IF t = Main THEN registry
                            ELSE [registry EXCEPT ![t] = IF result = "ok" THEN "done" ELSE "failed"]
  BY DEF Conclude
<1>. DEFINE result == IF recorded /\ turn[t].outcome \in Good THEN "ok" ELSE "error"
            r == [turn[t] EXCEPT !.at = "over", !.result = result]
            j == IF recorded THEN [journal[t] EXCEPT !.end = Status(turn[t].outcome)] ELSE journal[t]
<1>3. r \in TurnState
  BY <1>1, SetAt, SetResult DEF Phases
<1>4. /\ r.at = "over" /\ r.outcome = turn[t].outcome /\ r.rounds = turn[t].rounds
      /\ r.calls = turn[t].calls
  BY <1>1 DEF TurnState
<1>5. journal' = [journal EXCEPT ![t] = j]
  BY <1>2, ThreadIs
<1>6. \/ registry' = registry
      \/ t \in Helpers /\ \E v \in {"done", "failed"} : registry' = [registry EXCEPT ![t] = v]
  BY <1>2 DEF Turns
<1>7. turn' = [turn EXCEPT ![t] = r]
  BY <1>2 DEF Put
<1>8. /\ journal[t] \in Entry /\ journal[t].started /\ journal[t].end = "none"
      /\ journal[t].requested <= turn[t].calls
      /\ journal[t].requested \in {journal[t].finished, journal[t].finished + 1}
      /\ turn[t].outcome \in Good => journal[t].requested = journal[t].finished
  BY <1>1, ThreadIs DEF Logged, Threaded
<1>9. /\ j \in Entry /\ j.started /\ j.requested = journal[t].requested
      /\ j.finished = journal[t].finished
      /\ j.end # "none" => (j.end = "complete" <=> turn[t].outcome = "answered")
  <2>1. /\ Status(turn[t].outcome) \in {"complete", "cancelled", "limit_reached", "failed"}
        /\ Status(turn[t].outcome) = "complete" <=> turn[t].outcome = "answered"
    BY <1>1 DEF Status, TurnState, Outcomes
  <2>. QED  BY <1>8, <2>1 DEF Entry
<1>. HIDE DEF r, j
<1>10. Sound(t, r, j)
  <2>1. Bounded(t, r) /\ Owes(r)
    BY <1>4, ThreadIs DEF Bounded, Owes, Threaded, ToolStates
  <2>2. Logged(r, j)
    BY <1>4, <1>8, <1>9 DEF Logged, Threaded, ToolStates
  <2>. QED  BY <1>3, <1>9, <2>1, <2>2 DEF Sound
<1>11. (t = Main => team = NoTeam) => Timed(r, now, work[t], cancelled)
  <2>1. (t = Main => team = NoTeam) => Timed(turn[t], now, work[t], cancelled)
    BY DEF IInv, TurnOK
  <2>. QED  BY <1>4, <2>1 DEF Timed, InBrokerStates, Threaded, ToolStates
<1>12. UNCHANGED <<committed, cancelled, channel, team, now, work>>
  BY DEF Conclude
<1>. QED  BY <1>1, <1>4, <1>5, <1>6, <1>7, <1>10, <1>11, <1>12, EdgeKeeps

LEMMA StartKeeps == ASSUME IInv, Start PROVE IInv'
<1>1. PICK mode \in {"auto", "negotiate", "plan"} : Begin(Main, mode)
  BY LimitsAssumption DEF Start
<1>2. Main \in Turns
  BY DEF Turns
<1>. QED  BY <1>1, <1>2, BeginKeeps DEF Start, At

LEMMA HelpKeeps == ASSUME IInv, NEW h \in Helpers, Help(h) PROVE IInv'
<1>1. h \in Turns /\ h # Main /\ turn[h].at = "spawned"
  BY TurnsAssumption DEF Turns, Help, At
<1>2. CASE Begin(h, "auto")
  BY <1>1, <1>2, BeginKeeps DEF Help
<1>3. CASE /\ Put(h, [turn[h] EXCEPT !.at = "over", !.outcome = "journal", !.result = "error"])
           /\ UNCHANGED <<journal, registry>>
  BY <1>1, <1>3, UnbegunKeeps DEF Help, Put
<1>. QED  BY <1>2, <1>3 DEF Help

----------------------------------------------------------------------------
(* The team.                                                               *)

LEMMA MainIs ==
    /\ Main \in Turns
    /\ \A h \in Helpers : h \in Turns /\ h # Main
BY TurnsAssumption DEF Turns

\* The main thread leaves run_team: with everyone's report, or short of one.
LEMMA TeamReturns ==
    ASSUME IInv, RunningTeam, NEW ok \in BOOLEAN, NEW state \in {"joined", "short"},
           turn' = [turn EXCEPT ![Main] = [turn[Main] EXCEPT !.at = "returned", !.ok = ok]],
           team' = [team EXCEPT !.state = state],
           state = "joined" => Joined,
           registry' \in [Helpers -> {"none", "working", "done", "failed"}],
           \A h \in Helpers : registry'[h] = registry[h] \/ registry'[h] = "working",
           UNCHANGED <<journal, committed, cancelled, channel, now, work>>
    PROVE  IInv'
<1>1. /\ turn \in [Turns -> TurnState] /\ turn[Main] \in TurnState
      /\ turn[Main].at = "running" /\ team.state = "running"
      /\ team \in [access : {"none", "read", "write"}, members : SUBSET Helpers,
                   state : {"none", "running", "joined", "short"}]
  BY MainIs DEF IInv, TypeOK, RunningTeam, Spawning, At
<1>. DEFINE r == [turn[Main] EXCEPT !.at = "returned", !.ok = ok]
<1>2. r \in TurnState
  BY <1>1, SetAt, SetOk DEF Phases
<1>3. /\ r.at = "returned"
      /\ r.rounds = turn[Main].rounds /\ r.calls = turn[Main].calls /\ r.bytes = turn[Main].bytes
      /\ r.limit = turn[Main].limit /\ r.open = turn[Main].open /\ r.todo = turn[Main].todo
  BY <1>1 DEF TurnState
<1>4. turn' = [turn EXCEPT ![Main] = r]
  OBVIOUS
<1>. HIDE DEF r
<1>5. turn'[Main] = r /\ \A h \in Helpers : turn'[h] = turn[h]
  BY <1>1, <1>4, MainIs
<1>6. team' \in [access : {"none", "read", "write"}, members : SUBSET Helpers,
                   state : {"none", "running", "joined", "short"}]
      /\ team'.state = state /\ team'.members = team.members
  BY <1>1
<1>7. Sound(Main, r, journal[Main])
  BY <1>1, <1>2, <1>3, MainIs, ToolMove DEF ToolStates
<1>8. TypeOK'
  <2>1. turn' \in [Turns -> TurnState]
    BY <1>1, <1>2, <1>4
  <2>. QED  BY <1>6, <2>1 DEF IInv, TypeOK, channel
<1>9. team' # NoTeam
  BY <1>6 DEF NoTeam
<1>10. \A u \in Turns : TurnOK(u)'
  <2>1. TurnOK(Main)'
    BY <1>3, <1>5, <1>7, <1>9 DEF TurnOK, Fresh, Sound, InBrokerStates
  <2>2. ASSUME NEW h \in Helpers PROVE TurnOK(h)'
    <3>1. TurnOK(h)
      BY MainIs DEF IInv
    <3>. QED  BY <1>5, <3>1, MainIs DEF TurnOK
  <2>. QED  BY <2>1, <2>2 DEF Turns
<1>11. \A u \in Turns : AllowedOK(u)'
  <2>1. AllowedOK(Main)'
    <3>1. AllowedOK(Main)
      BY MainIs DEF IInv
    <3>. QED  BY <1>1, <1>3, <1>5, <3>1 DEF AllowedOK, At, InBrokerStates, channel
  <2>2. ASSUME NEW h \in Helpers PROVE AllowedOK(h)'
    <3>1. AllowedOK(h)
      BY MainIs DEF IInv
    <3>. QED  BY <1>5, <3>1 DEF AllowedOK, Request, At, Granted, channel
  <2>. QED  BY <2>1, <2>2 DEF Turns
<1>12. \A k \in approved' : Granted(k)'
  BY DEF IInv, Granted, channel
<1>13. CrewOK'
  <2>1. CrewOK
    BY DEF IInv
  <2>2. ~At(Main, "spawned")'
    BY <1>3, <1>5 DEF At
  <2>3. ASSUME NEW h \in Helpers
        PROVE  (/\ registry[h] = "none" => At(h, "idle")
                /\ ~At(h, "idle") => h \in team.members
                /\ team.state # "short" /\ Working(h) => RunningTeam
                /\ registry[h] \in {"done", "failed"} => At(h, "over"))'
    <3>1. /\ registry'[h] = "none" => At(h, "idle")
          /\ ~At(h, "idle") => h \in team.members
          /\ registry'[h] \in {"done", "failed"} => At(h, "over")
      BY <2>1 DEF CrewOK
    <3>2. state = "joined" => ~Working(h)
      BY <3>1 DEF Joined, At, Working
    <3>. QED  BY <1>5, <1>6, <3>1, <3>2 DEF At, Working
  <2>. QED  BY <1>6, <2>2, <2>3 DEF CrewOK
<1>. QED  BY <1>8, <1>10, <1>11, <1>12, <1>13 DEF IInv

LEMMA ReconcileKeeps == ASSUME IInv, Reconcile PROVE IInv'
<1>. DEFINE ok == ~cancelled /\ \A h \in team.members : turn[h].result = "ok"
<1>1. RunningTeam /\ Joined /\ turn' = [turn EXCEPT ![Main] = [turn[Main] EXCEPT !.at = "returned", !.ok = ok]]
  BY DEF Reconcile, Put
<1>. PICK b \in BOOLEAN : b = ok
  OBVIOUS
<1>2. turn' = [turn EXCEPT ![Main] = [turn[Main] EXCEPT !.at = "returned", !.ok = b]]
  BY <1>1
<1>3. registry' \in [Helpers -> {"none", "working", "done", "failed"}] /\ registry' = registry
  BY DEF Reconcile, IInv, TypeOK
<1>. QED  BY <1>1, <1>2, <1>3, TeamReturns DEF Reconcile

LEMMA AssembleKeeps == ASSUME IInv, Assemble PROVE IInv'
<1>1. CASE \E access \in {"read", "write"}, members \in SUBSET Helpers :
              /\ team = NoTeam /\ Cardinality(members) >= 2 /\ ~cancelled
              /\ team' = [access |-> access, members |-> members, state |-> "running"]
              /\ UNCHANGED turn
  <2>1. PICK access \in {"read", "write"}, members \in SUBSET Helpers :
              /\ team = NoTeam
              /\ team' = [access |-> access, members |-> members, state |-> "running"]
              /\ UNCHANGED turn
    BY <1>1
  <2>2. TypeOK'
    BY <2>1 DEF Assemble, IInv, TypeOK, channel
  <2>3. \A u \in Turns : TurnOK(u)'
    <3>1. team' # NoTeam
      BY <2>1 DEF NoTeam
    <3>2. ASSUME NEW u \in Turns PROVE TurnOK(u)'
      <4>1. TurnOK(u)
        BY DEF IInv
      <4>. QED  BY <2>1, <3>1, <4>1 DEF TurnOK, Assemble
    <3>. QED  BY <3>2
  <2>4. \A u \in Turns : AllowedOK(u)'
    <3>1. ASSUME NEW u \in Turns PROVE AllowedOK(u)'
      <4>1. AllowedOK(u)
        BY DEF IInv
      <4>. QED  BY <2>1, <4>1 DEF AllowedOK, Request, At, Granted, channel, Assemble
    <3>. QED  BY <3>1
  <2>5. \A k \in approved' : Granted(k)'
    BY DEF IInv, Granted, channel, Assemble
  <2>6. CrewOK'
    <3>1. CrewOK
      BY DEF IInv
    <3>2. \A h \in Helpers : At(h, "idle") /\ ~Working(h)
      BY <2>1, <3>1 DEF CrewOK, NoTeam, At, Working
    <3>. QED  BY <2>1, <3>1, <3>2 DEF CrewOK, At, Working, Assemble
  <2>. QED  BY <2>2, <2>3, <2>4, <2>5, <2>6 DEF IInv
<1>2. CASE /\ Put(Main, [turn[Main] EXCEPT !.at = "returned", !.ok = FALSE])
           /\ UNCHANGED team
  <2>1. turn[Main] \in TurnState /\ turn[Main].at = "running" /\ ~RunningTeam
    BY MainIs, ThreadIs DEF Assemble, Spawning, RunningTeam, At
  <2>. DEFINE r == [turn[Main] EXCEPT !.at = "returned", !.ok = FALSE]
  <2>2. r \in TurnState
    BY <2>1, SetAt, SetOk DEF Phases
  <2>3. /\ r.at = "returned"
        /\ r.rounds = turn[Main].rounds /\ r.calls = turn[Main].calls /\ r.bytes = turn[Main].bytes
        /\ r.limit = turn[Main].limit /\ r.open = turn[Main].open /\ r.todo = turn[Main].todo
        /\ r.deadline = turn[Main].deadline /\ r.outcome = turn[Main].outcome
    BY <2>1 DEF TurnState
  <2>4. turn' = [turn EXCEPT ![Main] = r]
    BY <1>2 DEF Put
  <2>. HIDE DEF r
  <2>5. Sound(Main, r, journal[Main])
    BY <2>1, <2>2, <2>3, MainIs, ToolMove DEF ToolStates
  <2>6. journal' = [journal EXCEPT ![Main] = journal[Main]]
    BY MainIs, ThreadIs DEF Assemble
  <2>. QED  BY <1>2, <2>1, <2>3, <2>4, <2>5, <2>6, MainIs, GoKeeps DEF Assemble, crew
<1>. QED  BY <1>1, <1>2 DEF Assemble

LEMMA SpawnKeeps == ASSUME IInv, NEW h \in Helpers, Spawn(h) PROVE IInv'
<1>1. /\ RunningTeam /\ h \in team.members /\ registry[h] = "none"
      /\ registry' = [registry EXCEPT ![h] = "working"]
      /\ registry \in [Helpers -> {"none", "working", "done", "failed"}]
      /\ turn \in [Turns -> TurnState] /\ h \in Turns /\ h # Main /\ Main \in Turns
  BY MainIs DEF Spawn, IInv, TypeOK
<1>2. registry' \in [Helpers -> {"none", "working", "done", "failed"}]
  BY <1>1
<1>3. CASE /\ Put(Main, [turn[Main] EXCEPT !.at = "returned", !.ok = FALSE])
           /\ team' = [team EXCEPT !.state = "short"]
  BY <1>1, <1>2, <1>3, TeamReturns DEF Spawn, Put
<1>4. CASE /\ Put(h, [turn[h] EXCEPT !.at = "spawned"])
           /\ UNCHANGED team
  <2>1. turn[h].at = "idle"
    BY <1>1 DEF IInv, CrewOK, At
  <2>. PICK r : r = [turn[h] EXCEPT !.at = "spawned"]
    OBVIOUS
  <2>2. /\ r \in TurnState /\ r.at = "spawned" /\ r = [Idle EXCEPT !.at = "spawned"]
        /\ r.rounds = 0 /\ r.calls = 0 /\ r.outcome = "none"
    <3>1. turn[h] = [Idle EXCEPT !.at = "idle"]
      BY <1>1, <2>1 DEF IInv, TurnOK, Fresh
    <3>2. Idle.at = "idle" /\ Idle.rounds = 0 /\ Idle.calls = 0 /\ Idle.outcome = "none"
      BY DEF Idle
    <3>3. turn[h] = Idle
      BY <3>1, <3>2, IdleType DEF TurnState
    <3>4. r = [Idle EXCEPT !.at = "spawned"]
      BY <3>3
    <3>5. [Idle EXCEPT !.at = "spawned"] \in TurnState
      BY IdleType, SetAt DEF Phases
    <3>6. /\ r.at = "spawned" /\ r.rounds = Idle.rounds /\ r.calls = Idle.calls
          /\ r.outcome = Idle.outcome
      BY <3>4, IdleType DEF TurnState
    <3>. QED  BY <3>2, <3>4, <3>5, <3>6
  <2>3. turn' = [turn EXCEPT ![h] = r]
    BY <1>4 DEF Put
  <2>4. turn'[h] = r /\ \A u \in Turns : u # h => turn'[u] = turn[u]
    BY <1>1, <2>3
  <2>5. TypeOK'
    <3>1. turn' \in [Turns -> TurnState]
      BY <1>1, <2>2, <2>3
    <3>. QED  BY <1>2, <1>4, <3>1 DEF Spawn, IInv, TypeOK, channel
  <2>6. \A u \in Turns : TurnOK(u)'
    <3>. SUFFICES ASSUME NEW u \in Turns PROVE TurnOK(u)'
      OBVIOUS
    <3>1. TurnOK(u)
      BY DEF IInv
    <3>2. CASE u = h
      <4>1. Fresh(r)
        BY <2>2 DEF Fresh
      <4>2. Bounded(h, r) /\ Owes(r)
        BY <1>1, <2>2, LimitTypes DEF Bounded, Owes, Threaded, ToolStates
      <4>3. Logged(r, journal[h])
        BY <2>1, <2>2, <3>1, <3>2 DEF TurnOK, Logged, Threaded, ToolStates
      <4>4. Timed(r, now, work[h], cancelled)
        BY <2>2 DEF Timed, Threaded, ToolStates, InBrokerStates
      <4>. QED  BY <2>2, <2>4, <3>2, <4>1, <4>2, <4>3, <4>4 DEF TurnOK, Spawn, InBrokerStates
    <3>3. CASE u # h
      BY <1>4, <2>4, <3>1, <3>3 DEF TurnOK, Spawn
    <3>. QED  BY <3>2, <3>3
  <2>7. \A u \in Turns : AllowedOK(u)'
    <3>. SUFFICES ASSUME NEW u \in Turns PROVE AllowedOK(u)'
      OBVIOUS
    <3>1. AllowedOK(u)
      BY DEF IInv
    <3>2. CASE u = h
      BY <2>1, <2>2, <2>4, <3>1, <3>2 DEF AllowedOK, At, InBrokerStates, channel, Spawn
    <3>3. CASE u # h
      BY <2>4, <3>1, <3>3 DEF AllowedOK, Request, At, Granted, channel, Spawn
    <3>. QED  BY <3>2, <3>3
  <2>8. \A k \in approved' : Granted(k)'
    BY DEF IInv, Granted, channel, Spawn
  <2>9. CrewOK'
    <3>1. CrewOK
      BY DEF IInv
    <3>2. RunningTeam'
      BY <1>1, <1>4, <2>4 DEF RunningTeam, Spawning, At, Request
    <3>3. ASSUME NEW g \in Helpers
          PROVE  (/\ registry[g] = "none" => At(g, "idle")
                  /\ ~At(g, "idle") => g \in team.members
                  /\ registry[g] \in {"done", "failed"} => At(g, "over"))'
      <4>1. CASE g = h
        BY <1>1, <1>4, <4>1
      <4>2. CASE g # h
        <5>1. registry'[g] = registry[g] /\ turn'[g] = turn[g]
          BY <1>1, <2>4, <4>2, MainIs
        <5>. QED  BY <1>4, <3>1, <5>1 DEF CrewOK, At
      <4>. QED  BY <4>1, <4>2
    <3>4. ~At(Main, "spawned")' /\ (team.state = "none" => team = NoTeam)'
      BY <1>1, <1>4, <2>4, <3>1 DEF CrewOK, At
    <3>. QED  BY <3>2, <3>3, <3>4 DEF CrewOK
  <2>. QED  BY <2>5, <2>6, <2>7, <2>8, <2>9 DEF IInv
<1>. QED  BY <1>3, <1>4 DEF Spawn

----------------------------------------------------------------------------
(* The user, the UI and the clock.                                         *)

\* A step that leaves the threads, the crew and the clock alone.
LEMMA FrameKeeps ==
    ASSUME IInv, UNCHANGED <<turn, journal, committed, approved, crew, now, work>>,
           cancelled' \in BOOLEAN, cancelled => cancelled',
           asks' \in Seq([turn : Turns, call : Nat]), Len(asks') <= 1,
           shown' \in [turn : Turns, call : Nat],
           reply' \in [Turns -> {"none", "allow", "deny"}],
           granted' \subseteq Turns \X Nat \X Kinds, granted \subseteq granted',
           \A t \in Turns : reply'[t] # reply[t] =>
              At(t, "waiting") /\ (reply'[t] = "allow" => \E g \in granted' : g[3] = Request(t))
    PROVE  IInv'
<1>1. TypeOK'
  BY DEF IInv, TypeOK, crew
<1>2. \A u \in Turns : TurnOK(u)'
  <2>. SUFFICES ASSUME NEW u \in Turns PROVE TurnOK(u)'
    OBVIOUS
  <2>1. TurnOK(u)
    BY DEF IInv
  <2>2. (u = Main => team' = NoTeam) => Timed(turn[u], now, work[u], cancelled')
    BY <2>1 DEF TurnOK, Timed, crew
  <2>. QED  BY <2>1, <2>2 DEF TurnOK
<1>3. \A k : Granted(k) => Granted(k)'
  BY DEF Granted
<1>4. \A u \in Turns : AllowedOK(u)'
  <2>. SUFFICES ASSUME NEW u \in Turns PROVE AllowedOK(u)'
    OBVIOUS
  <2>1. AllowedOK(u)
    BY DEF IInv
  <2>2. Request(u)' = Request(u) /\ \A p : At(u, p)' = At(u, p)
    BY DEF Request, At
  <2>3. /\ turn'[u].at \in InBrokerStates \cup {"running"} => turn'[u].mode # "plan"
        /\ At(u, "running")' =>
             \/ Request(u)' \in Configured
             \/ turn'[u].mode = "auto" /\ Request(u)' = "read"
             \/ Granted(Request(u))'
    BY <1>3, <2>1, <2>2 DEF AllowedOK, At, Request, Granted
  <2>4. CASE reply'[u] = reply[u]
    BY <2>1, <2>2, <2>3, <2>4 DEF AllowedOK, Granted, At, Request
  <2>5. CASE reply'[u] # reply[u]
    BY <2>2, <2>3, <2>5 DEF AllowedOK, Granted, At, Request
  <2>. QED  BY <2>4, <2>5
<1>5. \A k \in approved' : Granted(k)'
  BY DEF IInv, Granted
<1>6. CrewOK'
  BY DEF IInv, CrewOK, At, Working, RunningTeam, Spawning, Request, crew
<1>. QED  BY <1>1, <1>2, <1>4, <1>5, <1>6 DEF IInv

LEMMA ShowKeeps == ASSUME IInv, Show PROVE IInv'
<1>1. asks \in Seq([turn : Turns, call : Nat]) /\ Len(asks) <= 1 /\ asks # <<>>
  BY DEF Show, IInv, TypeOK
<1>2. /\ Head(asks) \in [turn : Turns, call : Nat]
      /\ Tail(asks) \in Seq([turn : Turns, call : Nat]) /\ Len(Tail(asks)) <= 1
  <2>. DEFINE Requests == [turn : Turns, call : Nat]
  <2>1. asks \in Seq(Requests) /\ Len(asks) <= 1 /\ asks # <<>>
    BY <1>1
  <2>. HIDE DEF Requests
  <2>2. Head(asks) \in Requests /\ Tail(asks) \in Seq(Requests) /\ Len(Tail(asks)) <= 1
    BY <2>1
  <2>. QED  BY <2>2 DEF Requests
<1>3. reply' \in [Turns -> {"none", "allow", "deny"}] /\ granted' \subseteq Turns \X Nat \X Kinds
      /\ cancelled' \in BOOLEAN
  BY DEF Show, IInv, TypeOK
<1>. QED  BY <1>2, <1>3, FrameKeeps DEF Show

LEMMA CancelKeeps == ASSUME IInv, Cancel PROVE IInv'
<1>1. /\ asks' \in Seq([turn : Turns, call : Nat]) /\ Len(asks') <= 1
      /\ shown' \in [turn : Turns, call : Nat]
      /\ reply' \in [Turns -> {"none", "allow", "deny"}] /\ granted' \subseteq Turns \X Nat \X Kinds
  BY DEF Cancel, channel, IInv, TypeOK
<1>. QED  BY <1>1, FrameKeeps DEF Cancel, channel

LEMMA DecideKeeps == ASSUME IInv, NEW d \in {"allow", "deny"}, Decide(d) PROVE IInv'
<1>. PICK t : t = shown.turn
  OBVIOUS
<1>. DEFINE live == At(t, "waiting") /\ turn[t].calls = shown.call
<1>1. /\ reply' = IF live THEN [reply EXCEPT ![t] = d] ELSE reply
      /\ granted' = IF live /\ d = "allow" THEN granted \cup {<<t, shown.call, Request(t)>>} ELSE granted
  BY DEF Decide
<1>2. /\ shown \in [turn : Turns, call : Nat] /\ granted \subseteq Turns \X Nat \X Kinds
      /\ reply \in [Turns -> {"none", "allow", "deny"}]
  BY DEF IInv, TypeOK
<1>3. t \in Turns /\ shown.call \in Nat
  BY <1>2
<1>4. live => Request(t) \in Kinds
  BY <1>3, ToolIs DEF At, ToolStates
<1>5. reply' \in [Turns -> {"none", "allow", "deny"}] /\ granted \subseteq granted'
  BY <1>1, <1>2
<1>6. granted' \subseteq Turns \X Nat \X Kinds
  BY <1>1, <1>2, <1>3, <1>4
<1>7. ASSUME NEW u \in Turns, reply'[u] # reply[u]
      PROVE  At(u, "waiting") /\ (reply'[u] = "allow" => \E g \in granted' : g[3] = Request(u))
  <2>1. live /\ u = t /\ reply'[u] = d
    BY <1>1, <1>2, <1>3, <1>7
  <2>2. d = "allow" => <<t, shown.call, Request(t)>> \in granted'
    BY <1>1, <2>1
  <2>3. <<t, shown.call, Request(t)>>[3] = Request(t)
    OBVIOUS
  <2>. QED  BY <2>1, <2>2, <2>3
<1>8. /\ NoAsk \in [turn : Turns, call : Nat]
      /\ asks' \in Seq([turn : Turns, call : Nat]) /\ Len(asks') <= 1 /\ cancelled' \in BOOLEAN
  BY MainIs DEF NoAsk, Decide, IInv, TypeOK
<1>. QED  BY <1>5, <1>6, <1>7, <1>8, FrameKeeps DEF Decide

\* While a turn works by itself its own work keeps up with the clock.
LEMMA TickKeeps == ASSUME IInv, Tick PROVE IInv'
<1>1. /\ now \in Nat /\ now' = now + 1 /\ TurnTimeout \in Nat
      /\ work \in [Turns -> 0 .. TurnTimeout]
      /\ UNCHANGED <<turn, journal, committed, cancelled, channel, crew>>
  BY LimitsAssumption DEF IInv, TypeOK, Tick
<1>2. \A t \in Turns : work'[t] = IF Working(t) /\ ~Waiting(t) /\ work[t] < TurnTimeout
                                  THEN work[t] + 1 ELSE work[t]
  BY DEF Tick
<1>3. \A t \in Turns : work'[t] \in 0 .. TurnTimeout /\ work'[t] >= work[t]
  BY <1>1, <1>2
<1>4. TypeOK'
  <2>1. work' \in [Turns -> 0 .. TurnTimeout]
    <3>. DEFINE f == [t \in Turns |-> IF Working(t) /\ ~Waiting(t) /\ work[t] < TurnTimeout
                                      THEN work[t] + 1 ELSE work[t]]
    <3>1. work' = f
      BY DEF Tick
    <3>2. \A t \in Turns : f[t] \in 0 .. TurnTimeout
      BY <1>1
    <3>. QED  BY <3>1, <3>2
  <2>2. now' \in Nat
    BY <1>1
  <2>. QED  BY <1>1, <2>1, <2>2 DEF IInv, TypeOK, channel, crew
<1>5. \A u \in Turns : TurnOK(u)'
  <2>. SUFFICES ASSUME NEW u \in Turns PROVE TurnOK(u)'
    OBVIOUS
  <2>1. TurnOK(u) /\ turn[u] \in TurnState
    BY ThreadIs DEF IInv
  <2>. PICK r \in TurnState : r = turn[u]
    BY <2>1
  <2>2. r.since \in Nat /\ r.deadline \in Nat /\ work[u] \in Nat /\ work[u] <= TurnTimeout
    BY <1>1 DEF TurnState
  <2>3. ASSUME u = Main => team = NoTeam
        PROVE  Timed(r, now', work'[u], cancelled)
    <3>1. Timed(r, now, work[u], cancelled)
      BY <2>1, <2>3 DEF TurnOK
    <3>2. ASSUME r.at \in Threaded \ InBrokerStates
          PROVE  cancelled \/ work'[u] = TurnTimeout \/ now' + TurnTimeout <= r.deadline + work'[u]
      <4>1. Working(u)
        BY <3>2 DEF Working, Threaded, ToolStates
      <4>2. ~Waiting(u)
        BY <2>3, <3>2 DEF Waiting, InBroker, InBrokerStates, RunningTeam, NoTeam
      <4>3. cancelled \/ work[u] = TurnTimeout \/ now + TurnTimeout <= r.deadline + work[u]
        BY <3>1, <3>2 DEF Timed
      <4>4. CASE work[u] < TurnTimeout
        <5>1. work'[u] = work[u] + 1
          BY <1>2, <4>1, <4>2, <4>4
        <5>. QED  BY <1>1, <2>2, <4>3, <4>4, <5>1
      <4>5. CASE ~(work[u] < TurnTimeout)
        <5>1. work'[u] = work[u] /\ work[u] = TurnTimeout
          BY <1>1, <1>2, <2>2, <4>5
        <5>. QED  BY <5>1
      <4>. QED  BY <4>4, <4>5
    <3>3. work[u] = TurnTimeout => work'[u] = TurnTimeout
      BY <1>1, <1>2
    <3>4. ASSUME r.at \in InBrokerStates
          PROVE  cancelled \/ work'[u] = TurnTimeout \/ r.since + TurnTimeout <= r.deadline + work'[u]
      <4>1. cancelled \/ work[u] = TurnTimeout \/ r.since + TurnTimeout <= r.deadline + work[u]
        BY <3>1, <3>4 DEF Timed
      <4>2. work'[u] \in Nat /\ work'[u] >= work[u]
        BY <1>1, <1>3
      <4>. QED  BY <1>1, <2>2, <3>3, <4>1, <4>2
    <3>5. r.outcome = "deadline" => work'[u] = TurnTimeout
      BY <3>1, <3>3 DEF Timed
    <3>. QED  BY <3>2, <3>4, <3>5 DEF Timed
  <2>4. r.at \in InBrokerStates => r.since <= now'
    BY <1>1, <2>1, <2>2 DEF TurnOK
  <2>. QED  BY <1>1, <2>1, <2>3, <2>4 DEF TurnOK, crew
<1>6. \A u \in Turns : AllowedOK(u)'
  <2>. SUFFICES ASSUME NEW u \in Turns PROVE AllowedOK(u)'
    OBVIOUS
  <2>1. AllowedOK(u)
    BY DEF IInv
  <2>. QED  BY <1>1, <2>1 DEF AllowedOK, Request, At, Granted, channel
<1>7. \A k \in approved' : Granted(k)'
  BY <1>1 DEF IInv, Granted, channel
<1>8. CrewOK'
  BY <1>1 DEF IInv, CrewOK, At, Working, RunningTeam, Spawning, Request, crew
<1>. QED  BY <1>4, <1>5, <1>6, <1>7, <1>8 DEF IInv

----------------------------------------------------------------------------
LEMMA InitHolds == ASSUME Init PROVE IInv
<1>. USE DEF Init
<1>1. /\ Idle \in TurnState /\ Idle.at = "idle" /\ Idle.rounds = 0 /\ Idle.calls = 0
      /\ Idle.outcome = "none" /\ Idle = [Idle EXCEPT !.at = "idle"]
  <2>1. /\ Idle.at = "idle" /\ Idle.rounds = 0 /\ Idle.calls = 0 /\ Idle.outcome = "none"
    BY DEF Idle
  <2>2. Idle = [Idle EXCEPT !.at = "idle"]
    BY <2>1, IdleType DEF TurnState
  <2>. QED  BY <2>1, <2>2, IdleType
<1>2. TypeOK
  <2>1. turn \in [Turns -> TurnState]
    BY <1>1
  <2>2. shown \in [turn : Turns, call : Nat] /\ team.access \in {"none", "read", "write"}
    BY MainIs DEF NoAsk, NoTeam
  <2>3. work \in [Turns -> 0 .. TurnTimeout]
    BY LimitsAssumption
  <2>4. asks \in Seq([turn : Turns, call : Nat]) /\ Len(asks) <= 1
    OBVIOUS
  <2>. QED  BY <2>1, <2>2, <2>3, <2>4 DEF TypeOK, NoTeam
<1>3. \A t \in Turns : TurnOK(t)
  <2>. SUFFICES ASSUME NEW t \in Turns PROVE TurnOK(t)
    OBVIOUS
  <2>1. turn[t] = Idle /\ journal[t] = [started |-> FALSE, requested |-> 0, finished |-> 0, end |-> "none"]
    OBVIOUS
  <2>2. Fresh(Idle) /\ Owes(Idle)
    BY <1>1 DEF Fresh, Owes, Threaded, ToolStates
  <2>3. Bounded(t, Idle)
    BY <1>1, LimitTypes DEF Bounded, Threaded, ToolStates
  <2>4. Logged(Idle, journal[t])
    BY <1>1, <2>1 DEF Logged, Threaded, ToolStates
  <2>5. Timed(Idle, now, work[t], cancelled)
    BY <1>1 DEF Timed, Threaded, ToolStates, InBrokerStates
  <2>. QED  BY <1>1, <2>1, <2>2, <2>3, <2>4, <2>5 DEF TurnOK, InBrokerStates
<1>4. \A t \in Turns : AllowedOK(t)
  BY <1>1 DEF AllowedOK, At, InBrokerStates
<1>5. CrewOK
  BY <1>1, MainIs DEF CrewOK, At, Working
<1>. QED  BY <1>2, <1>3, <1>4, <1>5 DEF IInv

LEMMA NextKeeps == ASSUME IInv, [Next]_vars PROVE IInv'
<1>1. CASE Start
  BY <1>1, StartKeeps
<1>2. ASSUME NEW t \in Turns, Step(t) PROVE IInv'
  <2>1. CASE t \in Helpers /\ Help(t)
    BY <2>1, HelpKeeps
  <2>2. CASE t = Main /\ TeamStep
    BY <2>2, AssembleKeeps, ReconcileKeeps, SpawnKeeps DEF TeamStep
  <2>3. CASE CutOff(t) \/ Break(t) \/ Summarise(t) \/ Answer(t) \/ Revise(t) \/ RequestTools(t)
    BY <2>3, CutOffKeeps, BreakKeeps, SummariseKeeps, AnswerKeeps, ReviseKeeps, RequestToolsKeeps
  <2>4. CASE Skip(t) \/ Reject(t) \/ Invoke(t) \/ Return(t) \/ Report(t) \/ Conclude(t)
    BY <2>4, SkipKeeps, RejectKeeps, InvokeKeeps, ReturnKeeps, ReportKeeps, ConcludeKeeps
  <2>5. CASE Send(t) \/ Hear(t) \/ GiveUp(t)
    BY <2>5, SendKeeps, HearKeeps, GiveUpKeeps
  <2>. QED  BY <1>2, <2>1, <2>2, <2>3, <2>4, <2>5 DEF Step
<1>3. CASE Show \/ (\E d \in {"allow", "deny"} : Decide(d)) \/ Cancel \/ Tick
  BY <1>3, ShowKeeps, DecideKeeps, CancelKeeps, TickKeeps
<1>4. CASE UNCHANGED vars
  <2>1. UNCHANGED <<turn, journal, committed, cancelled, asks, shown, reply, approved, granted, crew, now, work>>
    BY <1>4 DEF vars, channel
  <2>2. /\ cancelled' \in BOOLEAN /\ asks' \in Seq([turn : Turns, call : Nat]) /\ Len(asks') <= 1
        /\ shown' \in [turn : Turns, call : Nat] /\ reply' \in [Turns -> {"none", "allow", "deny"}]
        /\ granted' \subseteq Turns \X Nat \X Kinds
    BY <2>1 DEF IInv, TypeOK
  <2>. QED  BY <2>1, <2>2, FrameKeeps
<1>. QED  BY <1>1, <1>2, <1>3, <1>4 DEF Next

\* The invariant holds whatever the models ask for, the user decides and the
\* clock does (run_inner, execute_round_calls, execute_tool).
THEOREM Invariance == Spec => []IInv
BY InitHolds, NextKeeps, PTL DEF Spec

----------------------------------------------------------------------------
\* Every variable has its type.
THEOREM TypeCorrect == Spec => []TypeOK
<1>1. IInv => TypeOK
  BY DEF IInv
<1>. QED  BY <1>1, Invariance, PTL

\* No turn exceeds its rounds, calls or bytes (run_inner, execute_round_calls).
THEOREM LimitsAreKept == Spec => []LimitsHold
<1>1. ASSUME IInv PROVE LimitsHold
  <2>. SUFFICES ASSUME NEW t \in Turns
               PROVE  /\ turn[t].rounds <= Limits[t].rounds + 1
                      /\ At(t, "model") /\ turn[t].rounds > Limits[t].rounds => turn[t].limit # "none"
                      /\ journal[t].requested <= turn[t].calls /\ turn[t].calls <= Limits[t].calls
                      /\ InTool(t) => turn[t].limit = "none" /\ turn[t].bytes <= Limits[t].bytes
    BY DEF LimitsHold
  <2>1. Bounded(t, turn[t]) /\ Logged(turn[t], journal[t])
    BY <1>1, ThreadIs
  <2>. QED  BY <2>1 DEF Bounded, Logged, InTool, At, ToolStates, Threaded
<1>. QED  BY <1>1, Invariance, PTL

\* The model never lacks the result of a call (execute_round_calls).
THEOREM CallsAreAnswered == Spec => []AnsweredEachCall
<1>1. ASSUME IInv PROVE AnsweredEachCall
  <2>1. \A t \in Turns : Owes(turn[t])
    BY <1>1, ThreadIs
  <2>. QED  BY <2>1 DEF AnsweredEachCall, Owes, At, InTool, ToolStates
<1>. QED  BY <1>1, Invariance, PTL

\* What the journal says of an ended turn is so (run_profiled_turn).
THEOREM JournalIsTrue == Spec => []JournalTells
<1>1. ASSUME IInv PROVE JournalTells
  <2>1. \A t \in Turns : Logged(turn[t], journal[t])
    BY <1>1, ThreadIs
  <2>. QED  BY <2>1 DEF JournalTells, Logged
<1>. QED  BY <1>1, Invariance, PTL

\* What runs is configured, passive or granted by the user (authorize,
\* TurnApprovals::decide).
THEOREM OnlyAllowedRuns == Spec => []RunsOnlyAllowed
<1>1. ASSUME IInv PROVE RunsOnlyAllowed
  <2>1. \A t \in Turns : AllowedOK(t)
    BY <1>1 DEF IInv
  <2>. QED  BY <2>1 DEF RunsOnlyAllowed, AllowedOK, At, Granted
<1>. QED  BY <1>1, Invariance, PTL

\* The time a turn waits for the user is not taken from it (execute_tool).
THEOREM WaitIsGivenBack == Spec => []OwnWaitIsNotWork
<1>1. ASSUME IInv PROVE OwnWaitIsNotWork
  <2>1. \A t \in Turns : TurnOK(t)
    BY <1>1 DEF IInv
  <2>. QED  BY <2>1 DEF OwnWaitIsNotWork, TurnOK, Timed
<1>. QED  BY <1>1, Invariance, PTL

\* Helpers are at work only inside the call that started them (run_team).
THEOREM HelpersStayWithTurn == Spec => []HelpersWithTurn
<1>1. ASSUME IInv PROVE HelpersWithTurn
  BY <1>1 DEF IInv, CrewOK, HelpersWithTurn
<1>. QED  BY <1>1, Invariance, PTL
=============================================================================
