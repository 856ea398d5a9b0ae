----------------------------- MODULE HarnessTurn -----------------------------
(***************************************************************************)
(* One bounded turn of the native Harness (crumb-harness lib.rs), the team *)
(* of helper turns its spawn_agents tool starts (parallel.rs, team.rs),    *)
(* and the approval channel all of them share (crumb-agent approvals.rs,   *)
(* tools.rs; TurnApprovals of crumb-cli agent_runtime.rs).                 *)
(*                                                                         *)
(* A turn runs on one thread and each action is what that thread does      *)
(* between two points where another actor can interfere: the model stream, *)
(* the approval channel, a tool at work, the session journal.  The other   *)
(* actors are the user, who cancels and decides approvals, the helpers'    *)
(* threads and the clock.  Helpers share the main turn's cancellation      *)
(* token and, when they may write, its approvals.                          *)
(*                                                                         *)
(* Texts are abstracted to their size, tool requests to their kind: two    *)
(* requests of a kind have the same tool and arguments, hence the same     *)
(* approval key.                                                           *)
(***************************************************************************)
EXTENDS Naturals, Sequences, FiniteSets

CONSTANTS
    Main,           \* the user's turn
    Helpers,        \* turns its team can use, each once
    Limits,         \* turn -> HarnessLimits: rounds, calls, bytes
    TurnTimeout,    \* HarnessLimits.turn_timeout, the same for all
    Modes,          \* agent modes the main turn may run in
    Configured,     \* kinds of request the user's configuration allows
    Checks,         \* answer check -> how often it may send a draft back
    Sizes,          \* sizes of a text or a tool output
    Batches,        \* bound: what a model may ask for in one round: so many
                    \* load_tools calls, and other calls in their order
    MaxTime         \* bound: the clock stops here

Turns == {Main} \cup Helpers
Kinds == {"read", "write", "team", "junk"}
CheckNames == {"grounding", "failure", "completeness", "execution", "research",
               "arithmetic", "tasks"}

ASSUME TurnsAssumption == Main \notin Helpers

ASSUME LimitsAssumption ==
    /\ Limits \in [Turns -> [rounds : Nat \ {0}, calls : Nat \ {0}, bytes : Nat \ {0}]]
    /\ TurnTimeout \in Nat \ {0}
    /\ Modes \subseteq {"auto", "negotiate", "plan"}
    /\ Checks \in [CheckNames -> Nat]
    /\ Sizes \subseteq Nat
    /\ Batches \subseteq [loads : Nat, calls : Seq(Kinds)]
    /\ \A batch \in Batches : batch.loads > 0 \/ batch.calls # <<>>
    /\ MaxTime \in Nat

VARIABLES
    turn,       \* turn -> where its thread is and what it has counted
    journal,    \* turn -> what its session journal holds of it
    committed,  \* the conversation remembers the main turn
    cancelled,  \* the cancellation token
    asks,       \* approval channel: requests nobody has looked at
    shown,      \* the request before the user
    reply,      \* turn -> the decision on its way back
    approved,   \* TurnApprovals.approved: kinds allowed in this turn
    team,       \* the team of the main turn
    registry,   \* helper -> its entry in the TeamRegistry
    now,        \* the clock
    granted,    \* history: requests the user allowed
    work        \* history: turn -> time it did not wait for the user,
                \* up to TurnTimeout

channel == <<asks, shown, reply, approved, granted>>
crew == <<team, registry>>
vars == <<turn, journal, committed, cancelled, channel, crew, now, work>>

NoTeam == [access |-> "none", members |-> {}, state |-> "none"]
NoAsk == [turn |-> Main, call |-> 0]

Phases == {"idle", "spawned", "model", "calls", "sending", "waiting", "running",
           "returned", "ending", "over"}
Outcomes == {"none", "answered", "summary", "cancelled", "deadline", "output",
             "provider", "journal"}
Good == {"answered", "summary"}

TurnState ==
    [at : Phases, mode : {"auto", "negotiate", "plan"}, rounds : Nat, calls : Nat, bytes : Nat,
     limit : {"none", "rounds", "calls", "bytes"},
     todo : Seq(Kinds), open : Nat, failing : BOOLEAN, failed : BOOLEAN, succeeded : BOOLEAN,
     checks : [CheckNames -> Nat], ok : BOOLEAN, since : Nat, deadline : Nat,
     outcome : Outcomes, result : {"none", "ok", "error"}]

Idle == [at |-> "idle", mode |-> "auto", rounds |-> 0, calls |-> 0, bytes |-> 0, limit |-> "none",
         todo |-> <<>>, open |-> 0, failing |-> FALSE, failed |-> FALSE, succeeded |-> FALSE,
         checks |-> Checks, ok |-> FALSE, since |-> 0, deadline |-> 0,
         outcome |-> "none", result |-> "none"]

\* Every variable has its type.
TypeOK ==
    /\ turn \in [Turns -> TurnState]
    /\ journal \in [Turns -> [started : BOOLEAN, requested : Nat, finished : Nat,
                              end : {"none", "complete", "cancelled", "limit_reached", "failed"}]]
    /\ committed \in BOOLEAN /\ cancelled \in BOOLEAN
    /\ asks \in Seq([turn : Turns, call : Nat]) /\ Len(asks) <= 1
    /\ shown \in [turn : Turns, call : Nat]
    /\ reply \in [Turns -> {"none", "allow", "deny"}]
    /\ approved \subseteq Kinds
    /\ team \in [access : {"none", "read", "write"}, members : SUBSET Helpers,
                state : {"none", "running", "joined", "short"}]
    /\ registry \in [Helpers -> {"none", "working", "done", "failed"}]
    /\ now \in Nat
    /\ granted \subseteq Turns \X Nat \X Kinds
    /\ work \in [Turns -> 0 .. TurnTimeout]

----------------------------------------------------------------------------
(* What the code computes at a step.                                       *)

At(t, phase) == turn[t].at = phase
Working(t) == turn[t].at \notin {"idle", "over"}
Request(t) == Head(turn[t].todo)

\* ensure_active and controlled: cancellation first, then the deadline.
Active(t) == ~cancelled /\ now < turn[t].deadline
Cut == IF cancelled THEN "cancelled" ELSE "deadline"

\* A tool the turn's host lacks: helpers get no spawn_agents, read-only ones
\* nothing that writes; "junk" is an unknown name or malformed arguments.
Unprepared(t, k) ==
    \/ k = "junk"
    \/ t # Main /\ (k = "team" \/ (k = "write" /\ team.access = "read"))

\* Mutant: any approval of the turn allows every later request.
NeedsUserOnce(t, k) ==
    /\ k \notin Configured /\ ~(turn[t].mode = "auto" /\ k = "read")
    /\ approved = {}

\* authorize and TurnApprovals: neither passive, nor configured, nor allowed
\* earlier in this turn.
NeedsUser(t, k) ==
    /\ k \notin Configured /\ ~(turn[t].mode = "auto" /\ k = "read")
    /\ k \notin approved

\* The top of run_inner's loop: one more round, the last one to sum up.
\* Mutant: one round more before the limit is noticed.
LoopedLate(t, r) ==
    [r EXCEPT !.at = "model", !.rounds = @ + 1, !.failing = FALSE,
              !.limit = IF @ = "none" /\ r.rounds > Limits[t].rounds THEN "rounds" ELSE @]

Looped(t, r) ==
    [r EXCEPT !.at = "model", !.rounds = @ + 1, !.failing = FALSE,
              !.limit = IF @ = "none" /\ r.rounds = Limits[t].rounds THEN "rounds" ELSE @]

\* After a call: the next one, or the next round, where a failed call may have
\* used up the execution check (prepare_failed_execution).
Settled(t, r) ==
    IF r.todo # <<>> THEN {[r EXCEPT !.at = "calls"]}
    ELSE {Looped(t, r)} \cup
         {Looped(t, s) : s \in IF r.failing /\ r.checks["execution"] > 0
                               THEN {[r EXCEPT !.checks["execution"] = 0]}
                               ELSE {}}

\* The result message of the call at the head, n bytes of it.
Answered(t, r, n, ok) ==
    [r EXCEPT !.todo = Tail(@), !.open = @ - 1, !.bytes = @ + n,
              !.limit = IF r.bytes + n > Limits[t].bytes THEN "bytes" ELSE @,
              !.failing = @ \/ ~ok, !.failed = @ \/ ~ok, !.succeeded = @ \/ ok, !.ok = FALSE]

\* Mutant: any answer counts as complete, a summary too.
StatusOfAnswer(o) ==
    CASE o \in Good -> "complete"
      [] o = "cancelled" -> "cancelled"
      [] o \in {"deadline", "output"} -> "limit_reached"
      [] OTHER -> "failed"

\* run_profiled_turn: how an outcome is written to the journal.
Status(o) ==
    CASE o = "answered" -> "complete"
      [] o = "cancelled" -> "cancelled"
      [] o \in {"summary", "deadline", "output"} -> "limit_reached"
      [] OTHER -> "failed"

\* text_round_retry: which check may send a draft back, given the evidence.
MayRevise(t, c) ==
    /\ turn[t].checks[c] > 0
    /\ c = "grounding" => turn[t].succeeded
    /\ c = "failure" => turn[t].failed /\ ~turn[t].succeeded

Put(t, r) == turn' = [turn EXCEPT ![t] = r]

\* run_inner returns: its locals are gone, the metrics stay.
Ended(r, o) == [Idle EXCEPT !.at = "ending", !.rounds = r.rounds, !.calls = r.calls, !.outcome = o]
EndWith(t, o) == Put(t, Ended(turn[t], o))

----------------------------------------------------------------------------
Init ==
    /\ turn = [t \in Turns |-> Idle]
    /\ journal = [t \in Turns |-> [started |-> FALSE, requested |-> 0, finished |-> 0, end |-> "none"]]
    /\ committed = FALSE /\ cancelled = FALSE
    /\ asks = <<>> /\ shown = NoAsk
    /\ reply = [t \in Turns |-> "none"]
    /\ approved = {} /\ granted = {}
    /\ team = NoTeam
    /\ registry = [h \in Helpers |-> "none"]
    /\ now = 0
    /\ work = [t \in Turns |-> 0]

\* record_turn_start and the first loop top; without a journal entry nothing runs.
Begin(t, mode) ==
    \/ /\ journal' = [journal EXCEPT ![t].started = TRUE]
       /\ Put(t, Looped(t, [turn[t] EXCEPT !.mode = mode, !.deadline = now + TurnTimeout]))
       /\ UNCHANGED registry
    \/ /\ Put(t, [turn[t] EXCEPT !.at = "over", !.outcome = "journal", !.result = "error"])
       /\ registry' = IF t = Main THEN registry ELSE [registry EXCEPT ![t] = "failed"]
       /\ UNCHANGED journal

\* run_turn, or run_isolated_peer_turn, on the main thread.
Start ==
    /\ At(Main, "idle")
    /\ \E mode \in Modes : Begin(Main, mode)
    /\ UNCHANGED <<committed, cancelled, channel, team, now, work>>

\* run_worker: a helper whose session cannot be opened returns before it
\* reaches its registry entry.
Help(h) ==
    /\ At(h, "spawned")
    /\ \/ Begin(h, "auto")
       \/ /\ Put(h, [turn[h] EXCEPT !.at = "over", !.outcome = "journal", !.result = "error"])
          /\ UNCHANGED <<journal, registry>>
    /\ UNCHANGED <<committed, cancelled, channel, team, now, work>>

----------------------------------------------------------------------------
(* The model round: run_model_round and what run_inner makes of it.        *)

\* The stream is cut by the token or the deadline.
CutOff(t) ==
    /\ At(t, "model") /\ ~Active(t)
    /\ EndWith(t, Cut)
    /\ UNCHANGED <<journal, committed, cancelled, channel, crew, now, work>>

\* The provider fails or stops early; or its text, outside the summary round,
\* exceeds the output limit or the token limit.
Break(t) ==
    /\ At(t, "model") /\ Active(t)
    /\ \/ EndWith(t, "provider")
       \/ turn[t].limit = "none" /\ EndWith(t, "output")
    /\ UNCHANGED <<journal, committed, cancelled, channel, crew, now, work>>

\* The summary round of a turn that reached a limit; calls in it are dropped.
Summarise(t) ==
    /\ At(t, "model") /\ Active(t) /\ turn[t].limit # "none"
    /\ EndWith(t, "summary")
    /\ committed' = (committed \/ t = Main)
    /\ UNCHANGED <<journal, cancelled, channel, crew, now, work>>

\* n bytes of text fit in what the turn may still say.
Fits(t, n) == turn[t].limit = "none" /\ turn[t].bytes + n <= Limits[t].bytes

\* finish_turn: the draft is the answer and the conversation keeps it.
Answer(t) ==
    /\ At(t, "model") /\ Active(t)
    /\ \E n \in Sizes : Fits(t, n)
    /\ EndWith(t, "answered")
    /\ committed' = (committed \/ t = Main)
    /\ UNCHANGED <<journal, cancelled, channel, crew, now, work>>

\* A check sends the draft back to the model.
Revise(t) ==
    /\ At(t, "model") /\ Active(t)
    /\ \E n \in Sizes, c \in CheckNames :
         /\ Fits(t, n) /\ MayRevise(t, c)
         /\ Put(t, Looped(t, [turn[t] EXCEPT !.bytes = @ + n,
                                             !.checks[c] = @ - 1]))
    /\ UNCHANGED <<journal, committed, cancelled, channel, crew, now, work>>

\* The model asks for tools: load_tools calls are answered at once, the rest
\* is left to do (record_tool_round, answer_load_tools).
RequestTools(t) ==
    /\ At(t, "model") /\ Active(t)
    /\ \E n \in Sizes, batch \in Batches :
         LET r == [turn[t] EXCEPT !.at = "calls", !.bytes = @ + n, !.todo = batch.calls,
                                  !.open = Len(batch.calls)]
         IN  /\ Fits(t, n)
             /\ Put(t, IF batch.calls = <<>> THEN Looped(t, r) ELSE r)
    /\ UNCHANGED <<journal, committed, cancelled, channel, crew, now, work>>

----------------------------------------------------------------------------
(* execute_round_calls and execute_tool.                                   *)

Exhausted(t) == turn[t].limit # "none" \/ turn[t].calls = Limits[t].calls

\* Mutant: calls past the limit are dropped without a result.
SkipUnanswered(t) ==
    /\ At(t, "calls") /\ Exhausted(t)
    /\ \E r \in Settled(t, [turn[t] EXCEPT
                               !.limit = IF @ = "none" THEN "calls" ELSE @, !.todo = <<>>]) :
         Put(t, r)
    /\ UNCHANGED <<journal, committed, cancelled, channel, crew, now, work>>

\* Past a limit every remaining call is answered "Not executed".
Skip(t) ==
    /\ At(t, "calls") /\ Exhausted(t)
    /\ \E r \in Settled(t, [turn[t] EXCEPT
                               !.limit = IF @ = "none" THEN "calls" ELSE @,
                               !.open = @ - Len(turn[t].todo), !.todo = <<>>]) :
         Put(t, r)
    /\ UNCHANGED <<journal, committed, cancelled, channel, crew, now, work>>

\* A call is counted; the turn is over, or the call is malformed and its
\* rejection is the result.
Reject(t) ==
    /\ At(t, "calls") /\ ~Exhausted(t)
    /\ LET r == [turn[t] EXCEPT !.calls = @ + 1]
       IN  \/ /\ ~Active(t)
              /\ Put(t, Ended(r, Cut))
           \/ /\ Active(t) /\ Unprepared(t, Request(t))
              /\ \E n \in Sizes : \E s \in Settled(t, Answered(t, r, n, FALSE)) : Put(t, s)
    /\ UNCHANGED <<journal, committed, cancelled, channel, crew, now, work>>

\* A prepared call is journaled, then authorized: denied in plan mode, left to
\* the approval broker, or run.  An entry whose flush fails ends the turn and
\* stays in the writer's buffer: the next entry takes it along.
Invoke(t) ==
    /\ At(t, "calls") /\ ~Exhausted(t) /\ Active(t) /\ ~Unprepared(t, Request(t))
    /\ LET r == [turn[t] EXCEPT !.calls = @ + 1]
       IN  \/ Put(t, Ended(r, "journal"))
           \/ Put(t, IF turn[t].mode = "plan" THEN [r EXCEPT !.at = "returned"]
                     ELSE IF NeedsUser(t, Request(t))
                     THEN [r EXCEPT !.at = "sending", !.since = now]
                     ELSE [r EXCEPT !.at = "running"])
    /\ journal' = [journal EXCEPT ![t].requested = @ + 1]
    /\ UNCHANGED <<committed, cancelled, channel, crew, now, work>>

----------------------------------------------------------------------------
(* The approval channel.                                                   *)

Ask(t) == [turn |-> t, call |-> turn[t].calls]

\* Mutant: the channel is unbounded.
SendUnbounded(t) ==
    /\ At(t, "sending") /\ ~cancelled
    /\ asks' = Append(asks, Ask(t))
    /\ Put(t, [turn[t] EXCEPT !.at = "waiting"])
    /\ UNCHANGED <<journal, committed, cancelled, shown, reply, approved, granted, crew, now, work>>

\* InteractiveApprovalBroker::decide: the channel holds one request.
Send(t) ==
    /\ At(t, "sending") /\ ~cancelled /\ asks = <<>>
    /\ asks' = <<Ask(t)>>
    /\ Put(t, [turn[t] EXCEPT !.at = "waiting"])
    /\ UNCHANGED <<journal, committed, cancelled, shown, reply, approved, granted, crew, now, work>>

\* The UI takes a request to show it.
Show ==
    /\ shown = NoAsk /\ asks # <<>>
    /\ shown' = Head(asks) /\ asks' = Tail(asks)
    /\ UNCHANGED <<turn, journal, committed, cancelled, reply, approved, granted, crew, now, work>>

\* The user allows or denies it, or the UI drops it, which denies; the answer
\* is lost when nobody waits for it any more.
Decide(d) ==
    /\ shown # NoAsk
    /\ LET t == shown.turn
           live == At(t, "waiting") /\ turn[t].calls = shown.call
       IN  /\ reply' = IF live THEN [reply EXCEPT ![t] = d] ELSE reply
           /\ granted' = IF live /\ d = "allow"
                         THEN granted \cup {<<t, shown.call, Request(t)>>} ELSE granted
    /\ shown' = NoAsk
    /\ UNCHANGED <<turn, journal, committed, cancelled, asks, approved, crew, now, work>>

\* Time spent in the broker is added to the deadline (TimedApprovals).
\* Mutant: it is not.
HeardLate(t, at) == [turn[t] EXCEPT !.at = at, !.since = 0]

Heard(t, at) == [turn[t] EXCEPT !.at = at, !.since = 0, !.deadline = @ + (now - turn[t].since)]

\* The decision arrives; an allowed request is remembered for the turn.
Hear(t) ==
    /\ At(t, "waiting") /\ ~cancelled /\ reply[t] # "none"
    /\ Put(t, Heard(t, IF reply[t] = "allow" THEN "running" ELSE "returned"))
    /\ approved' = IF reply[t] = "allow" THEN approved \cup {Request(t)} ELSE approved
    /\ reply' = [reply EXCEPT ![t] = "none"]
    /\ UNCHANGED <<journal, committed, cancelled, asks, shown, granted, crew, now, work>>

\* Mutant: a thread in the broker does not look at the token.
GiveUpNever(t) == FALSE /\ UNCHANGED vars

\* The broker polls the token: a cancelled request is denied.
GiveUp(t) ==
    /\ turn[t].at \in {"sending", "waiting"} /\ cancelled
    /\ Put(t, [turn[t] EXCEPT !.at = "returned", !.since = 0])
    /\ reply' = [reply EXCEPT ![t] = "none"]
    /\ UNCHANGED <<journal, committed, cancelled, asks, shown, approved, granted, crew, now, work>>

----------------------------------------------------------------------------
(* A tool at work, and its result.                                         *)

\* Any tool but spawn_agents; a cancelled one fails.
Return(t) ==
    /\ At(t, "running") /\ Request(t) # "team"
    /\ \E ok \in {FALSE} \cup {~cancelled} : Put(t, [turn[t] EXCEPT !.at = "returned", !.ok = ok])
    /\ UNCHANGED <<journal, committed, cancelled, channel, crew, now, work>>

Spawning == At(Main, "running") /\ Request(Main) = "team"
RunningTeam == Spawning /\ team.state = "running"

\* run_team: a request for two helpers or more, or a malformed one.  Bound: one
\* team for the turn.
Assemble ==
    /\ Spawning /\ team.state # "running"
    /\ \/ \E access \in {"read", "write"}, members \in SUBSET Helpers :
            /\ team = NoTeam /\ Cardinality(members) >= 2 /\ ~cancelled
            /\ team' = [access |-> access, members |-> members, state |-> "running"]
            /\ UNCHANGED turn
       \/ /\ Put(Main, [turn[Main] EXCEPT !.at = "returned", !.ok = FALSE])
          /\ UNCHANGED team
    /\ UNCHANGED <<journal, committed, cancelled, channel, registry, now, work>>

\* One helper's registry entry and its thread, or no thread: run_team then
\* returns at once, and the threads already started are not waited for.
Spawn(h) ==
    /\ RunningTeam /\ h \in team.members /\ registry[h] = "none"
    /\ registry' = [registry EXCEPT ![h] = "working"]
    /\ \/ /\ Put(h, [turn[h] EXCEPT !.at = "spawned"])
          /\ UNCHANGED team
       \/ /\ Put(Main, [turn[Main] EXCEPT !.at = "returned", !.ok = FALSE])
          /\ team' = [team EXCEPT !.state = "short"]
    /\ UNCHANGED <<journal, committed, cancelled, channel, now, work>>

\* Mutant: the first helper that ends is enough.
JoinedFirst == \E h \in team.members : At(h, "over")

\* Every helper's thread has ended.
Joined == \A h \in team.members : At(h, "over")

\* The report of the team: partial when a helper failed.
Reconcile ==
    /\ RunningTeam /\ Joined
    /\ Put(Main, [turn[Main] EXCEPT !.at = "returned",
                     !.ok = ~cancelled /\ \A h \in team.members : turn[h].result = "ok"])
    /\ team' = [team EXCEPT !.state = "joined"]
    /\ UNCHANGED <<journal, committed, cancelled, channel, registry, now, work>>

\* The rest of execute_tool: the token and the deadline, the journal, and the
\* result message; then the next call or round.
Report(t) ==
    /\ At(t, "returned")
    /\ \/ /\ ~Active(t)
          /\ EndWith(t, Cut)
          /\ UNCHANGED journal
       \/ /\ Active(t)
          /\ journal' = [journal EXCEPT ![t].finished = @ + 1]
          /\ \/ EndWith(t, "journal")
             \/ \E n \in Sizes : \E r \in Settled(t, Answered(t, turn[t], n, turn[t].ok)) : Put(t, r)
    /\ UNCHANGED <<committed, cancelled, channel, crew, now, work>>

\* record_turn_end, and what the caller gets; a helper's thread ends with it
\* and settles its registry entry.
Conclude(t) ==
    /\ At(t, "ending")
    /\ \E recorded \in BOOLEAN :
         LET result == IF recorded /\ turn[t].outcome \in Good THEN "ok" ELSE "error"
         IN  /\ journal' = IF recorded
                           THEN [journal EXCEPT ![t].end = Status(turn[t].outcome)]
                           ELSE journal
             /\ Put(t, [turn[t] EXCEPT !.at = "over", !.result = result])
             /\ registry' = IF t = Main THEN registry
                            ELSE [registry EXCEPT ![t] = IF result = "ok" THEN "done" ELSE "failed"]
    /\ UNCHANGED <<committed, cancelled, channel, team, now, work>>

----------------------------------------------------------------------------
\* The user interrupts the main turn.
Cancel ==
    /\ Working(Main) /\ ~cancelled
    /\ cancelled' = TRUE
    /\ UNCHANGED <<turn, journal, committed, channel, crew, now, work>>

InBroker(t) == turn[t].at \in {"sending", "waiting"} /\ reply[t] = "none"

\* The user is what a turn waits for: for the main turn also when every helper
\* still at work waits for the user.
Waiting(t) ==
    \/ InBroker(t)
    \/ /\ t = Main /\ RunningTeam
       /\ \E h \in team.members : InBroker(h)
       /\ \A h \in team.members : ~At(h, "idle")
       /\ \A h \in team.members : Working(h) => InBroker(h)

\* Time matters while a turn is at work.
Tick ==
    /\ now < MaxTime /\ \E t \in Turns : Working(t)
    /\ now' = now + 1
    /\ work' = [t \in Turns |-> IF Working(t) /\ ~Waiting(t) /\ work[t] < TurnTimeout
                                THEN work[t] + 1 ELSE work[t]]
    /\ UNCHANGED <<turn, journal, committed, cancelled, channel, crew>>

\* The main thread in spawn_agents.
TeamStep == Assemble \/ Reconcile \/ \E h \in Helpers : Spawn(h)

\* One step of a turn's thread.
Step(t) ==
    \/ t \in Helpers /\ Help(t)
    \/ t = Main /\ TeamStep
    \/ CutOff(t) \/ Break(t) \/ Summarise(t) \/ Answer(t) \/ Revise(t) \/ RequestTools(t)
    \/ Skip(t) \/ Reject(t) \/ Invoke(t)
    \/ Send(t) \/ Hear(t) \/ GiveUp(t)
    \/ Return(t) \/ Report(t) \/ Conclude(t)

Next ==
    \/ Start
    \/ \E t \in Turns : Step(t)
    \/ Show
    \/ \E d \in {"allow", "deny"} : Decide(d)
    \/ Cancel \/ Tick

Spec == Init /\ [][Next]_vars

\* Threads run, tool handlers return, a stream yields or fails.  The user owes
\* nobody an answer.
Fairness == \A t \in Turns : WF_vars(Step(t))

FairSpec == Spec /\ Fairness

----------------------------------------------------------------------------
(* Properties.                                                             *)

InTool(t) == turn[t].at \in {"sending", "waiting", "running", "returned"}

\* No turn exceeds its limits: at most one round past max_model_rounds, and
\* that one a summary; no more calls than max_tool_calls; and once any limit is
\* reached no tool is asked for, run or journaled (run_inner and
\* execute_round_calls, lib.rs 895-1028).
LimitsHold ==
    \A t \in Turns :
      /\ turn[t].rounds <= Limits[t].rounds + 1
      /\ At(t, "model") /\ turn[t].rounds > Limits[t].rounds => turn[t].limit # "none"
      /\ journal[t].requested <= turn[t].calls /\ turn[t].calls <= Limits[t].calls
      /\ InTool(t) => turn[t].limit = "none" /\ turn[t].bytes <= Limits[t].bytes

\* Whenever the model is asked again, every tool call it made so far has its
\* result message: executed, rejected, or answered as not executed
\* (execute_round_calls, lib.rs 998-999).
AnsweredEachCall ==
    \A t \in Turns :
      /\ At(t, "model") => turn[t].open = 0
      /\ At(t, "calls") \/ InTool(t) => turn[t].open = Len(turn[t].todo) /\ turn[t].open > 0

\* A tool that is neither passive nor configured runs only in a turn, or a
\* team of it, where the user allowed that very tool and arguments; and none
\* runs in plan mode (authorize, TurnApprovals::decide).
RunsOnlyAllowed ==
    \A t \in Turns : At(t, "running") =>
      /\ turn[t].mode # "plan"
      /\ \/ Request(t) \in Configured
         \/ turn[t].mode = "auto" /\ Request(t) = "read"
         \/ \E g \in granted : g[3] = Request(t)

\* What the journal holds of a turn it shows as ended: every tool that was
\* requested has its end, but for the one at which the turn broke off; and it
\* is complete only if the model's answer ended it.
JournalTells ==
    \A t \in Turns : journal[t].end # "none" =>
      /\ journal[t].started
      /\ journal[t].requested \in {journal[t].finished, journal[t].finished + 1}
      /\ turn[t].outcome \in Good => journal[t].requested = journal[t].finished
      /\ journal[t].end = "complete" <=> turn[t].outcome = "answered"

\* A turn without a team ends at its deadline only after turn_timeout of its
\* own work: the time the user took to decide is given back (execute_tool,
\* lib.rs 1155-1157).
OwnWaitIsNotWork ==
    \A t \in Turns : turn[t].outcome = "deadline" /\ (t = Main => team = NoTeam)
      => work[t] = TurnTimeout

\* The same for every turn: for a main turn that waits for helpers which wait
\* for the user.
WaitingIsNotWork ==
    \A t \in Turns : turn[t].outcome = "deadline" => work[t] = TurnTimeout

\* Helpers work only while the main turn is in the tool call that started
\* them, unless a thread could not be started; their registry entries are
\* settled only when they have ended (run_team).
HelpersWithTurn ==
    \A h \in Helpers :
      /\ team.state # "short" /\ Working(h) => RunningTeam
      /\ registry[h] \in {"done", "failed"} => At(h, "over")

\* A cancelled turn ends, with all its helpers, whoever it is waiting for and
\* even if the user never answers.
CancelEnds == cancelled ~> \A t \in Turns : ~Working(t)
=============================================================================
