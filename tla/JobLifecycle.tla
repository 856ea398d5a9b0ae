----------------------------- MODULE JobLifecycle -----------------------------
(***************************************************************************)
(* What the job ledger promises for each background job, with no files,    *)
(* locks or processes: a queued job is claimed for its due run, a claimed  *)
(* run is finished or cancelled, and only a recurring job that succeeded   *)
(* is queued again, for the next run.                                      *)
(***************************************************************************)
EXTENDS Naturals

CONSTANTS
    Jobs,
    Sessions,       \* identifiers of agent sessions
    NoSession, NoJob

VARIABLE job        \* job -> its definition, or NoJob

\* The run a job waits for counts from 1; a job for at once waits for run 0.
Schedules == {[run |-> 0, repeat |-> FALSE], [run |-> 1, repeat |-> FALSE],
              [run |-> 1, repeat |-> TRUE]}
Fresh(s) == [state |-> "queued", run |-> s.run, repeat |-> s.repeat, session |-> NoSession]

Turn(j, before, after) ==
    /\ job[j].state \in before
    /\ job' = [job EXCEPT ![j] = after]

Init == job = [j \in Jobs |-> NoJob]

Create(j, s) ==
    /\ job[j] = NoJob
    /\ job' = [job EXCEPT ![j] = Fresh(s)]
Claim(j) == Turn(j, {"queued"}, [job[j] EXCEPT !.state = "running"])
Attach(j, s) == Turn(j, {"running"}, [job[j] EXCEPT !.session = s])
Cancel(j) ==
    \/ Turn(j, {"queued"}, [job[j] EXCEPT !.state = "cancelled"])
    \/ Turn(j, {"running"}, [job[j] EXCEPT !.state = "cancelling"])
Succeed(j) ==
    IF job[j].repeat
    THEN Turn(j, {"running"}, [job[j] EXCEPT !.state = "queued", !.run = @ + 1,
                                             !.session = NoSession])
    ELSE Turn(j, {"running"}, [job[j] EXCEPT !.state = "completed"])
Fail(j) == Turn(j, {"running"}, [job[j] EXCEPT !.state = "failed"])
Stop(j) == Turn(j, {"cancelling"}, [job[j] EXCEPT !.state = "cancelled"])

Change(j) ==
    \/ Claim(j) \/ Cancel(j) \/ Succeed(j) \/ Fail(j) \/ Stop(j)
    \/ \E s \in Sessions : Attach(j, s)

Next ==
    \E j \in Jobs :
        \/ \E s \in Schedules : Create(j, s)
        \/ job[j] # NoJob /\ Change(j)

Spec == Init /\ [][Next]_job
=============================================================================
