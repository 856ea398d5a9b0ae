---------------------------- MODULE BackgroundJobs ----------------------------
(***************************************************************************)
(* The processes around the job ledger, crates/crumb-cli/src/main.rs:      *)
(* workers (`crumb jobs run`, started for a new job, by a tick or by       *)
(* hand), interactive sessions that hand their running turn over to the    *)
(* ledger (/background), and users who cancel jobs.                       *)
(*                                                                         *)
(* A process is a list of ledger updates with its work between them; every *)
(* update is the steps of JobStore, and other processes act in between.    *)
(***************************************************************************)
EXTENDS JobStore

CONSTANT MayCrash   \* bound: the processes that may die

VARIABLES
    pc,         \* process -> what it does next
    mine,       \* process -> the job it works for
    stopped,    \* processes whose cancellation token is set
    \* History, never read by an action's guard.
    claims,     \* [job, run, by]: the claims handed to processes
    prompts,    \* [job, run, by]: the requests submitted to a model
    cancelled   \* jobs a cancel call was accepted for

history == <<claims, prompts, cancelled>>
vars == <<store, pc, mine, stopped, history>>

\* What the process asks of the ledger at each point of its program.
AskOf == [claim |-> "claim", adopt |-> "claim", attach |-> "attach", join |-> "attach",
          cancel |-> "cancel", withdraw |-> "cancel", interrupt |-> "cancel",
          succeed |-> "succeed", fail |-> "fail"]
Asking == DOMAIN AskOf

\* Where it goes on.  Nobody repeats an update that was refused.
AfterOk == [claim |-> "prepare", adopt |-> "join", attach |-> "working", join |-> "carrying",
            cancel |-> "done", withdraw |-> "done", interrupt |-> "fail",
            succeed |-> "done", fail |-> "done"]
AfterRefusal == [claim |-> "done", adopt |-> "withdraw", attach |-> "fail", join |-> "fail",
                 cancel |-> "done", withdraw |-> "done", interrupt |-> "done",
                 succeed |-> "done", fail |-> "done"]

Pcs == Asking \cup {"off", "turn", "prepare", "working", "carrying", "done"}

Init ==
    /\ StoreInit
    /\ pc = [p \in Procs |-> "off"]
    /\ mine = [p \in Procs |-> NoJob]
    /\ stopped = {}
    /\ claims = {} /\ prompts = {} /\ cancelled = {}

Goto(p, l) == pc' = [pc EXCEPT ![p] = l]
Become(p, l, j) == Goto(p, l) /\ mine' = [mine EXCEPT ![p] = j]
Live(p, l) == pc[p] = l /\ p \notin crashed
Run(p) == [job |-> mine[p], run |-> Ledger[mine[p]].run, by |-> p]
State(j) == IF manifest[j] = NoJob THEN "unreadable" ELSE manifest[j].state

----------------------------------------------------------------------------
(* How processes start *)

\* /jobs create and /jobs schedule
CreateJob(p, j) ==
    /\ Live(p, "off")
    /\ \E s \in Schedules : Create(p, j, s)
    /\ UNCHANGED <<pc, mine, stopped, history>>

\* `crumb jobs run <id>`: launched after a create, by a tick, or by hand.
StartWorker(p, j) ==
    /\ Live(p, "off") /\ Exists(j)
    /\ Become(p, "claim", j)
    /\ UNCHANGED <<store, stopped, history>>

\* /jobs cancel <id>
StartCancel(p, j) ==
    /\ Live(p, "off") /\ Exists(j)
    /\ Become(p, "cancel", j)
    /\ UNCHANGED <<store, stopped, history>>

\* promote_agent_turn: a job is created for the prompt of the running turn.
Promote(p, j) ==
    /\ Live(p, "off")
    /\ Create(p, j, [run |-> 0, repeat |-> FALSE])
    /\ Become(p, "adopt", j)
    /\ prompts' = prompts \cup {[job |-> j, run |-> 0, by |-> p]}
    /\ UNCHANGED <<stopped, claims, cancelled>>

----------------------------------------------------------------------------
(* Ledger updates *)

Ask(p) ==
    /\ pc[p] \in Asking /\ outcome[p] = "none"
    /\ Acquire(p, mine[p], AskOf[pc[p]]) \/ Busy(p, mine[p])
    /\ UNCHANGED <<pc, mine, stopped, history>>

Update(p) == Proceed(p) /\ UNCHANGED <<pc, mine, stopped, history>>

\* The update succeeded.  A worker whose session is attached submits the request.
Resume(p) ==
    /\ outcome[p] = "ok" /\ p \notin crashed
    /\ Consume(p)
    /\ Goto(p, AfterOk[pc[p]])
    /\ claims' = IF AskOf[pc[p]] = "claim" THEN claims \cup {Run(p)} ELSE claims
    /\ prompts' = IF pc[p] = "attach" THEN prompts \cup {Run(p)} ELSE prompts
    /\ cancelled' = IF AskOf[pc[p]] = "cancel" THEN cancelled \cup {mine[p]} ELSE cancelled
    /\ UNCHANGED <<manifest, backup, temp, lock, now, call, crashed, mine, stopped>>

GiveUp(p) ==
    /\ outcome[p] = "refused" /\ p \notin crashed
    /\ Consume(p)
    /\ Goto(p, AfterRefusal[pc[p]])
    /\ UNCHANGED <<manifest, backup, temp, lock, now, call, crashed, mine, stopped, history>>

----------------------------------------------------------------------------
(* The work between the updates *)

\* AgentRuntime::new and prepare_local_job
Prepare(p) ==
    /\ Live(p, "prepare")
    /\ Goto(p, "attach") \/ Goto(p, "fail")
    /\ UNCHANGED <<store, mine, stopped, history>>

\* The worker's monitor thread, and the thread that carries a promoted turn,
\* inspect the job without its lock.
Notice(p) ==
    /\ pc[p] \in {"working", "carrying"} /\ p \notin crashed \cup stopped
    /\ State(mine[p]) = "cancelling"
    /\ stopped' = stopped \cup {p}
    /\ UNCHANGED <<store, pc, mine, history>>

\* Ctrl-C sets a worker's token without the ledger.
Interrupt(p) ==
    /\ Live(p, "working") /\ p \notin stopped
    /\ stopped' = stopped \cup {p}
    /\ UNCHANGED <<store, pc, mine, history>>

\* The turn ends well, in spite of a set token if it was done before it saw it.
TurnSucceeds(p) ==
    /\ Live(p, "working") \/ Live(p, "carrying")
    /\ Goto(p, "succeed")
    /\ UNCHANGED <<store, mine, stopped, history>>

\* It fails.  A worker whose token is set looks at the job first: one still
\* running was interrupted and is cancelled before it is finished; if the
\* manifest is being swapped the worker exits and finishes nothing.
TurnFails(p) ==
    /\ \/ Live(p, "carrying") /\ Goto(p, "fail")
       \/ /\ Live(p, "working")
          /\ Goto(p, IF p \notin stopped THEN "fail"
                     ELSE IF State(mine[p]) = "running" THEN "interrupt"
                     ELSE IF State(mine[p]) = "unreadable" THEN "done" ELSE "fail")
    /\ UNCHANGED <<store, mine, stopped, history>>

Die(p) ==
    /\ p \in MayCrash /\ pc[p] \notin {"off", "done"}
    /\ Crash(p)
    /\ UNCHANGED <<pc, mine, stopped, history>>

Tick(j) == Due(j) /\ UNCHANGED <<pc, mine, stopped, history>>

Step(p) == Ask(p) \/ Update(p) \/ Resume(p) \/ GiveUp(p) \/ Prepare(p) \/ Notice(p)

Next ==
    \/ \E p \in Procs :
          \/ Step(p) \/ Interrupt(p) \/ TurnSucceeds(p) \/ TurnFails(p) \/ Die(p)
          \/ \E j \in Jobs :
                CreateJob(p, j) \/ StartWorker(p, j) \/ StartCancel(p, j) \/ Promote(p, j)
    \/ \E j \in Jobs : Tick(j)

Spec == Init /\ [][Next]_vars

(***************************************************************************)
(* Fairness.  A process that is between or inside its updates runs on, the *)
(* monitor polls every 100 ms, and a turn ends: its rounds are bounded and *)
(* it is cancelled once its token is set.                                  *)
(***************************************************************************)
FairSpec ==
    /\ Spec
    /\ \A p \in Procs : WF_vars(Step(p)) /\ WF_vars(TurnSucceeds(p) \/ TurnFails(p))

----------------------------------------------------------------------------
(* Invariants *)

Runs == [job : Jobs, run : 0 .. LastRun, by : Procs]

\* Every variable has its type: the files of each job and the program
\* counter, ledger call and cancellation token of each process.
TypeOK ==
    /\ StoreTypeOK
    /\ crashed \subseteq MayCrash
    /\ pc \in [Procs -> Pcs]
    /\ mine \in [Procs -> Jobs \cup {NoJob}]
    /\ stopped \in SUBSET Procs
    /\ claims \in SUBSET Runs /\ prompts \in SUBSET Runs
    /\ cancelled \in SUBSET Jobs

\* "crumb jobs run <id> claims exactly one due job": however many ticks,
\* workers and promoting sessions compete, one run of a job is claimed by one
\* process.
OneRunner ==
    \A a, b \in claims : a.job = b.job /\ a.run = b.run => a.by = b.by

\* A cancel call that was accepted is not undone: neither the worker's finish
\* nor a later claim overwrites it, and the job is not queued for another run.
CancelSticks ==
    \A j \in cancelled : Ledger[j].state \in {"cancelling", "cancelled"}

\* The session that `/jobs reattach` resumes is the one of the process that
\* claimed the job's current run, never one left over from an earlier run.
SessionOfThisRun ==
    \A j \in Jobs :
        LET d == Ledger[j] IN
        d # NoJob /\ d.session # NoSession =>
            [job |-> j, run |-> d.run, by |-> d.session] \in claims

\* The lock file serialises updates: a process inside one holds the lock.  Where
\* a manifest is missing, inside the swap or after a death or failing renames in
\* it, nothing is lost: job.bak is the job before one update and job.tmp the job
\* after it, and no other update gets past its lock.
ExclusiveUpdate ==
    /\ \A p \in Procs : call[p].step # "idle" => lock[call[p].job] = p
    /\ \A j \in Jobs :
          backup[j] # NoJob /\ manifest[j] = NoJob =>
              /\ \E p \in Procs, a \in Asks :
                    Permits(backup[j], a) /\ temp[j] = Updated(p, backup[j], a)
              /\ \A p \in Procs :
                    call[p].step # "idle" /\ call[p].job = j =>
                        call[p].step \in {"locked", "swapped"}

----------------------------------------------------------------------------
(* Claims of the documentation that the code does not keep *)

\* "The prompt is not submitted again": the prompt of a promoted turn is
\* submitted by the turn alone.
PromptSubmittedOnce ==
    \A a, b \in prompts : a.job = b.job /\ a.run = b.run => a.by = b.by

\* "/jobs cancel updates the ledger; the worker observes it": as long as
\* nobody dies, a job whose cancellation was requested ends.
CancelLands ==
    \A j \in Jobs : (State(j) = "cancelling") ~> (State(j) = "cancelled")
=============================================================================
