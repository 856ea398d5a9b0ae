------------------------------ MODULE Processes ------------------------------
(***************************************************************************)
(* The background commands of one session (crumb-tools/background.rs):     *)
(* their records, kept under one mutex by the Crumb process that has the   *)
(* session open, the manifest from which the next process learns of them,  *)
(* and the commands themselves, which run, write their logs and end as     *)
(* they like.  A Crumb process may end in order (Inner is dropped) or not, *)
(* and any save of the manifest may fail.                                  *)
(*                                                                         *)
(* An action is one operation under the mutex; check_background, the       *)
(* runtime context and each look of wait_for are Check.  A start that      *)
(* fails before its command runs leaves what Check leaves.                 *)
(***************************************************************************)
EXTENDS Naturals, Sequences, FiniteSetsExt, Functions

CONSTANTS
    MaxJobs,    \* MAX_JOBS: commands that may run at a time
    MaxStarts,  \* bound on the commands started, in all processes
    MaxOpens    \* bound on the processes that open the session

ASSUME MaxJobsAssumption == MaxJobs \in Nat
ASSUME BoundsAssumption == MaxStarts \in Nat /\ MaxOpens \in Nat

VARIABLES
    up,        \* a Crumb process has the session open
    jobs,      \* its list: records with the command they stand for and its handle
    manifest,  \* the records as last saved
    commands,  \* the commands ever started: the log they write, its size, their life
    \* History: what happened, never read by an action's guard.
    opens,     \* processes that opened the session (a bound reads it)
    before,    \* commands started before the last of them
    closed,    \* that one ended in order
    told      \* what the agent was told of its starts: job number and command

vars == <<up, jobs, manifest, commands, opens, before, closed, told>>

\* Stopped has a reason: the agent, the size of the log, or Crumb's exit.
Final == {"exited", "stopped", "oversized", "closed"}
Statuses == Final \cup {"running", "interrupted"}

Init ==
    /\ up = FALSE
    /\ jobs = <<>> /\ manifest = <<>> /\ commands = <<>>
    /\ opens = 0 /\ before = 0 /\ closed = TRUE /\ told = {}

----------------------------------------------------------------------------
Settled(j, status) ==
    [id |-> j.id, command |-> j.command, child |-> FALSE, status |-> status]
Saved(list) == [i \in DOMAIN list |->
    [id |-> list[i].id, command |-> list[i].command, status |-> list[i].status]]

\* save_manifest, by a rename: the new one, or still the old one.
Save(list) == manifest' \in {manifest, Saved(list)}

\* Commands once those in K are terminated with their groups.
Without(cs, K) == [c \in DOMAIN cs |-> [cs[c] EXCEPT !.alive = @ /\ c \notin K]]

Oversized(j) == \E c \in DOMAIN commands : commands[c].log = j.id /\ commands[c].big
Capped(j) == j.child /\ Oversized(j)

\* Mutant: an oversized log ends the job but not its command.
RefreshSparing == [jobs |-> [i \in DOMAIN jobs |->
       IF Capped(jobs[i]) THEN Settled(jobs[i], "oversized") ELSE jobs[i]],
    commands |-> commands]

\* refresh: what has ended is settled, and what writes too much is ended.
Refresh == [jobs |-> [i \in DOMAIN jobs |->
       IF Capped(jobs[i]) THEN Settled(jobs[i], "oversized")
       ELSE IF jobs[i].child /\ ~commands[jobs[i].command].alive
       THEN Settled(jobs[i], "exited")
       ELSE jobs[i]],
    commands |-> Without(commands, {j.command : j \in {j \in Range(jobs) : Capped(j)}})]

Running(list) == {i \in DOMAIN list : list[i].status = "running"}

----------------------------------------------------------------------------
Opened(r) == [id |-> r.id, command |-> r.command, child |-> FALSE,
              status |-> IF r.status = "running" THEN "interrupted" ELSE r.status]

\* new
Open ==
    /\ ~up /\ opens < MaxOpens
    /\ up' = TRUE
    /\ jobs' = [i \in DOMAIN manifest |-> Opened(manifest[i])]
    /\ opens' = opens + 1 /\ before' = Len(commands) /\ closed' = FALSE
    /\ UNCHANGED <<manifest, commands, told>>

\* records, context_summary, and each round of wait_for
Check ==
    /\ up
    /\ jobs' = Refresh.jobs /\ commands' = Refresh.commands
    /\ UNCHANGED <<up, manifest, opens, before, closed, told>>

\* Mutant: numbers are counted over the jobs that run.
NewIdCounted(list) == Cardinality(Running(list)) + 1

NewId(list) == Max({0} \cup {j.id : j \in Range(list)}) + 1

\* The log is created empty, also where an older command still writes to it.
Launched(id) ==
    Append([c \in DOMAIN Refresh.commands |->
               [Refresh.commands[c] EXCEPT !.big = @ /\ Refresh.commands[c].log # id]],
           [log |-> id, big |-> FALSE, alive |-> TRUE])

NewJob(id) == [id |-> id, command |-> Len(commands) + 1, child |-> TRUE,
               status |-> "running"]

\* Mutant: a job that could not be saved is forgotten.
StartUnkept ==
    LET id == NewId(Refresh.jobs) list == Append(Refresh.jobs, NewJob(id)) IN
    /\ up /\ Len(commands) < MaxStarts
    /\ Cardinality(Running(Refresh.jobs)) < MaxJobs
    /\ commands' = Launched(id)
    /\ \/ jobs' = list /\ manifest' = Saved(list)
          /\ told' = told \cup {<<id, Len(commands) + 1>>}
       \/ jobs' = Refresh.jobs /\ UNCHANGED <<manifest, told>>
    /\ UNCHANGED <<up, opens, before, closed>>

\* start: the job runs and is listed whether or not it can be saved.
Start ==
    LET id == NewId(Refresh.jobs) list == Append(Refresh.jobs, NewJob(id)) IN
    /\ up /\ Len(commands) < MaxStarts
    /\ Cardinality(Running(Refresh.jobs)) < MaxJobs
    /\ commands' = Launched(id)
    /\ jobs' = list
    /\ \/ manifest' = Saved(list) /\ told' = told \cup {<<id, Len(commands) + 1>>}
       \/ UNCHANGED <<manifest, told>>
    /\ UNCHANGED <<up, opens, before, closed>>

\* stop; only what has a handle can be ended
Stop(i) ==
    LET j == Refresh.jobs[i]
        list == IF j.child THEN [Refresh.jobs EXCEPT ![i] = Settled(j, "stopped")]
                ELSE Refresh.jobs
    IN
    /\ up
    /\ jobs' = list
    /\ commands' = Without(Refresh.commands, IF j.child THEN {j.command} ELSE {})
    /\ Save(list)
    /\ UNCHANGED <<up, opens, before, closed, told>>

\* Mutant: all jobs are closed, with a command or without.
LeftAll == [i \in DOMAIN jobs |-> Settled(jobs[i], "closed")]

Left == [i \in DOMAIN jobs |->
    IF jobs[i].child THEN Settled(jobs[i], "closed") ELSE jobs[i]]

\* Inner::drop
Close ==
    /\ up
    /\ up' = FALSE /\ closed' = TRUE /\ jobs' = <<>>
    /\ commands' = Without(commands, {j.command : j \in {j \in Range(jobs) : j.child}})
    /\ Save(Left)
    /\ UNCHANGED <<opens, before, told>>

----------------------------------------------------------------------------
(* The world. *)

\* The process is killed; its commands run on in their own groups.
Crash ==
    /\ up
    /\ up' = FALSE /\ jobs' = <<>>
    /\ UNCHANGED <<manifest, commands, opens, before, closed, told>>

Exit(c) ==
    /\ commands[c].alive
    /\ commands' = [commands EXCEPT ![c] = [@ EXCEPT !.alive = FALSE]]
    /\ UNCHANGED <<up, jobs, manifest, opens, before, closed, told>>

\* The log outgrows MAX_LOG_BYTES.
Grow(c) ==
    /\ commands[c].alive /\ ~commands[c].big
    /\ commands' = [commands EXCEPT ![c] = [@ EXCEPT !.big = TRUE]]
    /\ UNCHANGED <<up, jobs, manifest, opens, before, closed, told>>

Next ==
    \/ Open \/ Check \/ Start \/ Close \/ Crash
    \/ \E i \in DOMAIN jobs : Stop(i)
    \/ \E c \in DOMAIN commands : Exit(c) \/ Grow(c)

Spec == Init /\ [][Next]_vars

----------------------------------------------------------------------------
(* The values of the state; a job is listed as running exactly while its
   command can be waited for. *)
TypeOK ==
    /\ up \in BOOLEAN /\ closed \in BOOLEAN
    /\ jobs \in Seq([id : 1..MaxStarts, command : DOMAIN commands, child : BOOLEAN,
                     status : Statuses])
    /\ manifest \in Seq([id : 1..MaxStarts, command : DOMAIN commands, status : Statuses])
    /\ commands \in Seq([log : 1..MaxStarts, big : BOOLEAN, alive : BOOLEAN])
    /\ opens \in 0..MaxOpens /\ before \in 0..Len(commands)
    /\ told \subseteq (1..MaxStarts) \X DOMAIN commands
    /\ \A j \in Range(jobs) : j.child <=> j.status = "running"

\* A job the agent was told of keeps its number, and its record outlives every
\* crash and every later save that fails: the number never comes to mean another
\* command (background.rs 7, "a manifest records every job so a resumed session
\* knows what ran").
KnownJobs ==
    \A t \in told :
        /\ {r.command : r \in {r \in Range(manifest) : r.id = t[1]}} = {t[2]}
        /\ up => {j.command : j \in {j \in Range(jobs) : j.id = t[1]}} = {t[2]}

\* What is recorded as over is over: no command still runs whose job is said,
\* in memory or in the manifest, to have exited or been stopped.
OverIsOver ==
    \A r \in Range(jobs) \cup Range(manifest) :
        r.status \in Final => ~commands[r.command].alive

\* The commands of a process are at most MAX_JOBS at a time, and none of them
\* outlives a process that ends in order (background.rs 8, "Jobs still running
\* when Crumb exits are stopped with it"), whatever could not be saved.
OwnCommands ==
    LET own == {c \in DOMAIN commands : c > before /\ commands[c].alive} IN
    /\ Cardinality(own) <= MaxJobs
    /\ ~up /\ closed => own = {}

\* How a job ended, once saved, is never rewritten.
EndsStay ==
    [][\A i \in DOMAIN manifest :
          manifest[i].status \in Final => manifest'[i] = manifest[i]]_vars
=============================================================================
