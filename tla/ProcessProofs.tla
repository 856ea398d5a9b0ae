---------------------------- MODULE ProcessProofs ----------------------------
(***************************************************************************)
(* What Processes shows on small instances, proved for any number of       *)
(* commands, jobs and Crumb processes.                                     *)
(***************************************************************************)
EXTENDS Processes, FiniteSetTheorems, SequenceTheorems, TLAPS

Job == [id : Nat, command : Nat, child : BOOLEAN, status : Statuses]
Entry == [id : Nat, command : Nat, status : Statuses]
Command == [log : Nat, big : BOOLEAN, alive : BOOLEAN]

\* A list of jobs over commands: numbered by position, waiting exactly for what
\* it lists as running, and right about what it lists as over.
Listed(list, cs) ==
    \A i \in DOMAIN list :
        /\ list[i].id = i
        /\ list[i].command \in DOMAIN cs
        /\ list[i].child <=> list[i].status = "running"
        /\ list[i].status \in Final => ~cs[list[i].command].alive

\* The same for the saved list, which waits for nothing.
Told(list, cs) ==
    \A i \in DOMAIN list :
        /\ list[i].id = i
        /\ list[i].command \in DOMAIN cs
        /\ list[i].status \in Final => ~cs[list[i].command].alive

\* A list went on from an earlier one: nothing lost, and what was over stays so.
Follows(list, earlier) ==
    /\ DOMAIN earlier \subseteq DOMAIN list
    /\ \A i \in DOMAIN earlier :
          /\ list[i].command = earlier[i].command
          /\ earlier[i].status \in Final => list[i].status = earlier[i].status

\* Commands went on from earlier ones: more may have begun, none came back to life.
Later(cs, earlier) ==
    /\ DOMAIN earlier \subseteq DOMAIN cs
    /\ \A c \in DOMAIN earlier : cs[c].alive => earlier[c].alive

\* What the current process, or the last one, has alive.
Own(cs) == {c \in DOMAIN cs : c > before /\ cs[c].alive}
Waited(list, cs) ==
    \A c \in Own(cs) : \E i \in DOMAIN list : list[i].child /\ list[i].command = c

TypeInv ==
    /\ up \in BOOLEAN /\ closed \in BOOLEAN
    /\ jobs \in Seq(Job) /\ manifest \in Seq(Entry) /\ commands \in Seq(Command)
    /\ before \in Nat

ToldInv ==
    \A t \in told : t[1] \in DOMAIN manifest /\ manifest[t[1]].command = t[2]

OwnInv ==
    /\ up => ~closed
    /\ Cardinality(Own(commands)) <= MaxJobs
    /\ up => Waited(jobs, commands)
    /\ ~up /\ closed => Own(commands) = {}

Inv ==
    /\ TypeInv
    /\ Listed(jobs, commands) /\ Told(manifest, commands)
    /\ up => Follows(jobs, manifest)
    /\ ToldInv
    /\ OwnInv

----------------------------------------------------------------------------
(* Lists and commands. *)

LEMMA FunctionIsSequence ==
  ASSUME NEW S, NEW n \in Nat, NEW f \in [1..n -> S]
  PROVE  f \in Seq(S) /\ Len(f) = n /\ DOMAIN f = 1..n
<1>1. f \in Seq(S)
  BY SeqDef
<1> QED
  BY <1>1, LenProperties

LEMMA SettledJob ==
  ASSUME NEW j \in Job, NEW s \in Final
  PROVE  /\ Settled(j, s) \in Job
         /\ Settled(j, s).id = j.id /\ Settled(j, s).command = j.command
         /\ Settled(j, s).child = FALSE /\ Settled(j, s).status = s
<1>1. s \in Statuses
  BY DEF Statuses
<1> QED
  BY <1>1 DEF Settled, Job

\* What a refresh makes of the list.
LEMMA RefreshedJobs ==
  ASSUME jobs \in Seq(Job), commands \in Seq(Command), Listed(jobs, commands)
  PROVE  /\ Refresh.jobs \in Seq(Job) /\ DOMAIN Refresh.jobs = DOMAIN jobs
         /\ Len(Refresh.jobs) = Len(jobs)
         /\ \A i \in DOMAIN jobs :
               \/ Refresh.jobs[i] = jobs[i] /\ ~Capped(jobs[i])
                  /\ (jobs[i].child => commands[jobs[i].command].alive)
               \/ /\ jobs[i].child
                  /\ Capped(jobs[i]) \/ ~commands[jobs[i].command].alive
                  /\ Refresh.jobs[i].id = i /\ Refresh.jobs[i].command = jobs[i].command
                  /\ ~Refresh.jobs[i].child
                  /\ Refresh.jobs[i].status \in Final
<1>1. DOMAIN jobs = 1..Len(jobs) /\ Len(jobs) \in Nat
  BY LenProperties
<1>3. \A i \in DOMAIN jobs : jobs[i] \in Job
  BY <1>1, ElementOfSeq
<1>2. \A i \in DOMAIN jobs, s \in Final :
         LET k == Settled(jobs[i], s) IN
         k \in Job /\ k.id = jobs[i].id /\ k.command = jobs[i].command /\ ~k.child /\ k.status = s
  BY <1>3, SettledJob
<1>4. Refresh.jobs \in [1..Len(jobs) -> Job]
  BY <1>1, <1>2, <1>3 DEF Refresh, Final
<1>5. \A i \in DOMAIN jobs :
               \/ Refresh.jobs[i] = jobs[i] /\ ~Capped(jobs[i])
                  /\ (jobs[i].child => commands[jobs[i].command].alive)
               \/ /\ jobs[i].child
                  /\ Capped(jobs[i]) \/ ~commands[jobs[i].command].alive
                  /\ Refresh.jobs[i].id = i /\ Refresh.jobs[i].command = jobs[i].command
                  /\ ~Refresh.jobs[i].child
                  /\ Refresh.jobs[i].status \in Final
  BY <1>2 DEF Refresh, Final, Listed, Capped
<1>6. Refresh.jobs \in Seq(Job) /\ Len(Refresh.jobs) = Len(jobs) /\ DOMAIN Refresh.jobs = 1..Len(jobs)
  BY <1>1, <1>4, FunctionIsSequence
<1> QED
  BY <1>1, <1>5, <1>6

\* Commands some of which are terminated.
LEMMA Terminated ==
  ASSUME NEW cs \in Seq(Command), NEW K
  PROVE  /\ Without(cs, K) \in Seq(Command)
         /\ DOMAIN Without(cs, K) = DOMAIN cs
         /\ Len(Without(cs, K)) = Len(cs)
         /\ \A c \in DOMAIN cs : Without(cs, K)[c].alive <=> cs[c].alive /\ c \notin K
<1>1. DOMAIN cs = 1..Len(cs) /\ Len(cs) \in Nat
  BY LenProperties
<1>2. \A c \in DOMAIN cs : cs[c] \in Command
  BY <1>1, ElementOfSeq
<1>3. \A c \in DOMAIN cs :
         LET k == [cs[c] EXCEPT !.alive = @ /\ c \notin K] IN
         k \in Command /\ (k.alive <=> cs[c].alive /\ c \notin K)
  BY <1>2 DEF Command
<1>4. Without(cs, K) = [c \in 1..Len(cs) |-> [cs[c] EXCEPT !.alive = @ /\ c \notin K]]
  BY <1>1 DEF Without
<1>5. Without(cs, K) \in [1..Len(cs) -> Command]
  BY <1>1, <1>3, <1>4
<1>6. \A c \in DOMAIN cs : Without(cs, K)[c].alive <=> cs[c].alive /\ c \notin K
  BY <1>1, <1>3, <1>4
<1>7. /\ Without(cs, K) \in Seq(Command) /\ Len(Without(cs, K)) = Len(cs)
      /\ DOMAIN Without(cs, K) = 1..Len(cs)
  BY <1>1, <1>5, FunctionIsSequence
<1> QED
  BY <1>1, <1>6, <1>7

\* What a refresh makes of the commands: those of the capped jobs are terminated.
LEMMA RefreshedCommands ==
  ASSUME jobs \in Seq(Job), commands \in Seq(Command)
  PROVE  /\ Refresh.commands \in Seq(Command)
         /\ DOMAIN Refresh.commands = DOMAIN commands
         /\ Len(Refresh.commands) = Len(commands)
         /\ \A c \in DOMAIN commands :
               Refresh.commands[c].alive <=>
                   /\ commands[c].alive
                   /\ \A i \in DOMAIN jobs : Capped(jobs[i]) => jobs[i].command # c
<1> DEFINE K == {j.command : j \in {j \in Range(jobs) : Capped(j)}}
<1>1. \A c : c \in K <=> \E i \in DOMAIN jobs : Capped(jobs[i]) /\ jobs[i].command = c
  BY DEF Range
<1>2. Refresh.commands = Without(commands, K)
  BY DEF Refresh
<1> HIDE DEF K
<1> QED
  BY <1>1, <1>2, Terminated

\* A refresh keeps a good list good and goes on from it.
LEMMA Refreshes ==
  ASSUME TypeInv, Listed(jobs, commands), Told(manifest, commands), Follows(jobs, manifest)
  PROVE  /\ Listed(Refresh.jobs, Refresh.commands)
         /\ Follows(Refresh.jobs, jobs) /\ Follows(Refresh.jobs, manifest)
         /\ Told(manifest, Refresh.commands)
         /\ Own(Refresh.commands) \subseteq Own(commands)
         /\ Waited(jobs, commands) => Waited(Refresh.jobs, Refresh.commands)
<1> USE DEF TypeInv
<1>1. Listed(Refresh.jobs, Refresh.commands)
  <2> SUFFICES ASSUME NEW i \in DOMAIN jobs
                PROVE /\ Refresh.jobs[i].id = i
                      /\ Refresh.jobs[i].command \in DOMAIN Refresh.commands
                      /\ Refresh.jobs[i].child <=> Refresh.jobs[i].status = "running"
                      /\ Refresh.jobs[i].status \in Final =>
                            ~Refresh.commands[Refresh.jobs[i].command].alive
    BY RefreshedJobs DEF Listed
  <2>1. DOMAIN Refresh.commands = DOMAIN commands /\ jobs[i].command \in DOMAIN commands
    BY RefreshedCommands DEF Listed
  <2>2. CASE Refresh.jobs[i] = jobs[i]
    BY <2>1, <2>2, RefreshedCommands DEF Listed
  <2>3. CASE Refresh.jobs[i] # jobs[i]
    <3>1. /\ Capped(jobs[i]) \/ ~commands[jobs[i].command].alive
          /\ Refresh.jobs[i].id = i /\ Refresh.jobs[i].command = jobs[i].command
          /\ ~Refresh.jobs[i].child
          /\ Refresh.jobs[i].status \in Final
      BY <2>3, RefreshedJobs
    <3>2. ~Refresh.commands[jobs[i].command].alive
      BY <2>1, <3>1, RefreshedCommands
    <3>3. Refresh.jobs[i].status # "running"
      BY <3>1 DEF Final
    <3> QED
      BY <2>1, <3>1, <3>2, <3>3
  <2> QED
    BY <2>2, <2>3
<1>2. Follows(Refresh.jobs, jobs)
  BY RefreshedJobs DEF Listed, Follows, Final
<1>3. Follows(Refresh.jobs, manifest)
  BY <1>2 DEF Follows
<1>4. Told(manifest, Refresh.commands)
  BY RefreshedCommands DEF Told
<1>5. Own(Refresh.commands) \subseteq Own(commands)
  BY RefreshedCommands DEF Own
<1>6. ASSUME Waited(jobs, commands) PROVE Waited(Refresh.jobs, Refresh.commands)
  <2> SUFFICES ASSUME NEW c \in Own(Refresh.commands)
                PROVE \E i \in DOMAIN Refresh.jobs :
                         Refresh.jobs[i].child /\ Refresh.jobs[i].command = c
    BY DEF Waited
  <2>1. c \in Own(commands) /\ c \in DOMAIN commands /\ Refresh.commands[c].alive
    BY <1>5, RefreshedCommands DEF Own
  <2>2. PICK i \in DOMAIN jobs : jobs[i].child /\ jobs[i].command = c
    BY <1>6, <2>1 DEF Waited
  <2>3. ~Capped(jobs[i]) /\ commands[jobs[i].command].alive
    BY <2>1, <2>2, RefreshedCommands
  <2>4. Refresh.jobs[i] = jobs[i] /\ i \in DOMAIN Refresh.jobs
    BY <2>3, RefreshedJobs
  <2> QED
    BY <2>2, <2>4
<1> QED
  BY <1>1, <1>2, <1>3, <1>4, <1>5, <1>6

----------------------------------------------------------------------------
(* What any later list and any later commands keep. *)

LEMMA LaterKeeps ==
  ASSUME NEW list, NEW cs, NEW ds, Later(ds, cs)
  PROVE  (Told(list, cs) => Told(list, ds)) /\ (Listed(list, cs) => Listed(list, ds))
<1>1. Told(list, cs) => Told(list, ds)
  BY DEF Told, Later
<1>2. Listed(list, cs) => Listed(list, ds)
  BY DEF Listed, Later
<1> QED
  BY <1>1, <1>2

\* A refresh only ends commands.
LEMMA RefreshLater ==
  ASSUME TypeInv
  PROVE  Later(Refresh.commands, commands)
BY RefreshedCommands DEF TypeInv, Later

\* What a list that goes on from the manifest saves tells what the manifest told.
LEMMA Saves ==
  ASSUME TypeInv, Told(manifest, commands), NEW cs, NEW list \in Seq(Job),
         Listed(list, cs), Follows(list, manifest)
  PROVE  /\ Saved(list) \in Seq(Entry) /\ DOMAIN Saved(list) = DOMAIN list
         /\ Told(Saved(list), cs) /\ Follows(list, Saved(list))
         /\ DOMAIN manifest \subseteq DOMAIN Saved(list)
         /\ \A i \in DOMAIN manifest : Saved(list)[i].command = manifest[i].command
         /\ \A i \in DOMAIN manifest :
               manifest[i].status \in Final => Saved(list)[i] = manifest[i]
<1>1. DOMAIN list = 1..Len(list) /\ Len(list) \in Nat /\ \A i \in DOMAIN list : list[i] \in Job
  BY LenProperties, ElementOfSeq
<1>2. DOMAIN manifest = 1..Len(manifest) /\ \A i \in DOMAIN manifest : manifest[i] \in Entry
  BY LenProperties, ElementOfSeq DEF TypeInv
<1>3. /\ DOMAIN Saved(list) = DOMAIN list
      /\ \A i \in DOMAIN list :
           /\ Saved(list)[i] = [id |-> list[i].id, command |-> list[i].command,
                                status |-> list[i].status]
           /\ Saved(list)[i] \in Entry
  BY <1>1 DEF Saved, Job, Entry
<1>4. \A i \in DOMAIN list : /\ Saved(list)[i].id = list[i].id
                             /\ Saved(list)[i].command = list[i].command
                             /\ Saved(list)[i].status = list[i].status
  BY <1>3
<1>5. Saved(list) \in Seq(Entry)
  <2>1. Saved(list) \in [1..Len(list) -> Entry]
    BY <1>1, <1>3 DEF Saved
  <2> QED
    BY <1>1, <2>1, FunctionIsSequence
<1>6. Told(Saved(list), cs)
  BY <1>3, <1>4 DEF Told, Listed
<1>7. Follows(list, Saved(list))
  BY <1>3, <1>4 DEF Follows
<1>8. \A i \in DOMAIN manifest :
         i \in DOMAIN list /\ Saved(list)[i].command = manifest[i].command
  BY <1>4 DEF Follows
<1>9. ASSUME NEW i \in DOMAIN manifest, manifest[i].status \in Final
      PROVE  Saved(list)[i] = manifest[i]
  <2>1. i \in DOMAIN list /\ manifest[i].id = list[i].id
    BY DEF Told, Listed, Follows
  <2>2. manifest[i].command = list[i].command /\ manifest[i].status = list[i].status
    BY <1>9 DEF Follows
  <2>3. manifest[i] = [id |-> manifest[i].id, command |-> manifest[i].command,
                       status |-> manifest[i].status]
    BY <1>2 DEF Entry
  <2> QED
    BY <1>3, <2>1, <2>2, <2>3
<1> QED
  BY <1>3, <1>5, <1>6, <1>7, <1>8, <1>9

\* Numbers are positions, so the next number is the next position.
LEMMA NewIdIsNext ==
  ASSUME NEW list \in Seq(Job), \A i \in DOMAIN list : list[i].id = i
  PROVE  NewId(list) = Len(list) + 1
<1>1. DOMAIN list = 1..Len(list) /\ Len(list) \in Nat
  BY LenProperties
<1>2. {0} \cup {j.id : j \in Range(list)} = 0..Len(list)
  BY <1>1 DEF Range
<1>3. Max(0..Len(list)) = Len(list)
  BY <1>1 DEF Max
<1> QED
  BY <1>2, <1>3 DEF NewId

\* The commands of a process are finitely many, at most one for each running job.
LEMMA OwnFinite ==
  ASSUME NEW cs \in Seq(Command)
  PROVE  IsFiniteSet(Own(cs)) /\ Cardinality(Own(cs)) \in Nat
<1>1. DOMAIN cs = 1..Len(cs) /\ Len(cs) \in Nat
  BY LenProperties
<1>2. IsFiniteSet(DOMAIN cs)
  BY <1>1, FS_Interval
<1>3. Own(cs) \in SUBSET DOMAIN cs
  BY DEF Own
<1> QED
  BY <1>2, <1>3, FS_Subset, FS_CardinalityType

LEMMA OwnAtMostRunning ==
  ASSUME NEW cs \in Seq(Command), NEW list \in Seq(Job), Listed(list, cs), Waited(list, cs)
  PROVE  Cardinality(Own(cs)) <= Cardinality(Running(list))
         /\ Cardinality(Running(list)) \in Nat
<1> DEFINE waits(c, i) == i \in DOMAIN list /\ list[i].child /\ list[i].command = c
           f == [c \in Own(cs) |-> CHOOSE i \in Running(list) : waits(c, i)]
<1>1. DOMAIN list = 1..Len(list) /\ Len(list) \in Nat
  BY LenProperties
<1>2. IsFiniteSet(Running(list)) /\ Cardinality(Running(list)) \in Nat
  <2>1. IsFiniteSet(DOMAIN list)
    BY <1>1, FS_Interval
  <2>2. Running(list) \in SUBSET DOMAIN list
    BY DEF Running
  <2> QED
    BY <2>1, <2>2, FS_Subset, FS_CardinalityType
<1>3. \A c \in Own(cs) : \E i \in Running(list) : waits(c, i)
  BY DEF Waited, Running, Listed
<1>4. \A c \in Own(cs) : f[c] \in Running(list) /\ list[f[c]].command = c
  BY <1>3
<1>5. f \in Injection(Own(cs), Running(list))
  <2>1. f \in [Own(cs) -> Running(list)]
    BY <1>4
  <2>2. \A c, d \in Own(cs) : f[c] = f[d] => c = d
    BY <1>4
  <2> HIDE DEF f
  <2> QED
    BY <2>1, <2>2 DEF Injection, IsInjective
<1> HIDE DEF f
<1> QED
  BY <1>2, <1>5, FS_Injection

----------------------------------------------------------------------------
(* Each operation. *)

\* What EndsStay says of a step.
EndsKept ==
    \A i \in DOMAIN manifest :
        manifest[i].status \in Final => manifest'[i] = manifest[i]

\* A save, done or failed, leaves a manifest that tells what it told.
LEMMA Saving ==
  ASSUME TypeInv, Told(manifest, commands), ToldInv,
         NEW cs, Later(cs, commands),
         NEW list \in Seq(Job), Listed(list, cs), Follows(list, manifest), Save(list)
  PROVE  /\ manifest' \in Seq(Entry) /\ Told(manifest', cs) /\ Follows(list, manifest')
         /\ \A t \in told : t[1] \in DOMAIN manifest' /\ manifest'[t[1]].command = t[2]
         /\ EndsKept
<1>1. CASE manifest' = manifest
  BY <1>1, LaterKeeps DEF TypeInv, ToldInv, EndsKept
<1>2. CASE manifest' = Saved(list)
  BY <1>2, Saves DEF ToldInv, EndsKept
<1> QED
  BY <1>1, <1>2 DEF Save

LEMMA OpenKeeps ==
  ASSUME Inv, Open
  PROVE  Inv' /\ EndsKept
<1> USE DEF Inv, TypeInv
<1>1. /\ DOMAIN manifest = 1..Len(manifest) /\ Len(manifest) \in Nat
      /\ \A i \in DOMAIN manifest : manifest[i] \in Entry
  BY LenProperties, ElementOfSeq
<1>2. \A i \in DOMAIN manifest :
         /\ Opened(manifest[i]) \in Job
         /\ Opened(manifest[i]).id = manifest[i].id
         /\ Opened(manifest[i]).command = manifest[i].command
         /\ ~Opened(manifest[i]).child
         /\ Opened(manifest[i]).status =
               IF manifest[i].status = "running" THEN "interrupted" ELSE manifest[i].status
  BY <1>1 DEF Opened, Job, Entry, Statuses
<1>3. jobs' \in Seq(Job) /\ DOMAIN jobs' = DOMAIN manifest
  <2>1. jobs' \in [1..Len(manifest) -> Job]
    BY <1>1, <1>2 DEF Open
  <2> QED
    BY <1>1, <2>1, FunctionIsSequence
<1>4. \A i \in DOMAIN manifest : jobs'[i] = Opened(manifest[i])
  BY DEF Open
<1>5. Listed(jobs', commands)
  <2> SUFFICES ASSUME NEW i \in DOMAIN manifest
               PROVE  /\ jobs'[i].id = i
                      /\ jobs'[i].command \in DOMAIN commands
                      /\ jobs'[i].child <=> jobs'[i].status = "running"
                      /\ jobs'[i].status \in Final => ~commands[jobs'[i].command].alive
    BY <1>3 DEF Listed
  <2>1. /\ jobs'[i].id = manifest[i].id /\ jobs'[i].command = manifest[i].command
        /\ ~jobs'[i].child
        /\ jobs'[i].status =
              IF manifest[i].status = "running" THEN "interrupted" ELSE manifest[i].status
    BY <1>2, <1>4
  <2>2. /\ manifest[i].id = i /\ manifest[i].command \in DOMAIN commands
        /\ manifest[i].status \in Final => ~commands[manifest[i].command].alive
    BY DEF Told
  <2>3. jobs'[i].status # "running" /\ (jobs'[i].status \in Final => manifest[i].status \in Final)
    BY <2>1 DEF Final
  <2> QED
    BY <2>1, <2>2, <2>3
<1>6. Follows(jobs', manifest)
  BY <1>2, <1>3, <1>4 DEF Follows, Final
<1>7. before' \in Nat /\ Own(commands)' = {}
  <2>1. Len(commands) \in Nat /\ DOMAIN commands = 1..Len(commands)
    BY LenProperties
  <2>2. \A c \in 1..Len(commands) : ~(c > Len(commands))
    BY <2>1
  <2> QED
    BY <2>1, <2>2 DEF Own, Open
<1>8. OwnInv'
  <2>1. Cardinality(Own(commands)') = 0
    BY <1>7, FS_EmptySet
  <2>2. Waited(jobs, commands)'
    BY <1>7 DEF Waited
  <2> QED
    BY <1>7, <2>1, <2>2, MaxJobsAssumption DEF OwnInv, Open
<1>9. TypeInv'
  BY <1>3, <1>7 DEF Open
<1>10. Told(manifest, commands)' /\ ToldInv' /\ EndsKept
  BY DEF Open, ToldInv, EndsKept
<1> QED
  BY <1>3, <1>5, <1>6, <1>8, <1>9, <1>10 DEF Open

\* A step that starts nothing leaves the process no more commands than it had.
LEMMA OwnShrinks ==
  ASSUME Inv, commands' \in Seq(Command), Own(commands)' \subseteq Own(commands)
  PROVE  Cardinality(Own(commands)') <= MaxJobs
<1>1. IsFiniteSet(Own(commands)) /\ Cardinality(Own(commands)) \in Nat
  BY OwnFinite DEF Inv, TypeInv
<1>2. Own(commands)' \in SUBSET Own(commands)
  OBVIOUS
<1>3. IsFiniteSet(Own(commands)') /\ Cardinality(Own(commands)') <= Cardinality(Own(commands))
  BY <1>1, <1>2, FS_Subset
<1>4. Cardinality(Own(commands)') \in Nat
  BY <1>3, FS_CardinalityType
<1> QED
  BY <1>1, <1>3, <1>4, MaxJobsAssumption DEF Inv, OwnInv

LEMMA CheckKeeps ==
  ASSUME Inv, Check
  PROVE  Inv' /\ EndsKept
<1> USE DEF Inv
<1>1. up /\ up' = up /\ jobs' = Refresh.jobs /\ commands' = Refresh.commands
      /\ UNCHANGED <<manifest, before, closed, told>>
  BY DEF Check
<1>2. TypeInv'
  BY <1>1, RefreshedJobs, RefreshedCommands DEF TypeInv
<1>3. Listed(jobs', commands') /\ Follows(jobs', manifest') /\ Told(manifest', commands')
  BY <1>1, Refreshes
<1>4. Own(commands)' \subseteq Own(commands)
  <2>1. Own(commands)' = Own(Refresh.commands)
    BY <1>1 DEF Own
  <2> QED
    BY <1>1, <2>1, Refreshes
<1>5. Waited(jobs, commands)'
  <2>1. Waited(Refresh.jobs, Refresh.commands)
    BY <1>1, Refreshes DEF OwnInv
  <2> QED
    BY <1>1, <2>1 DEF Waited, Own
<1>6. OwnInv'
  BY <1>1, <1>2, <1>4, <1>5, OwnShrinks DEF OwnInv, TypeInv
<1>7. ToldInv' /\ EndsKept
  BY <1>1 DEF ToldInv, EndsKept
<1> QED
  BY <1>2, <1>3, <1>6, <1>7

\* A command begins, with a log of its own number.
LEMMA LaunchedCommands ==
  ASSUME TypeInv, NEW id \in Nat
  PROVE  /\ Launched(id) \in Seq(Command)
         /\ DOMAIN Launched(id) = 1..(Len(commands) + 1)
         /\ Later(Launched(id), Refresh.commands)
<1> DEFINE cs == Refresh.commands
           emptied(c) == [cs[c] EXCEPT !.big = @ /\ cs[c].log # id]
           earlier == [c \in DOMAIN cs |-> emptied(c)]
           new == [log |-> id, big |-> FALSE, alive |-> TRUE]
<1>1. cs \in Seq(Command) /\ DOMAIN cs = 1..Len(commands) /\ Len(commands) \in Nat
      /\ Len(cs) = Len(commands)
  BY RefreshedCommands, LenProperties DEF TypeInv
<1>2. \A c \in DOMAIN cs : cs[c] \in Command
  BY <1>1, ElementOfSeq
<1> HIDE DEF cs
<1>3. \A c \in DOMAIN cs : emptied(c) \in Command /\ emptied(c).alive = cs[c].alive
  BY <1>2 DEF Command
<1>4. earlier \in [1..Len(commands) -> Command]
  BY <1>1, <1>3
<1>5. earlier \in Seq(Command) /\ Len(earlier) = Len(commands)
  BY <1>1, <1>4, FunctionIsSequence
<1>6. \A c \in DOMAIN cs : earlier[c].alive = cs[c].alive
  BY <1>3
<1>7. new \in Command
  BY DEF Command
<1> HIDE DEF earlier, new
<1>8. /\ Append(earlier, new) \in Seq(Command)
      /\ Len(Append(earlier, new)) = Len(commands) + 1
      /\ \A c \in 1..Len(commands) : Append(earlier, new)[c] = earlier[c]
  BY <1>5, <1>7, AppendProperties
<1>9. DOMAIN Append(earlier, new) = 1..(Len(commands) + 1)
  BY <1>8, LenProperties
<1>10. Launched(id) = Append(earlier, new)
  BY DEF Launched, earlier, new, cs
<1>11. Later(Append(earlier, new), cs)
  BY <1>1, <1>6, <1>8, <1>9 DEF Later
<1> QED
  BY <1>8, <1>9, <1>10, <1>11 DEF cs

\* The list a start leaves: the new job last, under the next number.
LEMMA StartedJobs ==
  ASSUME Inv, up
  PROVE  LET id == NewId(Refresh.jobs)
             list == Append(Refresh.jobs, NewJob(id))
         IN  /\ id = Len(jobs) + 1 /\ id \in Nat
             /\ list \in Seq(Job) /\ DOMAIN list = 1..id
             /\ list[id] = NewJob(id)
             /\ \A i \in DOMAIN Refresh.jobs : i \in 1..id /\ list[i] = Refresh.jobs[i]
             /\ Listed(list, Launched(id))
             /\ Follows(list, manifest)
<1> DEFINE id == NewId(Refresh.jobs) list == Append(Refresh.jobs, NewJob(id))
<1> USE DEF Inv, TypeInv
<1>1. /\ Refresh.jobs \in Seq(Job) /\ Len(Refresh.jobs) = Len(jobs) /\ Len(jobs) \in Nat
      /\ DOMAIN Refresh.jobs = 1..Len(jobs)
  BY RefreshedJobs, LenProperties
<1>2. Listed(Refresh.jobs, Refresh.commands) /\ Follows(Refresh.jobs, manifest)
  BY Refreshes
<1>3. id = Len(jobs) + 1 /\ id \in Nat
  <2>1. \A i \in DOMAIN Refresh.jobs : Refresh.jobs[i].id = i
    BY <1>2 DEF Listed
  <2>2. id = Len(Refresh.jobs) + 1
    BY <1>1, <2>1, NewIdIsNext
  <2> HIDE DEF id
  <2> QED
    BY <1>1, <2>2
<1> HIDE DEF id
<1>4. /\ NewJob(id) \in Job /\ NewJob(id).id = id /\ NewJob(id).child
      /\ NewJob(id).command = Len(commands) + 1 /\ NewJob(id).status = "running"
  BY <1>3, LenProperties DEF NewJob, Job, Statuses
<1>5. /\ list \in Seq(Job) /\ Len(list) = id
      /\ \A i \in 1..Len(jobs) : list[i] = Refresh.jobs[i]
      /\ list[id] = NewJob(id)
  BY <1>1, <1>3, <1>4, AppendProperties
<1> HIDE DEF list
<1>6. DOMAIN list = 1..id
  BY <1>5, LenProperties
<1>7. \A i \in DOMAIN Refresh.jobs : i \in 1..id /\ list[i] = Refresh.jobs[i]
  BY <1>1, <1>3, <1>5
<1>8. Listed(list, Launched(id))
  <2>1. Listed(Refresh.jobs, Launched(id))
    BY <1>2, <1>3, LaunchedCommands, LaterKeeps
  <2>2. Len(commands) + 1 \in DOMAIN Launched(id)
    BY <1>3, LaunchedCommands, LenProperties
  <2>3. \A i \in 1..id : i \in DOMAIN Refresh.jobs \/ i = id
    BY <1>1, <1>3
  <2>4. "running" \notin Final
    BY DEF Final
  <2> QED
    BY <1>4, <1>5, <1>6, <1>7, <2>1, <2>2, <2>3, <2>4 DEF Listed
<1>9. Follows(list, manifest)
  BY <1>2, <1>6, <1>7 DEF Follows
<1> QED
  BY <1>3, <1>5, <1>6, <1>7, <1>8, <1>9 DEF id, list

LEMMA StartKeeps ==
  ASSUME Inv, Start
  PROVE  Inv' /\ EndsKept
<1> DEFINE id == NewId(Refresh.jobs) list == Append(Refresh.jobs, NewJob(id))
<1> USE DEF Inv
<1>1. /\ up /\ up' = up /\ before' = before /\ closed' = closed
      /\ Cardinality(Running(Refresh.jobs)) < MaxJobs
      /\ commands' = Launched(id) /\ jobs' = list
      /\ \/ manifest' = Saved(list) /\ told' = told \cup {<<id, Len(commands) + 1>>}
         \/ manifest' = manifest /\ told' = told
  BY DEF Start
<1>2. /\ id = Len(jobs) + 1 /\ id \in Nat
      /\ list \in Seq(Job) /\ DOMAIN list = 1..id
      /\ list[id] = NewJob(id)
      /\ \A i \in DOMAIN Refresh.jobs : i \in 1..id /\ list[i] = Refresh.jobs[i]
      /\ Listed(list, Launched(id))
      /\ Follows(list, manifest)
  BY <1>1, StartedJobs
<1> HIDE DEF id, list
<1>3. /\ commands' \in Seq(Command) /\ DOMAIN commands' = 1..(Len(commands) + 1)
      /\ Later(commands', Refresh.commands) /\ Len(commands) \in Nat
      /\ DOMAIN Refresh.commands = 1..Len(commands)
  BY <1>1, <1>2, LaunchedCommands, RefreshedCommands, LenProperties DEF TypeInv
<1>4. Later(commands', commands)
  BY <1>3, RefreshLater DEF Later
<1>5. Save(list)
  BY <1>1 DEF Save
<1>6. /\ manifest' \in Seq(Entry) /\ Told(manifest', commands') /\ Follows(list, manifest')
      /\ \A t \in told : t[1] \in DOMAIN manifest' /\ manifest'[t[1]].command = t[2]
      /\ EndsKept
  BY <1>1, <1>2, <1>4, <1>5, Saving
<1>7. TypeInv'
  BY <1>1, <1>2, <1>3, <1>6 DEF TypeInv
<1>8. ToldInv'
  <2>1. CASE told' = told
    BY <1>6, <2>1 DEF ToldInv
  <2>2. CASE manifest' = Saved(list) /\ told' = told \cup {<<id, Len(commands) + 1>>}
    <3>1. Saved(list)[id].command = NewJob(id).command /\ id \in DOMAIN Saved(list)
      BY <1>2 DEF Saved
    <3>2. NewJob(id).command = Len(commands) + 1
      BY DEF NewJob
    <3> QED
      BY <1>6, <2>2, <3>1, <3>2 DEF ToldInv
  <2> QED
    BY <1>1, <2>1, <2>2
<1>9. Own(commands)' \subseteq Own(Refresh.commands) \cup {Len(commands) + 1}
  BY <1>1, <1>3 DEF Own, Later
<1>10. Cardinality(Own(commands)') <= MaxJobs
  <2>1. /\ Listed(Refresh.jobs, Refresh.commands)
        /\ Waited(Refresh.jobs, Refresh.commands)
        /\ Refresh.jobs \in Seq(Job) /\ Refresh.commands \in Seq(Command)
    BY <1>1, Refreshes, RefreshedJobs, RefreshedCommands DEF OwnInv, TypeInv
  <2>2. /\ Cardinality(Own(Refresh.commands)) <= Cardinality(Running(Refresh.jobs))
        /\ Cardinality(Running(Refresh.jobs)) \in Nat
    BY <2>1, OwnAtMostRunning
  <2>3. IsFiniteSet(Own(Refresh.commands)) /\ Cardinality(Own(Refresh.commands)) \in Nat
    BY <2>1, OwnFinite
  <2> DEFINE most == Own(Refresh.commands) \cup {Len(commands) + 1}
  <2>4. IsFiniteSet(most) /\ Cardinality(most) <= Cardinality(Own(Refresh.commands)) + 1
    <3>1. /\ IsFiniteSet(most)
          /\ Cardinality(most) = IF Len(commands) + 1 \in Own(Refresh.commands)
                                 THEN Cardinality(Own(Refresh.commands))
                                 ELSE Cardinality(Own(Refresh.commands)) + 1
      BY <2>3, FS_AddElement
    <3> QED
      BY <2>3, <3>1
  <2>5. Own(commands)' \in SUBSET most
    BY <1>9
  <2>6. Cardinality(Own(commands)') <= Cardinality(most) /\ IsFiniteSet(Own(commands)')
    BY <2>4, <2>5, FS_Subset
  <2>7. Cardinality(Own(commands)') \in Nat /\ Cardinality(most) \in Nat
    BY <2>4, <2>6, FS_CardinalityType
  <2> HIDE DEF most
  <2> QED
    BY <1>1, <2>2, <2>3, <2>4, <2>6, <2>7, MaxJobsAssumption
<1>11. Waited(jobs, commands)'
  <2> SUFFICES ASSUME NEW c \in Own(commands)'
               PROVE  \E i \in DOMAIN list : list[i].child /\ list[i].command = c
    BY <1>1 DEF Waited
  <2>1. CASE c = Len(commands) + 1
    <3>1. NewJob(id).child /\ NewJob(id).command = Len(commands) + 1
      BY DEF NewJob
    <3> QED
      BY <1>2, <2>1, <3>1
  <2>2. CASE c \in Own(Refresh.commands)
    <3>1. Waited(Refresh.jobs, Refresh.commands)
      BY <1>1, Refreshes DEF OwnInv
    <3> QED
      BY <1>2, <2>2, <3>1 DEF Waited
  <2> QED
    BY <1>9, <2>1, <2>2
<1>12. OwnInv'
  BY <1>1, <1>10, <1>11 DEF OwnInv
<1> QED
  BY <1>1, <1>2, <1>6, <1>7, <1>8, <1>12

LEMMA StopKeeps ==
  ASSUME Inv, NEW i \in DOMAIN jobs, Stop(i)
  PROVE  Inv' /\ EndsKept
<1> DEFINE j == Refresh.jobs[i]
           list == IF j.child THEN [Refresh.jobs EXCEPT ![i] = Settled(j, "stopped")]
                   ELSE Refresh.jobs
           K == IF j.child THEN {j.command} ELSE {}
<1> USE DEF Inv
<1>1. /\ up /\ up' = up /\ before' = before /\ closed' = closed /\ told' = told
      /\ jobs' = list /\ commands' = Without(Refresh.commands, K) /\ Save(list)
  BY DEF Stop
<1>2. /\ Refresh.jobs \in Seq(Job) /\ DOMAIN Refresh.jobs = DOMAIN jobs
      /\ DOMAIN Refresh.jobs = 1..Len(Refresh.jobs) /\ Len(Refresh.jobs) \in Nat
      /\ Refresh.commands \in Seq(Command)
  BY RefreshedJobs, RefreshedCommands, LenProperties DEF TypeInv
<1>3. /\ Listed(Refresh.jobs, Refresh.commands) /\ Follows(Refresh.jobs, manifest)
      /\ Own(Refresh.commands) \subseteq Own(commands)
      /\ Waited(Refresh.jobs, Refresh.commands)
  BY <1>1, Refreshes DEF OwnInv
<1>4. /\ commands' \in Seq(Command) /\ DOMAIN commands' = DOMAIN Refresh.commands
      /\ \A c \in DOMAIN commands' :
            commands'[c].alive <=> Refresh.commands[c].alive /\ c \notin K
  BY <1>1, <1>2, Terminated
<1>5. Later(commands', Refresh.commands)
  BY <1>4 DEF Later
<1>6. Later(commands', commands)
  BY <1>5, RefreshLater DEF Later
<1>7. Listed(Refresh.jobs, commands')
  BY <1>3, <1>5, LaterKeeps
<1>8. j \in Job /\ "stopped" \in Final /\ "running" \notin Final
  BY <1>2, ElementOfSeq DEF Final
<1>9. /\ Settled(j, "stopped") \in Job
      /\ Settled(j, "stopped").id = j.id /\ Settled(j, "stopped").command = j.command
      /\ ~Settled(j, "stopped").child /\ Settled(j, "stopped").status = "stopped"
  BY <1>8, SettledJob
<1>10. /\ list \in Seq(Job) /\ DOMAIN list = DOMAIN Refresh.jobs
       /\ j.child => list[i] = Settled(j, "stopped")
       /\ \A k \in DOMAIN list : k # i \/ ~j.child => list[k] = Refresh.jobs[k]
  <2>1. CASE j.child
    <3>1. Refresh.jobs \in [1..Len(Refresh.jobs) -> Job]
      BY <1>2, LenProperties
    <3>2. list \in [1..Len(Refresh.jobs) -> Job] /\ list[i] = Settled(j, "stopped")
          /\ \A k \in DOMAIN Refresh.jobs : k # i => list[k] = Refresh.jobs[k]
      BY <1>2, <1>9, <2>1, <3>1
    <3> HIDE DEF list
    <3>3. list \in Seq(Job) /\ DOMAIN list = 1..Len(Refresh.jobs)
      BY <1>2, <3>2, FunctionIsSequence
    <3> QED
      BY <1>2, <2>1, <3>2, <3>3
  <2>2. CASE ~j.child
    BY <1>2, <2>2
  <2> QED
    BY <2>1, <2>2
<1>11. j.child => ~commands'[j.command].alive
  <2>1. j.command \in DOMAIN commands'
    BY <1>2, <1>7 DEF Listed
  <2> QED
    BY <1>4, <2>1
<1> HIDE DEF list, K
<1>12. Listed(list, commands')
  <2> SUFFICES ASSUME NEW k \in DOMAIN list
               PROVE  /\ list[k].id = k
                      /\ list[k].command \in DOMAIN commands'
                      /\ list[k].child <=> list[k].status = "running"
                      /\ list[k].status \in Final => ~commands'[list[k].command].alive
    BY DEF Listed
  <2>1. CASE k = i /\ j.child
    BY <1>7, <1>8, <1>9, <1>10, <1>11, <2>1 DEF Listed
  <2>2. CASE k # i \/ ~j.child
    BY <1>7, <1>10, <2>2 DEF Listed
  <2> QED
    BY <2>1, <2>2
<1>13. Follows(list, manifest)
  <2> SUFFICES ASSUME NEW k \in DOMAIN manifest
               PROVE  /\ k \in DOMAIN list
                      /\ list[k].command = manifest[k].command
                      /\ manifest[k].status \in Final => list[k].status = manifest[k].status
    BY DEF Follows
  <2>0. /\ k \in DOMAIN list
        /\ Refresh.jobs[k].command = manifest[k].command
        /\ manifest[k].status \in Final => Refresh.jobs[k].status = manifest[k].status
    BY <1>3, <1>10 DEF Follows
  <2>1. CASE k = i /\ j.child
    <3>1. j.status = "running"
      BY <1>2, <1>3, <2>1 DEF Listed
    <3> QED
      BY <1>8, <1>9, <1>10, <2>0, <2>1, <3>1
  <2>2. CASE k # i \/ ~j.child
    BY <1>10, <2>0, <2>2
  <2> QED
    BY <2>1, <2>2
<1>14. /\ manifest' \in Seq(Entry) /\ Told(manifest', commands') /\ Follows(list, manifest')
       /\ \A t \in told : t[1] \in DOMAIN manifest' /\ manifest'[t[1]].command = t[2]
       /\ EndsKept
  BY <1>1, <1>6, <1>10, <1>12, <1>13, Saving
<1>15. TypeInv'
  BY <1>1, <1>4, <1>10, <1>14 DEF TypeInv
<1>16. Own(commands)' \subseteq Own(Refresh.commands)
  BY <1>1, <1>4 DEF Own
<1>17. Waited(jobs, commands)'
  <2> SUFFICES ASSUME NEW c \in Own(commands)'
               PROVE  \E k \in DOMAIN list : list[k].child /\ list[k].command = c
    BY <1>1 DEF Waited
  <2>1. PICK k \in DOMAIN Refresh.jobs :
               Refresh.jobs[k].child /\ Refresh.jobs[k].command = c
    BY <1>3, <1>16 DEF Waited
  <2>2. c \notin K
    BY <1>4 DEF Own
  <2>3. k # i \/ ~j.child
    BY <2>1, <2>2 DEF K
  <2> QED
    BY <1>10, <2>1, <2>3
<1>18. OwnInv'
  <2>1. Own(commands)' \subseteq Own(commands)
    BY <1>3, <1>16
  <2> QED
    BY <1>1, <1>4, <1>17, <2>1, OwnShrinks DEF OwnInv
<1> QED
  BY <1>1, <1>12, <1>14, <1>15, <1>18 DEF ToldInv

LEMMA CloseKeeps ==
  ASSUME Inv, Close
  PROVE  Inv' /\ EndsKept
<1> DEFINE K == {j.command : j \in {j \in Range(jobs) : j.child}}
<1> USE DEF Inv
<1>1. /\ up /\ ~up' /\ up' = FALSE /\ before' = before /\ closed' = TRUE /\ told' = told
      /\ jobs' = <<>> /\ commands' = Without(commands, K) /\ Save(Left)
  BY DEF Close
<1>2. /\ commands' \in Seq(Command) /\ DOMAIN commands' = DOMAIN commands
      /\ \A c \in DOMAIN commands' : commands'[c].alive <=> commands[c].alive /\ c \notin K
  BY <1>1, Terminated DEF TypeInv
<1>3. Later(commands', commands)
  BY <1>2 DEF Later
<1>4. \A i \in DOMAIN jobs : jobs[i].child => jobs[i].command \in K
  BY DEF Range
<1> HIDE DEF K
<1>5. /\ DOMAIN jobs = 1..Len(jobs) /\ Len(jobs) \in Nat /\ \A i \in DOMAIN jobs : jobs[i] \in Job
      /\ "closed" \in Final /\ "running" \notin Final
  BY LenProperties, ElementOfSeq DEF TypeInv, Final
<1>6. \A i \in DOMAIN jobs :
         LET k == Settled(jobs[i], "closed") IN
         k \in Job /\ k.id = jobs[i].id /\ k.command = jobs[i].command
         /\ ~k.child /\ k.status = "closed"
  BY <1>5, SettledJob
<1>7. Left \in [1..Len(jobs) -> Job] /\ DOMAIN Left = DOMAIN jobs
  BY <1>5, <1>6 DEF Left
<1>8. Left \in Seq(Job)
  BY <1>5, <1>7, FunctionIsSequence
<1>9. \A i \in DOMAIN jobs : Left[i] = IF jobs[i].child THEN Settled(jobs[i], "closed")
                                       ELSE jobs[i]
  BY DEF Left
<1>10. Listed(Left, commands')
  <2> SUFFICES ASSUME NEW i \in DOMAIN jobs
               PROVE  /\ Left[i].id = i
                      /\ Left[i].command \in DOMAIN commands'
                      /\ Left[i].child <=> Left[i].status = "running"
                      /\ Left[i].status \in Final => ~commands'[Left[i].command].alive
    BY <1>7 DEF Listed
  <2>1. Listed(jobs, commands')
    BY <1>3, LaterKeeps
  <2>2. CASE jobs[i].child
    <3>1. ~commands'[jobs[i].command].alive
      BY <1>2, <1>4, <2>1, <2>2 DEF Listed
    <3> QED
      BY <1>5, <1>6, <1>9, <2>1, <2>2, <3>1 DEF Listed
  <2>3. CASE ~jobs[i].child
    BY <1>9, <2>1, <2>3 DEF Listed
  <2> QED
    BY <2>2, <2>3
<1>11. Follows(Left, manifest)
  <2> SUFFICES ASSUME NEW i \in DOMAIN manifest
               PROVE  /\ i \in DOMAIN Left
                      /\ Left[i].command = manifest[i].command
                      /\ manifest[i].status \in Final => Left[i].status = manifest[i].status
    BY DEF Follows
  <2>0. /\ i \in DOMAIN jobs /\ i \in DOMAIN Left
        /\ jobs[i].command = manifest[i].command
        /\ manifest[i].status \in Final => jobs[i].status = manifest[i].status
    BY <1>1, <1>7 DEF Follows
  <2>1. CASE jobs[i].child
    <3>1. jobs[i].status = "running"
      BY <2>0, <2>1 DEF Listed
    <3> QED
      BY <1>5, <1>6, <1>9, <2>0, <2>1, <3>1
  <2>2. CASE ~jobs[i].child
    BY <1>9, <2>0, <2>2
  <2> QED
    BY <2>1, <2>2
<1>12. /\ manifest' \in Seq(Entry) /\ Told(manifest', commands')
       /\ \A t \in told : t[1] \in DOMAIN manifest' /\ manifest'[t[1]].command = t[2]
       /\ EndsKept
  BY <1>1, <1>3, <1>8, <1>10, <1>11, Saving
<1>13. Own(commands)' = {}
  <2>1. Waited(jobs, commands)
    BY <1>1 DEF OwnInv
  <2>2. \A c \in Own(commands) : c \in K
    BY <1>4, <2>1 DEF Waited
  <2>3. \A c \in Own(commands)' : c \in Own(commands) /\ c \notin K
    BY <1>1, <1>2 DEF Own
  <2> QED
    BY <2>2, <2>3
<1>14. OwnInv'
  <2>1. Cardinality(Own(commands)') = 0
    BY <1>13, FS_EmptySet
  <2> QED
    BY <1>1, <1>13, <2>1, MaxJobsAssumption DEF OwnInv
<1>15. TypeInv' /\ Listed(jobs, commands)'
  <2>1. <<>> \in Seq(Job) /\ DOMAIN <<>> = {}
    BY EmptySeq
  <2> QED
    BY <1>1, <1>2, <1>12, <2>1 DEF TypeInv, Listed
<1> QED
  BY <1>1, <1>12, <1>14, <1>15 DEF ToldInv

LEMMA CrashKeeps ==
  ASSUME Inv, Crash
  PROVE  Inv' /\ EndsKept
<1> USE DEF Inv
<1>1. /\ ~up' /\ up' = FALSE /\ jobs' = <<>> /\ up
      /\ UNCHANGED <<manifest, commands, before, closed, told>>
  BY DEF Crash
<1>2. TypeInv' /\ Listed(jobs, commands)'
  <2>1. <<>> \in Seq(Job) /\ DOMAIN <<>> = {}
    BY EmptySeq
  <2> QED
    BY <1>1, <2>1 DEF TypeInv, Listed
<1>3. OwnInv'
  <2>1. Own(commands)' = Own(commands) /\ ~closed'
    BY <1>1 DEF Own, OwnInv
  <2> QED
    BY <1>1, <2>1 DEF OwnInv
<1> QED
  BY <1>1, <1>2, <1>3 DEF ToldInv, EndsKept

\* What happens to a command alone: it ends, or its log grows.
LEMMA CommandKeeps ==
  ASSUME Inv, NEW c \in DOMAIN commands, NEW k \in Command,
         k.alive => commands[c].alive, commands' = [commands EXCEPT ![c] = k],
         UNCHANGED <<up, jobs, manifest, before, closed, told>>
  PROVE  Inv' /\ EndsKept
<1> USE DEF Inv
<1>1. /\ commands' \in Seq(Command) /\ DOMAIN commands' = DOMAIN commands
      /\ \A d \in DOMAIN commands : commands'[d].alive => commands[d].alive
  <2>1. commands \in [1..Len(commands) -> Command] /\ Len(commands) \in Nat
        /\ DOMAIN commands = 1..Len(commands)
    BY LenProperties DEF TypeInv
  <2>2. commands' \in [1..Len(commands) -> Command]
    BY <2>1
  <2>3. commands' \in Seq(Command) /\ DOMAIN commands' = DOMAIN commands
    BY <2>1, <2>2, FunctionIsSequence
  <2> QED
    BY <2>1, <2>3
<1>2. Later(commands', commands)
  BY <1>1 DEF Later
<1>3. Listed(jobs, commands') /\ Told(manifest, commands')
  BY <1>2, LaterKeeps
<1>4. Own(commands)' \subseteq Own(commands)
  BY <1>1 DEF Own
<1>5. OwnInv'
  <2>1. up => Waited(jobs, commands)'
    BY <1>4 DEF OwnInv, Waited
  <2>2. Cardinality(Own(commands)') <= MaxJobs
    BY <1>1, <1>4, OwnShrinks
  <2> QED
    BY <1>4, <2>1, <2>2 DEF OwnInv
<1> QED
  BY <1>1, <1>3, <1>5 DEF TypeInv, ToldInv, EndsKept

LEMMA WorldKeeps ==
  ASSUME Inv, NEW c \in DOMAIN commands, Exit(c) \/ Grow(c)
  PROVE  Inv' /\ EndsKept
<1>1. commands[c] \in Command
  BY LenProperties, ElementOfSeq DEF Inv, TypeInv
<1>2. CASE Exit(c)
  <2>1. [commands[c] EXCEPT !.alive = FALSE] \in Command
        /\ ~[commands[c] EXCEPT !.alive = FALSE].alive
    BY <1>1 DEF Command
  <2> QED
    BY <1>2, <2>1, CommandKeeps DEF Exit
<1>3. CASE Grow(c)
  <2>1. [commands[c] EXCEPT !.big = TRUE] \in Command
        /\ [commands[c] EXCEPT !.big = TRUE].alive = commands[c].alive
    BY <1>1 DEF Command
  <2> QED
    BY <1>3, <2>1, CommandKeeps DEF Grow
<1> QED
  BY <1>2, <1>3

----------------------------------------------------------------------------
(* The theorems. *)

LEMMA InitInv ==
  ASSUME Init
  PROVE  Inv
<1>1. \A S : <<>> \in Seq(S)
  BY EmptySeq
<1>2. DOMAIN <<>> = {}
  OBVIOUS
<1>3. Own(commands) = {}
  BY <1>2 DEF Init, Own
<1>4. OwnInv
  <2>1. Cardinality(Own(commands)) = 0
    BY <1>3, FS_EmptySet
  <2> QED
    BY <1>3, <2>1, MaxJobsAssumption DEF Init, OwnInv
<1> QED
  BY <1>1, <1>2, <1>4 DEF Init, Inv, TypeInv, Listed, Told, ToldInv

LEMMA NextKeeps ==
  ASSUME Inv, [Next]_vars
  PROVE  Inv' /\ EndsKept
<1>1. CASE Open
  BY <1>1, OpenKeeps
<1>2. CASE Check
  BY <1>2, CheckKeeps
<1>3. CASE Start
  BY <1>3, StartKeeps
<1>4. CASE Close
  BY <1>4, CloseKeeps
<1>5. CASE Crash
  BY <1>5, CrashKeeps
<1>6. CASE \E i \in DOMAIN jobs : Stop(i)
  BY <1>6, StopKeeps
<1>7. CASE \E c \in DOMAIN commands : Exit(c) \/ Grow(c)
  BY <1>7, WorldKeeps
<1>8. CASE UNCHANGED vars
  BY <1>8 DEF vars, Inv, TypeInv, ToldInv, OwnInv, Own, Waited, EndsKept
<1> QED
  BY <1>1, <1>2, <1>3, <1>4, <1>5, <1>6, <1>7, <1>8 DEF Next

\* The invariant everything below follows from: lists numbered by position and
\* right about what is over, a list that only goes on from the manifest, and a
\* handle for every command the process has alive.
THEOREM Invariance == Spec => []Inv
<1>1. Init => Inv
  BY InitInv
<1>2. Inv /\ [Next]_vars => Inv'
  BY NextKeeps
<1> QED
  BY <1>1, <1>2, PTL DEF Spec

\* The invariant says what is known, over and owned.
LEMMA InvKnows == ASSUME Inv PROVE KnownJobs
<1> SUFFICES ASSUME NEW t \in told
             PROVE  /\ {r.command : r \in {r \in Range(manifest) : r.id = t[1]}} = {t[2]}
                    /\ up => {j.command : j \in {j \in Range(jobs) : j.id = t[1]}} = {t[2]}
  BY DEF KnownJobs
<1>1. t[1] \in DOMAIN manifest /\ manifest[t[1]].command = t[2]
  BY DEF Inv, ToldInv
<1>2. \A r \in Range(manifest) : r.id = t[1] <=> r = manifest[t[1]]
  BY <1>1 DEF Inv, Told, Range
<1>3. manifest[t[1]] \in Range(manifest)
  BY <1>1 DEF Range
<1>4. ASSUME up
      PROVE  {j.command : j \in {j \in Range(jobs) : j.id = t[1]}} = {t[2]}
  <2>1. t[1] \in DOMAIN jobs /\ jobs[t[1]].command = t[2]
    BY <1>1, <1>4 DEF Inv, Follows
  <2>2. \A j \in Range(jobs) : j.id = t[1] <=> j = jobs[t[1]]
    BY <2>1 DEF Inv, Listed, Range
  <2>3. jobs[t[1]] \in Range(jobs)
    BY <2>1 DEF Range
  <2> QED
    BY <2>1, <2>2, <2>3
<1> QED
  BY <1>1, <1>2, <1>3, <1>4

LEMMA InvTells == ASSUME Inv PROVE OverIsOver /\ OwnCommands
<1>1. OverIsOver
  BY DEF Inv, Listed, Told, OverIsOver, Range
<1>2. OwnCommands
  BY DEF Inv, OwnInv, OwnCommands, Own
<1> QED
  BY <1>1, <1>2

\* A job's number never comes to mean another command, whatever is not saved
\* (BackgroundJobs::start, save_manifest, load_manifest).
THEOREM JobsStayKnown == Spec => []KnownJobs
BY InvKnows, Invariance, PTL

\* No command still runs whose job is said to be over (refresh, stop, Inner::drop).
THEOREM OverStaysOver == Spec => []OverIsOver
BY InvTells, Invariance, PTL

\* A process has at most MAX_JOBS commands, and none once it ended in order
\* (BackgroundJobs::start, Inner::drop).
THEOREM OwnCommandsEnd == Spec => []OwnCommands
BY InvTells, Invariance, PTL

\* How a job ended, once saved, is never rewritten (save_manifest).
THEOREM EndsStaySaved == Spec => EndsStay
<1>1. Inv /\ [Next]_vars => [EndsKept]_vars
  BY NextKeeps
<1> QED
  BY <1>1, Invariance, PTL DEF Spec, EndsStay, EndsKept

----------------------------------------------------------------------------
(* The bounds: numbers of jobs and logs are at most the commands started,  *)
(* because a list, saved or not, never grows but by a command.             *)

Bounded ==
    /\ DOMAIN jobs \subseteq DOMAIN commands /\ DOMAIN manifest \subseteq DOMAIN commands
    /\ DOMAIN commands \subseteq 1..MaxStarts
    /\ \A c \in DOMAIN commands : commands[c].log \in 1..MaxStarts
    /\ opens \in 0..MaxOpens /\ before <= Len(commands)
    /\ told \subseteq Nat \X Nat

LEMMA BoundedTypes == ASSUME Inv, Bounded PROVE TypeOK
<1>1. /\ \A i \in DOMAIN jobs : jobs[i] \in Job
      /\ \A i \in DOMAIN manifest : manifest[i] \in Entry
      /\ \A c \in DOMAIN commands : commands[c] \in Command
  BY LenProperties, ElementOfSeq DEF Inv, TypeInv
<1>2. ASSUME NEW S, NEW list \in Seq(S), NEW T, \A i \in DOMAIN list : list[i] \in T
      PROVE  list \in Seq(T)
  <2>1. DOMAIN list = 1..Len(list) /\ Len(list) \in Nat /\ list \in [1..Len(list) -> S]
    BY LenProperties
  <2>2. list \in [1..Len(list) -> T]
    BY <1>2, <2>1
  <2>. QED  BY <2>1, <2>2, FunctionIsSequence
<1>. DEFINE J == [id : 1..MaxStarts, command : DOMAIN commands, child : BOOLEAN,
                  status : Statuses]
            E == [id : 1..MaxStarts, command : DOMAIN commands, status : Statuses]
            C == [log : 1..MaxStarts, big : BOOLEAN, alive : BOOLEAN]
<1>3. ASSUME NEW i \in DOMAIN jobs PROVE jobs[i] \in J
  BY <1>1 DEF Inv, Listed, Bounded, Job
<1>4. ASSUME NEW i \in DOMAIN manifest PROVE manifest[i] \in E
  BY <1>1 DEF Inv, Told, Bounded, Entry
<1>5. ASSUME NEW c \in DOMAIN commands PROVE commands[c] \in C
  BY <1>1 DEF Bounded, Command
<1>6. jobs \in Seq(J)
  <2>. HIDE DEF J
  <2>. QED  BY <1>2, <1>3 DEF Inv, TypeInv
<1>7. manifest \in Seq(E)
  <2>. HIDE DEF E
  <2>. QED  BY <1>2, <1>4 DEF Inv, TypeInv
<1>8. commands \in Seq(C)
  <2>. HIDE DEF C
  <2>. QED  BY <1>2, <1>5 DEF Inv, TypeInv
<1>9. before \in 0..Len(commands)
  BY LenProperties DEF Inv, TypeInv, Bounded
<1>10. told \subseteq (1..MaxStarts) \X DOMAIN commands
  <2>. SUFFICES ASSUME NEW t \in told PROVE t \in (1..MaxStarts) \X DOMAIN commands
    OBVIOUS
  <2>1. t[1] \in 1..MaxStarts /\ t[2] \in DOMAIN commands
    BY DEF Inv, ToldInv, Told, Bounded
  <2>2. t = <<t[1], t[2]>>
    BY DEF Bounded
  <2>. QED  BY <2>1, <2>2
<1>11. \A j \in Range(jobs) : j.child <=> j.status = "running"
  BY DEF Inv, Listed, Range
<1>. QED  BY <1>6, <1>7, <1>8, <1>9, <1>10, <1>11 DEF TypeOK, Inv, TypeInv, Bounded

\* Ending commands leaves their logs where they are.
LEMMA LogsKept ==
  ASSUME NEW cs \in Seq(Command), NEW K, NEW c \in DOMAIN cs
  PROVE  Without(cs, K)[c].log = cs[c].log
<1>1. cs[c] \in Command
  BY LenProperties, ElementOfSeq
<1>2. [cs[c] EXCEPT !.alive = @ /\ c \notin K].log = cs[c].log
  BY <1>1 DEF Command
<1>. QED  BY <1>2 DEF Without

\* A step that starts no command, and lists nothing that was not listed.
LEMMA BoundedFrame ==
  ASSUME Inv, Bounded, commands' \in Seq(Command), DOMAIN commands' = DOMAIN commands,
         \A c \in DOMAIN commands : commands'[c].log = commands[c].log,
         DOMAIN jobs' \subseteq DOMAIN jobs \cup DOMAIN manifest,
         DOMAIN manifest' \subseteq DOMAIN jobs \cup DOMAIN manifest,
         before' = before \/ before' = Len(commands),
         opens' = opens \/ (opens < MaxOpens /\ opens' = opens + 1), told' = told
  PROVE  Bounded'
<1>1. Len(commands') = Len(commands) /\ Len(commands) \in Nat
  BY LenProperties DEF Inv, TypeInv
<1>2. opens' \in 0..MaxOpens
  BY BoundsAssumption DEF Bounded
<1>3. before' <= Len(commands')
  BY <1>1 DEF Bounded
<1>. QED  BY <1>2, <1>3 DEF Bounded

\* A start: the log of the new command has the number of its job.
LEMMA StartBounded == ASSUME Inv, Bounded, Start PROVE Bounded'
<1>. DEFINE id == NewId(Refresh.jobs) list == Append(Refresh.jobs, NewJob(id))
<1>1. /\ up /\ Len(commands) < MaxStarts /\ UNCHANGED <<opens, before>>
      /\ commands' = Launched(id) /\ jobs' = list
      /\ \/ manifest' = Saved(list) /\ told' = told \cup {<<id, Len(commands) + 1>>}
         \/ UNCHANGED <<manifest, told>>
  BY DEF Start
<1>2. id = Len(jobs) + 1 /\ id \in Nat /\ DOMAIN list = 1..id
  BY <1>1, StartedJobs
<1>. HIDE DEF id, list
<1>3. /\ commands' \in Seq(Command) /\ DOMAIN commands' = 1..(Len(commands) + 1)
      /\ Len(commands) \in Nat /\ DOMAIN commands = 1..Len(commands)
      /\ Len(jobs) \in Nat /\ DOMAIN jobs = 1..Len(jobs)
  BY <1>1, <1>2, LaunchedCommands, LenProperties DEF Inv, TypeInv
<1>4. Len(commands') = Len(commands) + 1
  BY <1>3, LenProperties
<1>5. Len(jobs) <= Len(commands)
  BY <1>3 DEF Bounded
<1>6. /\ DOMAIN commands \subseteq DOMAIN commands' /\ DOMAIN commands' \subseteq 1..MaxStarts
      /\ DOMAIN jobs' \subseteq DOMAIN commands' /\ id \in 1..MaxStarts
  BY <1>1, <1>2, <1>3, <1>5, BoundsAssumption
<1>7. DOMAIN manifest' \subseteq DOMAIN commands'
  BY <1>1, <1>6 DEF Bounded, Saved
<1>8. ASSUME NEW c \in DOMAIN commands' PROVE commands'[c].log \in 1..MaxStarts
  <2>. DEFINE cs == Refresh.commands
              emptied == [d \in DOMAIN cs |-> [cs[d] EXCEPT !.big = @ /\ cs[d].log # id]]
              new == [log |-> id, big |-> FALSE, alive |-> TRUE]
  <2>1. cs \in Seq(Command) /\ DOMAIN cs = 1..Len(commands)
    BY <1>3, RefreshedCommands DEF Inv, TypeInv
  <2>2. \A d \in DOMAIN cs : cs[d].log = commands[d].log
    <3>1. PICK K : cs = Without(commands, K)
      BY DEF Refresh
    <3>2. commands \in Seq(Command)
      BY DEF Inv, TypeInv
    <3>. HIDE DEF cs
    <3>. QED  BY <1>3, <2>1, <3>1, <3>2, LogsKept
  <2>. HIDE DEF cs
  <2>3. \A d \in DOMAIN cs : cs[d] \in Command
    BY <2>1, LenProperties, ElementOfSeq
  <2>4. \A d \in DOMAIN cs : /\ [cs[d] EXCEPT !.big = @ /\ cs[d].log # id] \in Command
                             /\ [cs[d] EXCEPT !.big = @ /\ cs[d].log # id].log = cs[d].log
    BY <2>3 DEF Command
  <2>5. emptied \in Seq(Command) /\ Len(emptied) = Len(commands)
    <3>1. emptied \in [1..Len(commands) -> Command]
      BY <2>1, <2>4
    <3>. QED  BY <1>3, <3>1, FunctionIsSequence
  <2>6. \A d \in DOMAIN cs : emptied[d].log = commands[d].log
    BY <2>2, <2>4
  <2>7. new \in Command /\ new.log = id
    BY <1>2 DEF Command
  <2>. HIDE DEF emptied, new
  <2>8. commands' = Append(emptied, new)
    BY <1>1 DEF Launched, emptied, new, cs
  <2>9. /\ \A d \in 1..Len(commands) : commands'[d] = emptied[d]
        /\ commands'[Len(commands) + 1] = new
    BY <2>5, <2>7, <2>8, AppendProperties
  <2>10. CASE c \in 1..Len(commands)
    BY <1>3, <2>1, <2>6, <2>9, <2>10 DEF Bounded
  <2>11. CASE c = Len(commands) + 1
    BY <1>6, <2>7, <2>9, <2>11
  <2>. QED  BY <1>3, <2>10, <2>11
<1>9. before' <= Len(commands')
  BY <1>1, <1>3, <1>4 DEF Bounded, Inv, TypeInv
<1>10. told' \subseteq Nat \X Nat
  BY <1>1, <1>2, <1>3 DEF Bounded
<1>. QED  BY <1>1, <1>6, <1>7, <1>8, <1>9, <1>10 DEF Bounded

LEMMA StaysBounded == ASSUME Inv, Bounded, [Next]_vars PROVE Bounded'
<1>1. /\ jobs \in Seq(Job) /\ commands \in Seq(Command) /\ Listed(jobs, commands)
      /\ \A c \in DOMAIN commands : commands[c] \in Command
  BY LenProperties, ElementOfSeq DEF Inv, TypeInv
<1>2. DOMAIN Refresh.jobs = DOMAIN jobs
  BY <1>1, RefreshedJobs
<1>3. /\ Refresh.commands \in Seq(Command) /\ DOMAIN Refresh.commands = DOMAIN commands
      /\ \A c \in DOMAIN commands : Refresh.commands[c].log = commands[c].log
  <2>1. \A c \in DOMAIN commands : Refresh.commands[c].log = commands[c].log
    BY <1>1, LogsKept DEF Refresh
  <2>. QED  BY <1>1, <2>1, RefreshedCommands
<1>4. commands' \in Seq(Command)
  BY NextKeeps DEF Inv, TypeInv
<1>5. CASE Open
  BY <1>4, <1>5, BoundedFrame DEF Open
<1>6. CASE Check
  <2>1. /\ commands' = Refresh.commands /\ jobs' = Refresh.jobs
        /\ UNCHANGED <<manifest, opens, before, told>>
    BY <1>6 DEF Check
  <2>. HIDE DEF Refresh
  <2>. QED  BY <1>2, <1>3, <2>1, BoundedFrame
<1>7. CASE Start
  BY <1>7, StartBounded
<1>8. CASE Close
  <2>1. PICK K : commands' = Without(commands, K)
    BY <1>8 DEF Close
  <2>2. /\ DOMAIN commands' = DOMAIN commands
        /\ \A c \in DOMAIN commands : commands'[c].log = commands[c].log
    BY <1>1, <2>1, Terminated, LogsKept
  <2>3. DOMAIN manifest' \subseteq DOMAIN jobs \cup DOMAIN manifest
    BY <1>8 DEF Close, Save, Saved, Left
  <2>4. DOMAIN jobs' = {} /\ UNCHANGED <<opens, before, told>>
    BY <1>8 DEF Close
  <2>. QED  BY <1>4, <2>2, <2>3, <2>4, BoundedFrame
<1>9. CASE Crash
  <2>1. DOMAIN jobs' = {} /\ UNCHANGED <<manifest, commands, opens, before, told>>
    BY <1>9 DEF Crash
  <2>. QED  BY <1>4, <2>1, BoundedFrame
<1>10. ASSUME NEW i \in DOMAIN jobs, Stop(i) PROVE Bounded'
  <2>1. PICK K : commands' = Without(Refresh.commands, K)
    BY <1>10 DEF Stop
  <2>2. /\ DOMAIN commands' = DOMAIN commands
        /\ \A c \in DOMAIN commands : commands'[c].log = commands[c].log
    BY <1>3, <2>1, Terminated, LogsKept
  <2>3. DOMAIN jobs' = DOMAIN jobs
    BY <1>2, <1>10 DEF Stop
  <2>4. manifest' = manifest \/ DOMAIN manifest' = DOMAIN jobs'
    BY <1>10 DEF Stop, Save, Saved
  <2>5. UNCHANGED <<opens, before, told>>
    BY <1>10 DEF Stop
  <2>. QED  BY <1>4, <2>2, <2>3, <2>4, <2>5, BoundedFrame
<1>11. ASSUME NEW c \in DOMAIN commands, Exit(c) \/ Grow(c) PROVE Bounded'
  <2>1. /\ DOMAIN commands' = DOMAIN commands
        /\ \A d \in DOMAIN commands : commands'[d].log = commands[d].log
    <3>1. ASSUME Exit(c) PROVE \A d \in DOMAIN commands : commands'[d].log = commands[d].log
      BY <1>1, <3>1 DEF Exit, Command
    <3>2. ASSUME Grow(c) PROVE \A d \in DOMAIN commands : commands'[d].log = commands[d].log
      BY <1>1, <3>2 DEF Grow, Command
    <3>. QED  BY <1>11, <3>1, <3>2 DEF Exit, Grow
  <2>2. UNCHANGED <<jobs, manifest, opens, before, told>>
    BY <1>11 DEF Exit, Grow
  <2>. QED  BY <1>4, <2>1, <2>2, BoundedFrame
<1>12. CASE UNCHANGED vars
  <2>1. UNCHANGED <<jobs, manifest, commands, opens, before, told>>
    BY <1>12 DEF vars
  <2>. QED  BY <1>1, <2>1, BoundedFrame
<1>. QED  BY <1>5, <1>6, <1>7, <1>8, <1>9, <1>10, <1>11, <1>12 DEF Next

LEMMA InitBounded == ASSUME Init PROVE Bounded
<1>1. DOMAIN <<>> = {} /\ Len(<<>>) = 0
  BY EmptySeq
<1>. QED  BY <1>1, BoundsAssumption DEF Init, Bounded

\* Every variable has its type: no list grows without a command, and no number
\* of a job or a log is beyond the commands started (start, load_manifest).
THEOREM TypeCorrect == Spec => []TypeOK
<1>1. Init => Bounded
  BY InitBounded
<1>2. Inv /\ Bounded /\ [Next]_vars => Bounded'
  BY StaysBounded
<1>3. Inv /\ Bounded => TypeOK
  BY BoundedTypes
<1>. QED  BY <1>1, <1>2, <1>3, Invariance, PTL DEF Spec
=============================================================================
