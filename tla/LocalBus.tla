------------------------------ MODULE LocalBus ------------------------------
(***************************************************************************)
(* The same-machine A2A transport, crates/crumb-a2a-local: one registry    *)
(* lease and one inbox (pending, processing, acknowledged) per instance,   *)
(* kept as files and changed by short-lived processes under per-instance   *)
(* file locks.                                                             *)
(*                                                                         *)
(* A step is one change of the file system.  An operation that changes     *)
(* several files is several steps of its process, between which the        *)
(* process may crash (the kernel then drops its locks) and between which   *)
(* other processes run, held off only by the locks the code really takes.  *)
(* An operation that fails before it changes a file is not a step.         *)
(*                                                                         *)
(* Abstractions.  A delivery identifier is a hash of its request, or of    *)
(* the request it answers: it is the delivery.  Time is only what          *)
(* expiration makes of it: a lease becomes stale, a tombstone gets older   *)
(* than the retention horizon.  Temporary files are invisible to every     *)
(* reader of these directories and are left out.                           *)
(***************************************************************************)
EXTENDS Naturals, FiniteSets

CONSTANTS
    Instances,      \* stable instance identities (one per workspace)
    Runtimes,       \* process incarnations; each registers at most once
    HostOf,         \* the instance a runtime registers
    Requests,       \* request payloads; equal requests have equal identifiers
    From, To,       \* sending and receiving instance of a request
    Replies,        \* response contents, the protocol rejection among them
    Payload,        \* the content of a request file
    Absent,         \* "no such file"
    NoRuntime,      \* no lock holder, no lease owner
    NoDelivery,     \* no delivery in hand
    MaxInbox,       \* MAX_INBOX_MESSAGES
    MaxAcks,        \* MAX_ACKNOWLEDGEMENTS
    RetainLatest    \* AUTOMATIC_ACKNOWLEDGEMENT_RETAIN_LATEST

ASSUME RoutesAssumption ==
    /\ IsFiniteSet(Requests)
    /\ HostOf \in [Runtimes -> Instances]
    /\ From \in [Requests -> Instances]
    /\ To \in [Requests -> Instances]

ASSUME MarkersAssumption ==
    /\ Absent \notin Replies \cup {Payload}
    /\ Payload \notin Replies
    /\ NoRuntime \notin Runtimes

ASSUME LimitsAssumption ==
    /\ MaxInbox \in Nat \ {0}
    /\ MaxAcks \in Nat \ {0}
    /\ RetainLatest \in Nat

Kinds == {"request", "response"}
Deliveries == [kind : Kinds, req : Requests]

ASSUME DeliveryMarkerAssumption == NoDelivery \notin Deliveries

Req(r) == [kind |-> "request", req |-> r]
Rsp(r) == [kind |-> "response", req |-> r]

Contents == Replies \cup {Payload}

\* The inbox a delivery is filed in: a response goes back to the sender.
Home(d) == IF d.kind = "request" THEN To[d.req] ELSE From[d.req]

VARIABLES
    status,      \* runtime -> "new", "up", "down" or "crashed"
    lease,       \* instance -> registry entry [owner, stale]
    lock,        \* instance -> runtime holding its lock file
    pending,     \* delivery -> content of its file in pending/
    processing,  \* delivery -> content of its file in processing/
    acked,       \* delivery -> digest in its tombstone in acknowledged/
    op,          \* runtime -> the multi-file operation it is in
    aged,        \* deliveries whose tombstone outlived the retention horizon
    \* History: what happened, never read by an action's guard.
    claimer,     \* claimed delivery -> the runtime that claimed it
    answered,    \* request -> reply contents ever made durable for it
    accepted,    \* deliveries ever written to an inbox
    dismissed    \* requests acknowledged before any response was filed

files == <<pending, processing, acked>>
history == <<claimer, answered, accepted, dismissed>>
vars == <<status, lease, lock, files, op, aged, history>>

Steps == {"idle", "tombstone", "unlink", "scan", "probePending",
          "probeProcessing", "apply", "sweep"}
Verdicts == {"none", "remove", "move", "ack"}
NoPlan == [d \in Deliveries |-> "none"]
Idle == [step |-> "idle", on |-> NoDelivery, plan |-> NoPlan, count |-> 0]

Present(dir, d) == dir[d] # Absent
Inbox(i) == {d \in Deliveries : Home(d) = i}
QueueLen(i) == Cardinality({d \in Inbox(i) : Present(pending, d)})
             + Cardinality({d \in Inbox(i) : Present(processing, d)})
AckCount(i) == Cardinality({d \in Inbox(i) : Present(acked, d)})

NoLease == [owner |-> NoRuntime, stale |-> FALSE]
LiveOwner(p, i) == lease[i].owner = p /\ ~lease[i].stale
LivePeer(i) == lease[i].owner # NoRuntime /\ ~lease[i].stale

Free(I) == \A i \in I : lock[i] = NoRuntime
Locked(I, p) == [i \in Instances |-> IF i \in I THEN p ELSE lock[i]]
Unlocked(p) == [i \in Instances |-> IF lock[i] = p THEN NoRuntime ELSE lock[i]]

\* A registered process between operations, allowed to change its own inbox.
Ready(p) == status[p] = "up" /\ op[p] = Idle /\ LiveOwner(p, HostOf[p])
\* The files of operations that change several: hold the lock, start the steps.
Enter(p, I, step, d) ==
    /\ lock' = Locked(I, p)
    /\ op' = [op EXCEPT ![p] = [Idle EXCEPT !.step = step, !.on = d]]
Leave(p) ==
    /\ lock' = Unlocked(p)
    /\ op' = [op EXCEPT ![p] = Idle]

(***************************************************************************)
(* enqueue_envelope_locked: a delivery already filed under this identifier *)
(* is accepted again if its content agrees and refused if it does not; a   *)
(* new one needs room in the inbox.                                        *)
(***************************************************************************)
\* Mutant: a claimed delivery is not looked for.
FiledUnclaimed(d) == IF Present(acked, d) THEN acked[d] ELSE pending[d]

\* Mutant: the tombstone is not consulted.
FiledUnacknowledged(d) == IF Present(pending, d) THEN pending[d] ELSE processing[d]

Filed(d) == IF Present(acked, d) THEN acked[d]
            ELSE IF Present(pending, d) THEN pending[d] ELSE processing[d]

\* Mutant: whatever is filed under the identifier is taken for the same delivery.
AcceptsAnyContent(d, c) == Filed(d) # Absent \/ QueueLen(Home(d)) < MaxInbox

\* Mutant: the limit is checked off by one.
AcceptsOneMore(d, c) ==
    Filed(d) = c \/ (Filed(d) = Absent /\ QueueLen(Home(d)) <= MaxInbox)

Accepts(d, c) ==
    \/ Filed(d) = c
    \/ Filed(d) = Absent /\ QueueLen(Home(d)) < MaxInbox

File(d, c) ==
    /\ pending' = IF Filed(d) = Absent THEN [pending EXCEPT ![d] = c] ELSE pending
    /\ accepted' = accepted \cup {d}

(***************************************************************************)
(* compact_acknowledgements asks its callers for a cutoff beyond their     *)
(* retry and crash-recovery window: nobody works on an exchange any more   *)
(* once one of its tombstones is that old.                                 *)
(***************************************************************************)
InWindow(r) == {Req(r), Rsp(r)} \cap aged = {}

Old(i) == {d \in Inbox(i) \cap aged : Present(acked, d)}
\* How many tombstones the automatic policy removes: old ones only, and
\* never the newest RetainLatest.
Reclaimable(i) ==
    LET beyond == IF AckCount(i) > RetainLatest THEN AckCount(i) - RetainLatest ELSE 0
    IN  IF Cardinality(Old(i)) < beyond THEN Cardinality(Old(i)) ELSE beyond
Oldest(i) == {S \in SUBSET Old(i) : Cardinality(S) = Reclaimable(i)}
\* The tombstones removed to make room for one more: none below the limit.
Reclaimed(i) == IF AckCount(i) < MaxAcks THEN {{}} ELSE Oldest(i)
\* (Above the limit the directory cannot even be listed for compaction.)
RoomForTombstone(i) ==
    AckCount(i) < MaxAcks \/ (AckCount(i) = MaxAcks /\ Reclaimable(i) > 0)
RemoveTombstones(S) == acked' = [d \in Deliveries |-> IF d \in S THEN Absent ELSE acked[d]]

Unclaim(d) ==
    /\ processing' = [processing EXCEPT ![d] = Absent]
    /\ claimer' = [claimer EXCEPT ![d] = NoRuntime]

WriteTombstone(d, S) ==
    acked' = [e \in Deliveries |-> IF e = d THEN processing[d]
                                   ELSE IF e \in S THEN Absent ELSE acked[e]]

----------------------------------------------------------------------------
Init ==
    /\ status = [p \in Runtimes |-> "new"]
    /\ lease = [i \in Instances |-> NoLease]
    /\ lock = [i \in Instances |-> NoRuntime]
    /\ pending = [d \in Deliveries |-> Absent]
    /\ processing = [d \in Deliveries |-> Absent]
    /\ acked = [d \in Deliveries |-> Absent]
    /\ op = [p \in Runtimes |-> Idle]
    /\ aged = {}
    /\ claimer = [d \in Deliveries |-> NoRuntime]
    /\ answered = [r \in Requests |-> {}]
    /\ accepted = {}
    /\ dismissed = {}

----------------------------------------------------------------------------
(* Leases *)

\* Mutant: a stale entry is replaced like a missing one.
RegisterOverStale(p) ==
    LET i == HostOf[p] IN
    /\ status[p] = "new" /\ op[p] = Idle /\ Free({i})
    /\ lease[i].owner = NoRuntime \/ lease[i].stale
    /\ lease' = [lease EXCEPT ![i] = [owner |-> p, stale |-> FALSE]]
    /\ status' = [status EXCEPT ![p] = "up"]
    /\ UNCHANGED <<lock, files, op, aged, history>>

\* register, no entry in the registry: nothing is recovered.
Register(p) ==
    LET i == HostOf[p] IN
    /\ status[p] = "new" /\ op[p] = Idle /\ Free({i})
    /\ lease[i].owner = NoRuntime
    /\ lease' = [lease EXCEPT ![i] = [owner |-> p, stale |-> FALSE]]
    /\ status' = [status EXCEPT ![p] = "up"]
    /\ UNCHANGED <<lock, files, op, aged, history>>

\* Mutant: recovery does not wait for the instance lock.
TakeoverUnlocked(p) ==
    LET i == HostOf[p] IN
    /\ status[p] = "new" /\ op[p] = Idle
    /\ lease[i].owner # NoRuntime /\ lease[i].stale
    /\ AckCount(i) <= MaxAcks
    /\ lock' = Locked({i}, p)
    /\ op' = [op EXCEPT ![p] = [Idle EXCEPT !.step = "scan", !.count = AckCount(i)]]
    /\ UNCHANGED <<status, lease, files, aged, history>>

\* register, a stale entry of another runtime: recovery starts.
Takeover(p) ==
    LET i == HostOf[p] IN
    /\ status[p] = "new" /\ op[p] = Idle /\ Free({i})
    /\ lease[i].owner # NoRuntime /\ lease[i].stale
    /\ AckCount(i) <= MaxAcks
    /\ lock' = Locked({i}, p)
    /\ op' = [op EXCEPT ![p] = [Idle EXCEPT !.step = "scan", !.count = AckCount(i)]]
    /\ UNCHANGED <<status, lease, files, aged, history>>

\* heartbeat: ownership is enough, a stale lease of one's own is renewed.
Heartbeat(p) ==
    LET i == HostOf[p] IN
    /\ status[p] = "up" /\ Free({i})
    /\ lease[i].owner = p
    /\ lease' = [lease EXCEPT ![i].stale = FALSE]
    /\ UNCHANGED <<status, lock, files, op, aged, history>>

\* The lease outlives its time to live without a heartbeat.
Expire(i) ==
    /\ lease[i].owner # NoRuntime /\ ~lease[i].stale
    /\ lease' = [lease EXCEPT ![i] = [owner |-> @.owner, stale |-> TRUE]]
    /\ UNCHANGED <<status, lock, files, op, aged, history>>

\* unregister at shutdown; a runtime that lost its lease only stops.
Unregister(p) ==
    LET i == HostOf[p] IN
    /\ status[p] = "up" /\ op[p] = Idle /\ Free({i})
    /\ lease' = IF lease[i].owner = p THEN [lease EXCEPT ![i] = NoLease] ELSE lease
    /\ status' = [status EXCEPT ![p] = "down"]
    /\ UNCHANGED <<lock, files, op, aged, history>>

\* The process dies; the kernel releases its file locks.  Bound: the last
\* incarnation of an instance does not crash.
Crash(p) ==
    /\ status[p] = "up" \/ op[p] # Idle
    /\ \E q \in Runtimes \ {p} :
          HostOf[q] = HostOf[p] /\ status[q] = "new" /\ op[q] = Idle
    /\ status' = [status EXCEPT ![p] = "crashed"]
    /\ Leave(p)
    /\ UNCHANGED <<lease, files, aged, history>>

----------------------------------------------------------------------------
(* Queue operations that change one file *)

Enqueue(p, r) ==
    /\ Ready(p) /\ HostOf[p] = From[r] /\ LivePeer(To[r]) /\ InWindow(r)
    /\ Free({From[r], To[r]})
    /\ Accepts(Req(r), Payload)
    /\ File(Req(r), Payload)
    /\ UNCHANGED <<status, lease, lock, processing, acked, op, aged,
                   claimer, answered, dismissed>>

\* claim_pending, claim_delivery, dequeue (the first request in the order of the
\* file names, which are hashes: any): one rename.
Claim(p, d) ==
    /\ Ready(p) /\ HostOf[p] = Home(d) /\ Free({Home(d)})
    /\ Present(pending, d) /\ ~Present(processing, d)
    /\ processing' = [processing EXCEPT ![d] = pending[d]]
    /\ pending' = [pending EXCEPT ![d] = Absent]
    /\ claimer' = [claimer EXCEPT ![d] = p]
    /\ UNCHANGED <<status, lease, lock, acked, op, aged,
                   answered, accepted, dismissed>>

Release(p, d) ==
    /\ Ready(p) /\ HostOf[p] = Home(d) /\ Free({Home(d)})
    /\ Present(processing, d) /\ ~Present(pending, d)
    /\ pending' = [pending EXCEPT ![d] = processing[d]]
    /\ Unclaim(d)
    /\ UNCHANGED <<status, lease, lock, acked, op, aged, answered, accepted, dismissed>>

\* compact_acknowledgements under the caller's policy: any old tombstones.
Compact(p) ==
    LET i == HostOf[p] IN
    /\ Ready(p) /\ Free({i})
    /\ AckCount(i) <= MaxAcks
    /\ \E S \in SUBSET Old(i) \ {{}} : RemoveTombstones(S)
    /\ UNCHANGED <<status, lease, lock, pending, processing, op, aged, history>>

\* A tombstone passes the retention horizon.
Age(d) ==
    /\ Present(acked, d) /\ d \notin aged
    /\ aged' = aged \cup {d}
    /\ UNCHANGED <<status, lease, lock, files, op, history>>

----------------------------------------------------------------------------
(* Operations that change several files *)

\* Mutant: the delivery is removed and no tombstone is written.
AckStepUnmarked(d) == "unlink"

\* Mutant: the resumed operation starts at a step that does not exist.
AckStepUnknown(d) == IF Present(acked, d) THEN "remove" ELSE "tombstone"

AckStep(d) == IF Present(acked, d) THEN "unlink" ELSE "tombstone"

\* complete_claimed_request and reject_claimed_request: the response is
\* filed first, under the locks of both instances; then the request is
\* acknowledged.
Complete(p, r, c) ==
    /\ Ready(p) /\ HostOf[p] = To[r] /\ InWindow(r)
    /\ Free({To[r], From[r]})
    /\ Present(processing, Req(r)) \/ Present(acked, Req(r))
    /\ Accepts(Rsp(r), c)
    /\ File(Rsp(r), c)
    /\ answered' = [answered EXCEPT ![r] = @ \cup {c}]
    /\ Enter(p, {To[r], From[r]}, AckStep(Req(r)), Req(r))
    /\ UNCHANGED <<status, lease, processing, acked, aged,
                   claimer, dismissed>>

\* consume_response: claim the pending response, keep the lock, go on.
Consume(p, r) ==
    LET d == Rsp(r) IN
    /\ Ready(p) /\ HostOf[p] = Home(d) /\ Free({Home(d)})
    /\ Present(pending, d) /\ ~Present(processing, d)
    /\ processing' = [processing EXCEPT ![d] = pending[d]]
    /\ pending' = [pending EXCEPT ![d] = Absent]
    /\ claimer' = [claimer EXCEPT ![d] = p]
    /\ Enter(p, {Home(d)}, AckStep(d), d)
    /\ UNCHANGED <<status, lease, acked, aged, answered, accepted, dismissed>>

\* acknowledge, acknowledge_response, and consume_response resumed.
Acknowledge(p, d) ==
    /\ Ready(p) /\ HostOf[p] = Home(d) /\ Free({Home(d)})
    /\ Present(processing, d)
    /\ Enter(p, {Home(d)}, AckStep(d), d)
    /\ dismissed' = IF d.kind = "request" /\ answered[d.req] = {}
                    THEN dismissed \cup {d} ELSE dismissed
    /\ UNCHANGED <<status, lease, files, aged, claimer, answered, accepted>>

\* acknowledge_locked, first file: the tombstone.
Tombstone(p) ==
    LET d == op[p].on IN
    /\ op[p].step = "tombstone"
    /\ RoomForTombstone(Home(d))
    /\ \E S \in Reclaimed(Home(d)) : WriteTombstone(d, S)
    /\ op' = [op EXCEPT ![p].step = "unlink"]
    /\ UNCHANGED <<status, lease, lock, pending, processing, aged, history>>

\* acknowledge_locked refuses: the operation fails half done.
AckLimitReached(p) ==
    /\ op[p].step = "tombstone"
    /\ ~RoomForTombstone(Home(op[p].on))
    /\ Leave(p)
    /\ UNCHANGED <<status, lease, files, aged, history>>

\* acknowledge_locked, second file: the delivery goes.
Unlink(p) ==
    /\ op[p].step = "unlink"
    /\ Unclaim(op[p].on)
    /\ Leave(p)
    /\ UNCHANGED <<status, lease, pending, acked, aged, answered, accepted, dismissed>>

----------------------------------------------------------------------------
(* Recovery of a stale instance's processing directory, inside register.   *)
(* It holds the lock of the recovered instance only: the sender's inbox is *)
(* read file by file while its owner may be at work in it.  Every file is  *)
(* judged before the first one is changed.                                 *)

Unread(p) == {d \in Inbox(HostOf[p]) : Present(processing, d) /\ op[p].plan[d] = "none"}
Scanning(p, plan, count) ==
    op' = [op EXCEPT ![p] = [step |-> "scan", on |-> NoDelivery,
                             plan |-> plan, count |-> count]]
Judge(p, d, verdict) ==
    Scanning(p, [op[p].plan EXCEPT ![d] = verdict], op[p].count) /\ UNCHANGED acked
\* Mutant: a claim that nobody answered is left to its dead owner.
RequeueNot(d) == IF Present(pending, d) THEN "remove" ELSE "none"

\* Mutant: what was claimed is taken for done.
RequeueDone(d) == IF Present(pending, d) THEN "remove" ELSE "ack"

Requeue(d) == IF Present(pending, d) THEN "remove" ELSE "move"

\* An answered request is to get its tombstone.  At the limit old tombstones
\* are removed and those left on disk are counted afresh.
Answered(p, d) ==
    LET i == HostOf[p]
        plan == [op[p].plan EXCEPT ![d] = "ack"]
    IN  \/ /\ op[p].count < MaxAcks
           /\ Scanning(p, plan, op[p].count + 1)
           /\ UNCHANGED acked
        \/ /\ op[p].count >= MaxAcks
           /\ AckCount(i) - Reclaimable(i) < MaxAcks
           /\ Scanning(p, plan, AckCount(i) - Reclaimable(i) + 1)
           /\ \E S \in Oldest(i) : RemoveTombstones(S)

\* The file's own tombstone decides; else a request looks for its response,
\* first among the sender's tombstones ...
Scan(p, d) ==
    /\ op[p].step = "scan" /\ d \in Unread(p)
    /\ IF Present(acked, d) THEN Judge(p, d, "remove")
       ELSE IF d.kind = "response" THEN Judge(p, d, Requeue(d))
       ELSE IF Present(acked, Rsp(d.req)) THEN Answered(p, d)
       ELSE /\ op' = [op EXCEPT ![p] = [@ EXCEPT !.step = "probePending", !.on = d]]
            /\ UNCHANGED acked
    /\ UNCHANGED <<status, lease, lock, pending, processing, aged, history>>

\* ... then in the sender's pending directory ...
ProbePending(p) ==
    LET d == op[p].on IN
    /\ op[p].step = "probePending"
    /\ IF Present(pending, Rsp(d.req)) THEN Answered(p, d)
       ELSE op' = [op EXCEPT ![p].step = "probeProcessing"] /\ UNCHANGED acked
    /\ UNCHANGED <<status, lease, lock, pending, processing, aged, history>>

\* ... then in its processing directory.
ProbeProcessing(p) ==
    LET d == op[p].on IN
    /\ op[p].step = "probeProcessing"
    /\ IF Present(processing, Rsp(d.req)) THEN Answered(p, d)
       ELSE Judge(p, d, Requeue(d))
    /\ UNCHANGED <<status, lease, lock, pending, processing, aged, history>>

\* There is no room for a planned tombstone: register fails before any
\* delivery was changed.
RecoveryRefused(p) ==
    LET i == HostOf[p] IN
    /\ op[p].step \in {"scan", "probePending", "probeProcessing"}
    /\ op[p].count >= MaxAcks /\ AckCount(i) - Reclaimable(i) >= MaxAcks
    /\ \/ op[p].step = "scan" /\ \E d \in Unread(p) :
             d.kind = "request" /\ ~Present(acked, d) /\ Present(acked, Rsp(d.req))
       \/ op[p].step = "probePending" /\ Present(pending, Rsp(op[p].on.req))
       \/ op[p].step = "probeProcessing" /\ Present(processing, Rsp(op[p].on.req))
    /\ Leave(p)
    /\ UNCHANGED <<status, lease, files, aged, history>>

StartApply(p) ==
    /\ op[p].step = "scan" /\ Unread(p) = {}
    /\ op' = [op EXCEPT ![p].step = "apply"]
    /\ UNCHANGED <<status, lease, lock, files, aged, history>>

\* apply_recovery_actions, one file at a time.
Apply(p, d) ==
    /\ op[p].step = "apply" /\ Present(processing, d)
    /\ \/ /\ op[p].plan[d] = "remove"
          /\ Unclaim(d)
          /\ UNCHANGED <<pending, acked, op>>
       \/ /\ op[p].plan[d] = "move"
          /\ pending' = [pending EXCEPT ![d] = processing[d]]
          /\ Unclaim(d)
          /\ UNCHANGED <<acked, op>>
       \/ /\ op[p].plan[d] = "ack"
          /\ acked' = [acked EXCEPT ![d] = processing[d]]
          /\ op' = [op EXCEPT ![p] = [@ EXCEPT !.step = "sweep", !.on = d]]
          /\ UNCHANGED <<pending, processing, claimer>>
    /\ UNCHANGED <<status, lease, lock, aged, answered, accepted, dismissed>>

Sweep(p) ==
    /\ op[p].step = "sweep"
    /\ Unclaim(op[p].on)
    /\ op' = [op EXCEPT ![p] = [@ EXCEPT !.step = "apply", !.on = NoDelivery]]
    /\ UNCHANGED <<status, lease, lock, pending, acked, aged, answered, accepted, dismissed>>

\* The new lease is published only after every file was recovered.
Publish(p) ==
    LET i == HostOf[p] IN
    /\ op[p].step = "apply"
    /\ \A d \in Inbox(i) : ~Present(processing, d)
    /\ lease' = [lease EXCEPT ![i] = [owner |-> p, stale |-> FALSE]]
    /\ status' = [status EXCEPT ![p] = "up"]
    /\ Leave(p)
    /\ UNCHANGED <<files, aged, history>>

----------------------------------------------------------------------------
LeaseOp(p) == Register(p) \/ Heartbeat(p) \/ Unregister(p) \/ Crash(p)
QueueOp(p) ==
    \/ \E r \in Requests : Enqueue(p, r) \/ Consume(p, r)
    \/ \E r \in Requests, c \in Replies : Complete(p, r, c)
    \/ \E d \in Deliveries : Claim(p, d) \/ Release(p, d) \/ Acknowledge(p, d)
AckOp(p) == Tombstone(p) \/ AckLimitReached(p) \/ Unlink(p)
Recover(p) ==
    \/ \E d \in Deliveries : Scan(p, d) \/ Apply(p, d)
    \/ ProbePending(p) \/ ProbeProcessing(p) \/ RecoveryRefused(p)
    \/ StartApply(p) \/ Sweep(p) \/ Publish(p)
Step(p) ==
    LeaseOp(p) \/ QueueOp(p) \/ Compact(p) \/ AckOp(p) \/ Takeover(p) \/ Recover(p)

Next ==
    \/ \E p \in Runtimes : Step(p)
    \/ \E i \in Instances : Expire(i)
    \/ \E d \in Deliveries : Age(d)

Spec == Init /\ [][Next]_vars

----------------------------------------------------------------------------
(* Invariants *)

OpType == [step : Steps, on : Deliveries \cup {NoDelivery},
           plan : [Deliveries -> Verdicts], count : Nat]

\* Every variable has its type: the registry, lock table, inbox files and
\* operations of the bus are well formed.
TypeOK ==
    /\ status \in [Runtimes -> {"new", "up", "down", "crashed"}]
    /\ lease \in [Instances -> [owner : Runtimes \cup {NoRuntime}, stale : BOOLEAN]]
    /\ lock \in [Instances -> Runtimes \cup {NoRuntime}]
    /\ pending \in [Deliveries -> Contents \cup {Absent}]
    /\ processing \in [Deliveries -> Contents \cup {Absent}]
    /\ acked \in [Deliveries -> Contents \cup {Absent}]
    /\ op \in [Runtimes -> OpType]
    /\ aged \in SUBSET Deliveries
    /\ claimer \in [Deliveries -> Runtimes \cup {NoRuntime}]
    /\ answered \in [Requests -> SUBSET Replies]
    /\ accepted \in SUBSET Deliveries
    /\ dismissed \in SUBSET Deliveries

\* "The transport acknowledges the inbound request only after its response is
\* durable": a request has a tombstone only if a response was filed for it,
\* whatever crashed and whatever recovery found, or it was dismissed unanswered.
ResponseBeforeTombstone ==
    \A r \in Requests :
        Present(acked, Req(r)) => answered[r] # {} \/ Req(r) \in dismissed

\* Retries, recoveries and a second runtime converge on one response: no two
\* contents are ever filed in answer to the same request.
OneAnswer == \A r \in Requests : \A b, c \in answered[r] : b = c

\* A delivery once accepted into an inbox is queued, claimed or tombstoned
\* until its tombstone outlives the retention horizon: no crash point between
\* two file operations loses it.
NothingLost ==
    \A d \in accepted \ aged :
        Present(pending, d) \/ Present(processing, d) \/ Present(acked, d)

\* There is never a queued and a claimed copy of one delivery, however often
\* it is sent, claimed, released and recovered.
QueuedOnce ==
    \A d \in Deliveries : Present(pending, d) => ~Present(processing, d)

\* A claim is held by the runtime that owns the lease, or by one that shut
\* down in good order: after a crash the next runtime finds every claim
\* recovered before its lease is published.
ClaimsOwned ==
    \A d \in Deliveries :
        Present(processing, d) =>
            \/ lease[Home(d)].owner = claimer[d]
            \/ claimer[d] \in Runtimes /\ status[claimer[d]] = "down"

\* Nobody works in an inbox whose lease has moved on: an operation in
\* progress belongs to the lease owner, a recovery to a runtime facing the
\* stale lease of another.
OperationsFenced ==
    \A p \in Runtimes : op[p].step # "idle" =>
        LET i == HostOf[p] IN
        /\ lock[i] = p
        /\ IF op[p].step \in {"tombstone", "unlink"}
           THEN lease[i].owner = p
           ELSE lease[i].owner \notin {p, NoRuntime} /\ lease[i].stale

\* MAX_INBOX_MESSAGES bounds queued and claimed messages together, through
\* claims, releases, responses from other instances and recoveries.
InboxWithinLimit == \A i \in Instances : QueueLen(i) <= MaxInbox

----------------------------------------------------------------------------
(* Claims of the source that the code does not keep *)

\* MAX_ACKNOWLEDGEMENTS, "maximum retained payload-free acknowledgement
\* records per inbox".
AcksWithinLimit == \A i \in Instances : AckCount(i) <= MaxAcks

\* Recovery acknowledges a claimed request whose response is durable: it does
\* not queue it for another execution.
AnsweredNotRequeued ==
    \A p \in Runtimes, d \in Deliveries :
        op[p].step = "apply" /\ Present(processing, d) /\ op[p].plan[d] = "move"
            /\ d.kind = "request"
        => Filed(Rsp(d.req)) = Absent

\* Queued messages remain for a future registration: whoever owns the lease
\* holds the claims.
NoStrandedClaim ==
    \A d \in Deliveries :
        Present(processing, d) /\ LivePeer(Home(d)) => lease[Home(d)].owner = claimer[d]

----------------------------------------------------------------------------
(* Liveness *)

\* A crashed owner sends no heartbeat: its lease expires.
ExpireCrashed(i) ==
    lease[i].owner \in Runtimes /\ status[lease[i].owner] = "crashed" /\ Expire(i)

\* What a crashed runtime had claimed is recovered by a later one: queued again
\* or acknowledged, not left in processing for good; unless its inbox retains
\* more tombstones than its limit (see AcksWithinLimit): nobody can list those
\* any more, and register fails for good.
ClaimRecovered(d) ==
    (Present(processing, d) /\ claimer[d] \in Runtimes /\ status[claimer[d]] = "crashed")
        ~> (~Present(processing, d) \/ AckCount(Home(d)) > MaxAcks)

=============================================================================
