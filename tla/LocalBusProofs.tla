---------------------------- MODULE LocalBusProofs ----------------------------
(***************************************************************************)
(* Safety of the file transport for every number of instances, runtimes    *)
(* and requests.                                                           *)
(***************************************************************************)
EXTENDS LocalBus, FiniteSetTheorems, TLAPS

AckSteps == {"tombstone", "unlink"}
RecoverySteps == {"scan", "probePending", "probeProcessing", "apply", "sweep"}

\* An operation in progress holds the lock of its own instance and is inside
\* the lease (or facing a stale one); an idle runtime has nothing in hand.
OpOK(p) ==
    /\ op[p].step = "idle" => op[p] = Idle
    /\ op[p].step # "idle" => lock[HostOf[p]] = p
    /\ op[p].step \in AckSteps => status[p] = "up" /\ lease[HostOf[p]].owner = p
    /\ op[p].step \in RecoverySteps =>
          /\ status[p] = "new"
          /\ lease[HostOf[p]].owner \notin {p, NoRuntime}
          /\ lease[HostOf[p]].stale

\* What an operation in progress knows about the delivery in its hand.
HandOK(p) ==
    LET d == op[p].on IN
    /\ op[p].step \in {"tombstone", "unlink", "sweep", "probePending", "probeProcessing"}
          => d \in Deliveries /\ Home(d) = HostOf[p]
    /\ op[p].step = "tombstone" =>
          /\ Present(processing, d) /\ ~Present(acked, d)
          /\ d.kind = "request" => answered[d.req] # {} \/ d \in dismissed
    /\ op[p].step \in {"unlink", "sweep"} => Present(acked, d) \/ d \in aged
    /\ op[p].step \in {"probePending", "probeProcessing"} =>
          Present(processing, d) /\ d.kind = "request"

\* What a recovery has decided stays justified until it is applied.
PlanOK(p) ==
    \A d \in Deliveries :
        /\ op[p].plan[d] # "none" => Home(d) = HostOf[p]
        /\ op[p].plan[d] = "remove" => Present(acked, d) \/ d \in aged
        /\ op[p].plan[d] = "ack" => d.kind = "request" /\ answered[d.req] # {}

OpsInv == \A p \in Runtimes : OpOK(p) /\ HandOK(p) /\ PlanOK(p)

\* A runtime that never registered owns nothing; every claim has a claimant.
OwnersInv ==
    /\ \A i \in Instances : lease[i].owner \in Runtimes => status[lease[i].owner] # "new"
    /\ \A d \in Deliveries : Present(processing, d) => claimer[d] \in Runtimes

\* While an exchange is inside the retention horizon its response is on disk,
\* with the content first filed.
RepliesInv ==
    \A r \in Requests :
        /\ InWindow(r) /\ answered[r] # {} =>
              Filed(Rsp(r)) # Absent /\ answered[r] = {Filed(Rsp(r))}
        /\ Filed(Rsp(r)) # Absent => answered[r] # {}

IInv ==
    /\ TypeOK
    /\ OpsInv
    /\ OwnersInv
    /\ QueuedOnce
    /\ RepliesInv
    /\ OneAnswer
    /\ ResponseBeforeTombstone
    /\ NothingLost
    /\ ClaimsOwned
    /\ InboxWithinLimit

----------------------------------------------------------------------------
(* Counting tombstones *)

LEMMA DeliveriesFinite == IsFiniteSet(Deliveries)
<1> DEFINE pairs == Kinds \X Requests
<1> DEFINE f == [x \in pairs |-> [kind |-> x[1], req |-> x[2]]]
<1>1. IsFiniteSet(Kinds)
  <2>1. IsFiniteSet({"request"})
    BY FS_Singleton
  <2>2. IsFiniteSet({"request"} \cup {"response"})
    BY <2>1, FS_AddElement
  <2>3. {"request"} \cup {"response"} = Kinds
    BY DEF Kinds
  <2> QED BY <2>2, <2>3
<1>2. IsFiniteSet(pairs)
  BY <1>1, FS_Product, RoutesAssumption
<1>3. f \in Surjection(pairs, Deliveries)
  <2>1. f \in [pairs -> Deliveries]
    BY DEF Deliveries
  <2>2. ASSUME NEW d \in Deliveries PROVE \E x \in pairs : f[x] = d
    <3>1. <<d.kind, d.req>> \in pairs
      BY DEF Deliveries
    <3>2. f[<<d.kind, d.req>>] = d
      BY <3>1 DEF Deliveries
    <3> QED BY <3>1, <3>2
  <2> QED BY <2>1, <2>2, Zenon DEF Surjection
<1> QED BY <1>2, <1>3, FS_Surjection

\* The number of tombstones is a number, and compaction leaves a number.
LEMMA AckCountType ==
    ASSUME NEW i \in Instances
    PROVE  AckCount(i) \in Nat /\ AckCount(i) - Reclaimable(i) \in Nat
<1> DEFINE A == {d \in Inbox(i) : Present(acked, d)}
<1>1. A \in SUBSET Deliveries /\ Old(i) \in SUBSET A
  BY DEF Inbox, Old
<1>2. IsFiniteSet(A)
  BY <1>1, DeliveriesFinite, FS_Subset
<1>3. IsFiniteSet(Old(i)) /\ Cardinality(Old(i)) <= Cardinality(A)
  BY <1>1, <1>2, FS_Subset
<1>4. Cardinality(A) \in Nat /\ Cardinality(Old(i)) \in Nat
  BY <1>2, <1>3, FS_CardinalityType
<1>5. AckCount(i) = Cardinality(A)
  BY DEF AckCount
<1> QED BY <1>3, <1>4, <1>5, LimitsAssumption DEF Reclaimable

----------------------------------------------------------------------------
(* Types *)

LEMMA HomeType == \A d \in Deliveries : Home(d) \in Instances
BY RoutesAssumption DEF Deliveries, Home, Kinds

LEMMA OpTypes ==
    /\ Idle \in OpType
    /\ \A step \in Steps, d \in Deliveries : [Idle EXCEPT !.step = step, !.on = d] \in OpType
BY DEF Idle, OpType, Steps, NoPlan, Verdicts

LEMMA RequestTypes ==
    ASSUME NEW r \in Requests
    PROVE  Req(r) \in Deliveries /\ Rsp(r) \in Deliveries /\ Req(r) # Rsp(r)
BY DEF Req, Rsp, Deliveries, Kinds

LEMMA TypeInit == Init => TypeOK
<1> SUFFICES ASSUME Init PROVE TypeOK
  OBVIOUS
<1>1. lease \in [Instances -> [owner : Runtimes \cup {NoRuntime}, stale : BOOLEAN]]
  BY DEF Init, NoLease
<1>2. op \in [Runtimes -> OpType]
  BY OpTypes DEF Init
<1> QED BY <1>1, <1>2 DEF Init, TypeOK

\* The operations on leases.
LEMMA LeaseTypes ==
    ASSUME TypeOK,
           \/ \E p \in Runtimes : LeaseOp(p)
           \/ \E i \in Instances : Expire(i)
    PROVE  TypeOK'
<1>1. ASSUME NEW p \in Runtimes, Register(p) PROVE TypeOK'
  BY <1>1, RoutesAssumption DEF Register, TypeOK, files, history
<1>2. ASSUME NEW p \in Runtimes, Heartbeat(p) PROVE TypeOK'
  BY <1>2, RoutesAssumption DEF Heartbeat, TypeOK, files, history
<1>3. ASSUME NEW p \in Runtimes, Unregister(p) PROVE TypeOK'
  BY <1>3, RoutesAssumption DEF Unregister, TypeOK, NoLease, files, history
<1>4. ASSUME NEW p \in Runtimes, Crash(p) PROVE TypeOK'
  BY <1>4, OpTypes DEF Crash, Leave, Unlocked, TypeOK, files, history
<1>5. ASSUME NEW i \in Instances, Expire(i) PROVE TypeOK'
  BY <1>5 DEF Expire, TypeOK, files, history
<1> QED BY <1>1, <1>2, <1>3, <1>4, <1>5 DEF LeaseOp

\* The operations on the queue, and those that start an acknowledgement.
LEMMA QueueTypes ==
    ASSUME TypeOK, NEW p \in Runtimes, QueueOp(p)
    PROVE  TypeOK'
<1> USE RequestTypes
<1>1. ASSUME NEW r \in Requests, Enqueue(p, r) PROVE TypeOK'
  BY <1>1 DEF Enqueue, File, TypeOK, Contents
<1>2. ASSUME NEW d \in Deliveries, Claim(p, d) PROVE TypeOK'
  BY <1>2 DEF Claim, TypeOK
<1>3. ASSUME NEW d \in Deliveries, Release(p, d) PROVE TypeOK'
  BY <1>3, MarkersAssumption DEF Release, Unclaim, TypeOK
<1>4. ASSUME NEW e \in Deliveries PROVE AckStep(e) \in Steps
  BY DEF AckStep, Steps
<1>5. ASSUME NEW I, NEW e \in Deliveries, Enter(p, I, AckStep(e), e)
      PROVE  /\ lock' \in [Instances -> Runtimes \cup {NoRuntime}]
             /\ op' \in [Runtimes -> OpType]
  <2>1. [Idle EXCEPT !.step = AckStep(e), !.on = e] \in OpType
    BY <1>4, OpTypes
  <2> QED BY <1>5, <2>1 DEF Enter, Locked, TypeOK
<1>6. ASSUME NEW r \in Requests, NEW c \in Replies, Complete(p, r, c) PROVE TypeOK'
  BY <1>5, <1>6 DEF Complete, File, TypeOK, Contents
<1>7. ASSUME NEW r \in Requests, Consume(p, r) PROVE TypeOK'
  BY <1>5, <1>7 DEF Consume, TypeOK
<1>8. ASSUME NEW d \in Deliveries, Acknowledge(p, d) PROVE TypeOK'
  BY <1>5, <1>8 DEF Acknowledge, TypeOK, files
<1> QED BY <1>1, <1>2, <1>3, <1>6, <1>7, <1>8 DEF QueueOp

\* Retention, and the steps of an acknowledgement.
LEMMA AckTypes ==
    ASSUME TypeOK,
           \/ \E p \in Runtimes : Compact(p) \/ AckOp(p)
           \/ \E d \in Deliveries : Age(d)
    PROVE  TypeOK'
<1>1. ASSUME NEW p \in Runtimes, Compact(p) PROVE TypeOK'
  BY <1>1 DEF Compact, RemoveTombstones, TypeOK, history
<1>2. ASSUME NEW d \in Deliveries, Age(d) PROVE TypeOK'
  BY <1>2 DEF Age, TypeOK, files, history
<1>3. ASSUME NEW p \in Runtimes, Tombstone(p) PROVE TypeOK'
  <2>1. PICK S \in Reclaimed(Home(op[p].on)) : WriteTombstone(op[p].on, S)
    BY <1>3 DEF Tombstone
  <2>2. acked' \in [Deliveries -> Contents \cup {Absent}]
    BY <2>1 DEF WriteTombstone, TypeOK
  <2>3. op' \in [Runtimes -> OpType]
    BY <1>3 DEF Tombstone, TypeOK, OpType, Steps
  <2> QED BY <1>3, <2>2, <2>3 DEF Tombstone, TypeOK, history
<1>4. ASSUME NEW p \in Runtimes, Leave(p)
      PROVE  /\ lock' \in [Instances -> Runtimes \cup {NoRuntime}]
             /\ op' \in [Runtimes -> OpType]
  BY <1>4, OpTypes DEF Leave, Unlocked, TypeOK
<1>5. ASSUME NEW p \in Runtimes, AckLimitReached(p) PROVE TypeOK'
  BY <1>4, <1>5 DEF AckLimitReached, TypeOK, files, history
<1>6. ASSUME NEW p \in Runtimes, Unlink(p) PROVE TypeOK'
  BY <1>4, <1>6, MarkersAssumption DEF Unlink, Unclaim, TypeOK
<1> QED BY <1>1, <1>2, <1>3, <1>5, <1>6 DEF AckOp

\* The steps of a recovery.
LEMMA RecoverTypes ==
    ASSUME TypeOK, NEW p \in Runtimes, Takeover(p) \/ Recover(p)
    PROVE  TypeOK'
<1>1. CASE Takeover(p)
  <2>1. AckCount(HostOf[p]) \in Nat
    BY AckCountType, RoutesAssumption
  <2>2. [Idle EXCEPT !.step = "scan", !.count = AckCount(HostOf[p])] \in OpType
    BY <2>1 DEF Idle, OpType, Steps, NoPlan, Verdicts
  <2>3. op' \in [Runtimes -> OpType]
    BY <1>1, <2>2 DEF Takeover, TypeOK
  <2> QED BY <1>1, <2>3 DEF Takeover, Locked, TypeOK, files, history
<1>2. ASSUME NEW d, NEW v \in Verdicts, Judge(p, d, v)
      PROVE  op' \in [Runtimes -> OpType] /\ UNCHANGED acked
  BY <1>2 DEF Judge, Scanning, TypeOK, OpType, Steps
<1>3. ASSUME NEW d, Answered(p, d)
      PROVE  op' \in [Runtimes -> OpType] /\ acked' \in [Deliveries -> Contents \cup {Absent}]
  <2> DEFINE plan == [op[p].plan EXCEPT ![d] = "ack"]
  <2> DEFINE left == AckCount(HostOf[p]) - Reclaimable(HostOf[p])
  <2>1. plan \in [Deliveries -> Verdicts] /\ left \in Nat
    BY AckCountType, RoutesAssumption DEF TypeOK, OpType, Verdicts
  <2>2. ASSUME NEW n \in Nat, Scanning(p, plan, n) PROVE op' \in [Runtimes -> OpType]
    BY <2>1, <2>2 DEF Scanning, TypeOK, OpType, Steps
  <2>3. op[p].count + 1 \in Nat /\ left + 1 \in Nat
    BY <2>1 DEF TypeOK, OpType
  <2>4. CASE Scanning(p, plan, op[p].count + 1) /\ UNCHANGED acked
    BY <2>2, <2>3, <2>4 DEF TypeOK
  <2>5. CASE /\ Scanning(p, plan, left + 1)
             /\ \E S \in Oldest(HostOf[p]) : RemoveTombstones(S)
    BY <2>2, <2>3, <2>5 DEF RemoveTombstones, TypeOK
  <2> QED BY <1>3, <2>4, <2>5 DEF Answered
<1>4. ASSUME NEW d PROVE Requeue(d) \in Verdicts /\ "remove" \in Verdicts
  BY DEF Requeue, Verdicts
<1>5. ASSUME NEW d \in Deliveries, Scan(p, d) PROVE TypeOK'
  <2>1. CASE Judge(p, d, "remove") \/ Judge(p, d, Requeue(d)) \/ Answered(p, d)
    BY <1>2, <1>3, <1>4, <1>5, <2>1 DEF Scan, TypeOK, history
  <2>2. CASE op' = [op EXCEPT ![p] = [@ EXCEPT !.step = "probePending", !.on = d]] /\ UNCHANGED acked
    <3>1. op' \in [Runtimes -> OpType]
      BY <2>2 DEF TypeOK, OpType, Steps
    <3> QED BY <1>5, <2>2, <3>1 DEF Scan, TypeOK, history
  <2> QED BY <1>5, <2>1, <2>2 DEF Scan
<1>6. CASE ProbePending(p) \/ ProbeProcessing(p)
  <2>1. CASE Answered(p, op[p].on) \/ Judge(p, op[p].on, Requeue(op[p].on))
    BY <1>2, <1>3, <1>4, <1>6, <2>1 DEF ProbePending, ProbeProcessing, TypeOK, history
  <2>2. CASE op' = [op EXCEPT ![p].step = "probeProcessing"] /\ UNCHANGED acked
    <3>1. op' \in [Runtimes -> OpType]
      BY <2>2 DEF TypeOK, OpType, Steps
    <3> QED BY <1>6, <2>2, <3>1 DEF ProbePending, ProbeProcessing, TypeOK, history
  <2> QED BY <1>6, <2>1, <2>2 DEF ProbePending, ProbeProcessing
<1>7. CASE RecoveryRefused(p)
  BY <1>7, OpTypes DEF RecoveryRefused, Leave, Unlocked, TypeOK, files, history
<1>8. CASE StartApply(p)
  <2>1. op' = [op EXCEPT ![p].step = "apply"]
    BY <1>8 DEF StartApply
  <2>2. op' \in [Runtimes -> OpType]
    BY <2>1 DEF TypeOK, OpType, Steps
  <2> QED BY <1>8, <2>2 DEF StartApply, TypeOK, files, history
<1>9. ASSUME NEW d \in Deliveries, Apply(p, d) PROVE TypeOK'
  <2>1. [op[p] EXCEPT !.step = "sweep", !.on = d] \in OpType
    BY DEF TypeOK, OpType, Steps
  <2>2. op' \in [Runtimes -> OpType]
    BY <1>9, <2>1 DEF Apply, TypeOK
  <2>3. /\ pending' \in [Deliveries -> Contents \cup {Absent}]
        /\ processing' \in [Deliveries -> Contents \cup {Absent}]
        /\ acked' \in [Deliveries -> Contents \cup {Absent}]
        /\ claimer' \in [Deliveries -> Runtimes \cup {NoRuntime}]
    BY <1>9 DEF Apply, Unclaim, TypeOK
  <2> QED BY <1>9, <2>2, <2>3 DEF Apply, TypeOK
<1>10. CASE Sweep(p)
  <2>1. [op[p] EXCEPT !.step = "apply", !.on = NoDelivery] \in OpType
    BY DEF TypeOK, OpType, Steps
  <2> QED BY <1>10, <2>1 DEF Sweep, Unclaim, TypeOK
<1>11. CASE Publish(p)
  BY <1>11, OpTypes, RoutesAssumption DEF Publish, Leave, Unlocked, TypeOK, files, history
<1> QED BY <1>1, <1>5, <1>6, <1>7, <1>8, <1>9, <1>10, <1>11 DEF Recover

LEMMA TypeStep == TypeOK /\ [Next]_vars => TypeOK'
<1> SUFFICES ASSUME TypeOK, [Next]_vars PROVE TypeOK'
  OBVIOUS
<1>1. CASE Next
  BY <1>1, LeaseTypes, QueueTypes, AckTypes, RecoverTypes DEF Next, Step
<1>2. CASE UNCHANGED vars
  BY <1>2 DEF vars, files, history, TypeOK
<1> QED BY <1>1, <1>2

----------------------------------------------------------------------------
(* Isolation: while a runtime is inside an operation, nothing that another *)
(* one does touches the inbox, the lease or the lock of its instance.      *)

Undisturbed(q) ==
    /\ lock'[HostOf[q]] = lock[HostOf[q]]
    /\ lease'[HostOf[q]] = lease[HostOf[q]]
    /\ status'[q] = status[q]
    /\ \A d \in Inbox(HostOf[q]) :
          /\ pending'[d] = pending[d]
          /\ processing'[d] = processing[d]
          /\ acked'[d] = acked[d]
          /\ claimer'[d] = claimer[d]

LEMMA OthersOperation ==
    ASSUME TypeOK, NEW p \in Runtimes, Step(p), NEW q \in Runtimes \ {p}
    PROVE  op'[q] = op[q]
<1>1. CASE LeaseOp(p)
  BY <1>1 DEF LeaseOp, Register, Heartbeat, Unregister, Crash, Leave, TypeOK
<1>2. CASE QueueOp(p)
  BY <1>2 DEF QueueOp, Enqueue, Consume, Complete, Claim, Release, Acknowledge, Enter, TypeOK
<1>3. CASE Compact(p) \/ AckOp(p)
  BY <1>3 DEF Compact, AckOp, Tombstone, AckLimitReached, Unlink, Leave, TypeOK
<1>4. CASE Takeover(p)
  BY <1>4 DEF Takeover, TypeOK
<1>5. CASE Recover(p)
  BY <1>5 DEF Recover, Scan, Apply, ProbePending, ProbeProcessing, RecoveryRefused, StartApply,
              Sweep, Publish, Leave, Judge, Answered, Scanning, TypeOK
<1> QED BY <1>1, <1>2, <1>3, <1>4, <1>5 DEF Step

LEMMA Isolation ==
    ASSUME TypeOK, OpsInv, NEW p \in Runtimes, Step(p),
           NEW q \in Runtimes \ {p}, op[q].step # "idle"
    PROVE  Undisturbed(q)
<1> DEFINE i == HostOf[q]
<1>1. /\ i \in Instances /\ HostOf[p] \in Instances
      /\ lock[i] = q /\ q # NoRuntime
      /\ \A d \in Inbox(i) : d \in Deliveries /\ Home(d) = i
  BY RoutesAssumption, MarkersAssumption DEF OpsInv, OpOK, Inbox
<1>2. ASSUME NEW I, Free(I) PROVE i \notin I
  BY <1>1, <1>2 DEF Free
<1>3. op[p].step # "idle" => HostOf[p] # i
  BY <1>1 DEF OpsInv, OpOK
<1>4. Unlocked(p)[i] = lock[i]
  BY <1>1 DEF Unlocked
<1>5. CASE LeaseOp(p)
  BY <1>1, <1>2, <1>4, <1>5
     DEF LeaseOp, Register, Heartbeat, Unregister, Crash, Leave, Undisturbed, TypeOK, files, history
<1>6. CASE QueueOp(p)
  <2>1. ASSUME NEW I, NEW step, NEW d, Enter(p, I, step, d), Free(I) PROVE lock'[i] = lock[i]
    BY <1>1, <1>2, <2>1 DEF Enter, Locked
  <2>2. ASSUME NEW r \in Requests PROVE Home(Req(r)) = To[r] /\ Home(Rsp(r)) = From[r]
    BY DEF Home, Req, Rsp
  <2>3. ASSUME NEW r \in Requests, Enqueue(p, r) PROVE Undisturbed(q)
    BY <1>1, <1>2, <2>2, <2>3 DEF Enqueue, File, Undisturbed, TypeOK
  <2>4. ASSUME NEW r \in Requests, Consume(p, r) PROVE Undisturbed(q)
    BY <1>1, <1>2, <2>1, <2>2, <2>4 DEF Consume, Undisturbed, TypeOK
  <2>5. ASSUME NEW r \in Requests, NEW c \in Replies, Complete(p, r, c) PROVE Undisturbed(q)
    BY <1>1, <1>2, <2>1, <2>2, <2>5 DEF Complete, File, Undisturbed, TypeOK
  <2>6. ASSUME NEW d \in Deliveries, Claim(p, d) PROVE Undisturbed(q)
    BY <1>1, <1>2, <2>6 DEF Claim, Undisturbed, TypeOK
  <2>7. ASSUME NEW d \in Deliveries, Release(p, d) PROVE Undisturbed(q)
    BY <1>1, <1>2, <2>7 DEF Release, Unclaim, Undisturbed, TypeOK
  <2>8. ASSUME NEW d \in Deliveries, Acknowledge(p, d) PROVE Undisturbed(q)
    BY <1>1, <1>2, <2>1, <2>8 DEF Acknowledge, Undisturbed, TypeOK, files
  <2> QED BY <1>6, <2>3, <2>4, <2>5, <2>6, <2>7, <2>8 DEF QueueOp
<1>7. ASSUME NEW S, S \subseteq Inbox(HostOf[p]), HostOf[p] # i, RemoveTombstones(S)
      PROVE  \A d \in Inbox(i) : acked'[d] = acked[d]
  BY <1>1, <1>7 DEF RemoveTombstones, Inbox
<1>8. CASE Compact(p)
  BY <1>1, <1>2, <1>7, <1>8 DEF Compact, Old, Undisturbed, TypeOK, history
<1>9. CASE AckOp(p)
  <2>1. op[p].step \in {"tombstone", "unlink"} => Home(op[p].on) = HostOf[p]
    BY DEF OpsInv, HandOK
  <2>2. CASE Tombstone(p)
    <3>1. PICK S \in Reclaimed(Home(op[p].on)) : WriteTombstone(op[p].on, S)
      BY <2>2 DEF Tombstone
    <3>2. HostOf[p] # i /\ S \subseteq Inbox(HostOf[p]) /\ Home(op[p].on) # i
      BY <1>3, <2>1, <2>2, <3>1 DEF Tombstone, Reclaimed, Oldest, Old
    <3>3. \A d \in Inbox(i) : acked'[d] = acked[d]
      BY <1>1, <3>1, <3>2 DEF WriteTombstone, Inbox
    <3> QED BY <2>2, <3>3 DEF Tombstone, Undisturbed, history
  <2>3. CASE AckLimitReached(p)
    BY <1>4, <2>3 DEF AckLimitReached, Leave, Undisturbed, files, history
  <2>4. CASE Unlink(p)
    BY <1>1, <1>3, <1>4, <2>1, <2>4 DEF Unlink, Leave, Unclaim, Undisturbed, TypeOK
  <2> QED BY <1>9, <2>2, <2>3, <2>4 DEF AckOp
<1>10. CASE Takeover(p)
  BY <1>1, <1>2, <1>10 DEF Takeover, Locked, Undisturbed, files, history
<1>11. CASE Recover(p)
  <2>1. ASSUME NEW d, Answered(p, d), HostOf[p] # i PROVE \A e \in Inbox(i) : acked'[e] = acked[e]
    BY <1>7, <2>1 DEF Answered, Oldest, Old
  <2>2. ASSUME NEW d \in Deliveries, Scan(p, d) PROVE Undisturbed(q)
    BY <1>3, <2>1, <2>2 DEF Scan, Judge, Undisturbed, history
  <2>3. ASSUME NEW d \in Deliveries, Apply(p, d) PROVE Undisturbed(q)
    <3>1. Home(d) = HostOf[p] /\ HostOf[p] # i
      BY <1>3, <2>3 DEF Apply, OpsInv, PlanOK
    <3> QED BY <1>1, <2>3, <3>1 DEF Apply, Unclaim, Undisturbed, TypeOK
  <2>4. CASE ProbePending(p) \/ ProbeProcessing(p)
    BY <1>3, <2>1, <2>4 DEF ProbePending, ProbeProcessing, Judge, Undisturbed, history
  <2>5. CASE RecoveryRefused(p) \/ StartApply(p)
    BY <1>4, <2>5 DEF RecoveryRefused, StartApply, Leave, Undisturbed, files, history
  <2>6. CASE Sweep(p)
    <3>1. Home(op[p].on) = HostOf[p] /\ HostOf[p] # i
      BY <1>3, <2>6 DEF Sweep, OpsInv, HandOK
    <3> QED BY <1>1, <2>6, <3>1 DEF Sweep, Unclaim, Undisturbed, TypeOK
  <2>7. CASE Publish(p)
    BY <1>1, <1>3, <1>4, <2>7 DEF Publish, Leave, Undisturbed, TypeOK, files, history
  <2> QED BY <1>11, <2>2, <2>3, <2>4, <2>5, <2>6, <2>7 DEF Recover
<1> QED BY <1>5, <1>6, <1>8, <1>9, <1>10, <1>11 DEF Step

----------------------------------------------------------------------------
(* Every step changes the inbox files in one of seven ways.                *)

Kept == UNCHANGED <<pending, processing, acked, claimer, answered, accepted>>

Delivered(d, c) ==
    /\ Filed(d) = c \/ (Filed(d) = Absent /\ QueueLen(Home(d)) < MaxInbox)
    /\ InWindow(d.req)
    /\ File(d, c)
    /\ answered' = IF d.kind = "response" THEN [answered EXCEPT ![d.req] = @ \cup {c}]
                                          ELSE answered
    /\ UNCHANGED <<processing, acked, claimer>>

Taken(d, p) ==
    /\ Present(pending, d) /\ lease[Home(d)].owner = p
    /\ processing' = [processing EXCEPT ![d] = pending[d]]
    /\ pending' = [pending EXCEPT ![d] = Absent]
    /\ claimer' = [claimer EXCEPT ![d] = p]
    /\ UNCHANGED <<acked, answered, accepted>>

Returned(d) ==
    /\ Present(processing, d)
    /\ pending' = [pending EXCEPT ![d] = processing[d]]
    /\ Unclaim(d)
    /\ UNCHANGED <<acked, answered, accepted>>

Forgotten(S) ==
    /\ S \subseteq aged
    /\ RemoveTombstones(S)
    /\ UNCHANGED <<pending, processing, claimer, answered, accepted>>

Tombstoned(d, S) ==
    /\ Present(processing, d) /\ S \subseteq aged
    /\ IF d.kind = "request" THEN answered[d.req] # {} \/ d \in dismissed
                             ELSE ~Present(acked, d)
    /\ WriteTombstone(d, S)
    /\ UNCHANGED <<pending, processing, claimer, answered, accepted>>

Cleared(d) ==
    /\ Present(acked, d) \/ d \in aged
    /\ Unclaim(d)
    /\ UNCHANGED <<pending, acked, answered, accepted>>

FileChange ==
    \/ Kept
    \/ \E d \in Deliveries, c \in Contents : Delivered(d, c)
    \/ \E d \in Deliveries, p \in Runtimes : Taken(d, p)
    \/ \E d \in Deliveries : Returned(d)
    \/ \E S \in SUBSET aged : Forgotten(S)
    \/ \E d \in Deliveries, S \in SUBSET aged : Tombstoned(d, S)
    \/ \E d \in Deliveries : Cleared(d)

LEMMA QueueChanges ==
    ASSUME TypeOK, NEW p \in Runtimes, QueueOp(p)
    PROVE  FileChange
<1>1. \A r \in Requests : /\ Req(r) \in Deliveries /\ Req(r).kind = "request" /\ Req(r).req = r
                         /\ Rsp(r) \in Deliveries /\ Rsp(r).kind = "response" /\ Rsp(r).req = r
  BY DEF Req, Rsp, Deliveries, Kinds
<1>2. \A d \in Deliveries, c \in Contents :
         Accepts(d, c) => Filed(d) = c \/ (Filed(d) = Absent /\ QueueLen(Home(d)) < MaxInbox)
  BY DEF Accepts
<1>3. ASSUME NEW r \in Requests, Enqueue(p, r) PROVE FileChange
  <2>1. Delivered(Req(r), Payload)
    BY <1>1, <1>2, <1>3 DEF Enqueue, Delivered, Contents
  <2> QED BY <1>1, <2>1 DEF FileChange, Contents
<1>4. ASSUME NEW r \in Requests, NEW c \in Replies, Complete(p, r, c) PROVE FileChange
  <2>1. Delivered(Rsp(r), c)
    BY <1>1, <1>2, <1>4 DEF Complete, Delivered, Contents
  <2> QED BY <1>1, <2>1 DEF FileChange, Contents
<1>5. ASSUME NEW r \in Requests, Consume(p, r) PROVE FileChange
  <2>1. Taken(Rsp(r), p)
    BY <1>5 DEF Consume, Ready, LiveOwner, Taken
  <2> QED BY <1>1, <2>1 DEF FileChange
<1>6. ASSUME NEW d \in Deliveries, Claim(p, d) PROVE FileChange
  <2>1. Taken(d, p)
    BY <1>6 DEF Claim, Ready, LiveOwner, Taken
  <2> QED BY <2>1 DEF FileChange
<1>7. ASSUME NEW d \in Deliveries, Release(p, d) PROVE FileChange
  <2>1. Returned(d)
    BY <1>7 DEF Release, Returned
  <2> QED BY <2>1 DEF FileChange
<1>8. ASSUME NEW d \in Deliveries, Acknowledge(p, d) PROVE FileChange
  BY <1>8 DEF Acknowledge, FileChange, Kept, files
<1> QED BY <1>3, <1>4, <1>5, <1>6, <1>7, <1>8 DEF QueueOp

LEMMA OldAged == \A i : Old(i) \subseteq aged
BY DEF Old

LEMMA AckChanges ==
    ASSUME TypeOK, OpsInv, NEW p \in Runtimes, Compact(p) \/ AckOp(p)
    PROVE  FileChange
<1>1. CASE Compact(p)
  <2>1. PICK S \in SUBSET Old(HostOf[p]) : RemoveTombstones(S)
    BY <1>1 DEF Compact
  <2>2. S \subseteq aged
    BY <2>1, OldAged
  <2>3. Forgotten(S)
    BY <1>1, <2>1, <2>2 DEF Compact, Forgotten, history
  <2> QED BY <2>2, <2>3 DEF FileChange
<1>2. CASE Tombstone(p)
  <2> DEFINE d == op[p].on
  <2>1. PICK S \in Reclaimed(Home(d)) : WriteTombstone(d, S)
    BY <1>2 DEF Tombstone
  <2>2. S \subseteq aged
    BY <2>1, OldAged DEF Reclaimed, Oldest
  <2>3. d \in Deliveries /\ Tombstoned(d, S)
    BY <1>2, <2>1, <2>2 DEF Tombstone, Tombstoned, OpsInv, HandOK, history
  <2> QED BY <2>2, <2>3 DEF FileChange
<1>3. CASE AckLimitReached(p)
  BY <1>3 DEF AckLimitReached, FileChange, Kept, files, history
<1>4. CASE Unlink(p)
  <2>1. op[p].on \in Deliveries /\ Cleared(op[p].on)
    BY <1>4 DEF Unlink, Cleared, OpsInv, HandOK
  <2> QED BY <2>1 DEF FileChange
<1> QED BY <1>1, <1>2, <1>3, <1>4 DEF AckOp

LEMMA RecoverChanges ==
    ASSUME TypeOK, OpsInv, NEW p \in Runtimes, Takeover(p) \/ Recover(p)
    PROVE  FileChange
<1>1. CASE Takeover(p) \/ RecoveryRefused(p) \/ StartApply(p) \/ Publish(p)
  BY <1>1 DEF Takeover, RecoveryRefused, StartApply, Publish, FileChange, Kept, files, history
<1>2. ASSUME NEW d, Answered(p, d), UNCHANGED <<pending, processing, history>> PROVE FileChange
  <2>1. CASE UNCHANGED acked
    BY <1>2, <2>1 DEF FileChange, Kept, history
  <2>2. CASE \E S \in Oldest(HostOf[p]) : RemoveTombstones(S)
    <3>1. PICK S \in Oldest(HostOf[p]) : RemoveTombstones(S)
      BY <2>2
    <3>2. S \subseteq aged
      BY <3>1, OldAged DEF Oldest
    <3>3. Forgotten(S)
      BY <1>2, <3>1, <3>2 DEF Forgotten, history
    <3> QED BY <3>2, <3>3 DEF FileChange
  <2> QED BY <1>2, <2>1, <2>2 DEF Answered
<1>3. ASSUME NEW d \in Deliveries, Scan(p, d) PROVE FileChange
  BY <1>2, <1>3 DEF Scan, Judge, FileChange, Kept, history
<1>4. CASE ProbePending(p) \/ ProbeProcessing(p)
  BY <1>2, <1>4 DEF ProbePending, ProbeProcessing, Judge, FileChange, Kept, history
<1>5. ASSUME NEW d \in Deliveries, Apply(p, d) PROVE FileChange
  <2>1. CASE op[p].plan[d] = "remove"
    <3>1. Cleared(d)
      BY <1>5, <2>1 DEF Apply, Cleared, OpsInv, PlanOK
    <3> QED BY <3>1 DEF FileChange
  <2>2. CASE op[p].plan[d] = "move"
    <3>1. Returned(d)
      BY <1>5, <2>2 DEF Apply, Returned
    <3> QED BY <3>1 DEF FileChange
  <2>3. CASE op[p].plan[d] = "ack"
    <3>1. WriteTombstone(d, {})
      BY <1>5, <2>3 DEF Apply, WriteTombstone, TypeOK
    <3>2. Tombstoned(d, {})
      BY <1>5, <2>3, <3>1 DEF Apply, Tombstoned, OpsInv, PlanOK
    <3> QED BY <3>2 DEF FileChange
  <2> QED BY <1>5, <2>1, <2>2, <2>3 DEF Apply
<1>6. CASE Sweep(p)
  <2>1. op[p].on \in Deliveries /\ Cleared(op[p].on)
    BY <1>6 DEF Sweep, Cleared, OpsInv, HandOK
  <2> QED BY <2>1 DEF FileChange
<1> QED BY <1>1, <1>3, <1>4, <1>5, <1>6 DEF Recover

LEMMA NextChanges ==
    ASSUME TypeOK, OpsInv, Next
    PROVE  FileChange /\ aged \subseteq aged' /\ dismissed \subseteq dismissed'
<1>1. ASSUME NEW i \in Instances, Expire(i)
      PROVE  FileChange /\ UNCHANGED <<aged, dismissed>>
  BY <1>1 DEF Expire, FileChange, Kept, files, history
<1>2. ASSUME NEW d \in Deliveries, Age(d)
      PROVE  FileChange /\ aged \subseteq aged' /\ UNCHANGED dismissed
  BY <1>2 DEF Age, FileChange, Kept, files, history
<1>3. ASSUME NEW p \in Runtimes, Step(p) PROVE FileChange
  <2>1. CASE LeaseOp(p)
    BY <2>1 DEF LeaseOp, Register, Heartbeat, Unregister, Crash, FileChange, Kept, files, history
  <2> QED BY <1>3, <2>1, QueueChanges, AckChanges, RecoverChanges DEF Step
<1>4. ASSUME NEW p \in Runtimes, Step(p) PROVE UNCHANGED aged /\ dismissed \subseteq dismissed'
  <2>1. CASE LeaseOp(p)
    BY <2>1 DEF LeaseOp, Register, Heartbeat, Unregister, Crash, history
  <2>2. CASE QueueOp(p)
    BY <2>2 DEF QueueOp, Enqueue, Consume, Complete, Claim, Release, Acknowledge
  <2>3. CASE Compact(p) \/ AckOp(p)
    BY <2>3 DEF Compact, AckOp, Tombstone, AckLimitReached, Unlink, history
  <2>4. CASE Takeover(p) \/ Recover(p)
    BY <2>4 DEF Takeover, Recover, Scan, ProbePending, ProbeProcessing, RecoveryRefused,
                StartApply, Apply, Sweep, Publish, history
  <2> QED BY <1>4, <2>1, <2>2, <2>3, <2>4 DEF Step
<1> QED BY <1>1, <1>2, <1>3, <1>4 DEF Next

----------------------------------------------------------------------------
(* The file invariants hold through each of the seven changes.             *)

\* Copies: filing looks everywhere first, every other change moves a file.
LEMMA QueuedStep ==
    ASSUME TypeOK, QueuedOnce, FileChange
    PROVE  QueuedOnce'
<1>1. CASE Kept
  BY <1>1 DEF Kept, QueuedOnce, Present
<1>2. ASSUME NEW d \in Deliveries, NEW c \in Contents, Delivered(d, c) PROVE QueuedOnce'
  BY <1>2 DEF Delivered, File, Filed, QueuedOnce, Present, TypeOK
<1>3. ASSUME NEW d \in Deliveries, NEW p \in Runtimes, Taken(d, p) PROVE QueuedOnce'
  BY <1>3 DEF Taken, QueuedOnce, Present, TypeOK
<1>4. ASSUME NEW d \in Deliveries, Returned(d) PROVE QueuedOnce'
  BY <1>4 DEF Returned, Unclaim, QueuedOnce, Present, TypeOK
<1>5. ASSUME NEW S \in SUBSET aged, Forgotten(S) PROVE QueuedOnce'
  BY <1>5 DEF Forgotten, QueuedOnce, Present
<1>6. ASSUME NEW d \in Deliveries, NEW S \in SUBSET aged, Tombstoned(d, S) PROVE QueuedOnce'
  BY <1>6 DEF Tombstoned, QueuedOnce, Present
<1>7. ASSUME NEW d \in Deliveries, Cleared(d) PROVE QueuedOnce'
  BY <1>7 DEF Cleared, Unclaim, QueuedOnce, Present, TypeOK
<1> QED BY <1>1, <1>2, <1>3, <1>4, <1>5, <1>6, <1>7, FileChange DEF FileChange

\* Loss: a file is removed when its tombstone is there, a tombstone when aged.
LEMMA LostStep ==
    ASSUME TypeOK, NothingLost, FileChange, aged \subseteq aged'
    PROVE  NothingLost'
<1> USE MarkersAssumption
<1>1. CASE Kept
  BY <1>1 DEF Kept, NothingLost, Present
<1>2. ASSUME NEW d \in Deliveries, NEW c \in Contents, Delivered(d, c) PROVE NothingLost'
  <2>1. c # Absent
    BY DEF Contents
  <2> QED BY <1>2, <2>1 DEF Delivered, File, Filed, NothingLost, Present, TypeOK
<1>3. ASSUME NEW d \in Deliveries, NEW p \in Runtimes, Taken(d, p) PROVE NothingLost'
  BY <1>3 DEF Taken, NothingLost, Present, TypeOK
<1>4. ASSUME NEW d \in Deliveries, Returned(d) PROVE NothingLost'
  BY <1>4 DEF Returned, Unclaim, NothingLost, Present, TypeOK
<1>5. ASSUME NEW S \in SUBSET aged, Forgotten(S) PROVE NothingLost'
  BY <1>5 DEF Forgotten, RemoveTombstones, NothingLost, Present, TypeOK
<1>6. ASSUME NEW d \in Deliveries, NEW S \in SUBSET aged, Tombstoned(d, S) PROVE NothingLost'
  BY <1>6 DEF Tombstoned, WriteTombstone, NothingLost, Present, TypeOK
<1>7. ASSUME NEW d \in Deliveries, Cleared(d) PROVE NothingLost'
  BY <1>7 DEF Cleared, Unclaim, NothingLost, Present, TypeOK
<1> QED BY <1>1, <1>2, <1>3, <1>4, <1>5, <1>6, <1>7, FileChange DEF FileChange

\* Order: only Tombstoned writes a tombstone, for an answered or waived request.
LEMMA OrderStep ==
    ASSUME TypeOK, ResponseBeforeTombstone, FileChange, dismissed \subseteq dismissed'
    PROVE  ResponseBeforeTombstone'
<1>1. \A r \in Requests : Req(r) \in Deliveries /\ Req(r).kind = "request" /\ Req(r).req = r
  BY DEF Req, Deliveries, Kinds
<1>2. \A r \in Requests : answered[r] \subseteq answered'[r]
  BY DEF FileChange, Kept, Delivered, Taken, Returned, Forgotten, Tombstoned, Cleared, TypeOK
<1>3. ASSUME NEW r \in Requests, acked'[Req(r)] # Absent, acked[Req(r)] = Absent
      PROVE  answered[r] # {} \/ Req(r) \in dismissed
  <2>1. PICK d \in Deliveries, S \in SUBSET aged : Tombstoned(d, S)
    BY <1>1, <1>3 DEF FileChange, Kept, Delivered, Taken, Returned, Forgotten, RemoveTombstones, Cleared
  <2>2. d = Req(r)
    BY <1>1, <1>3, <2>1 DEF Tombstoned, WriteTombstone
  <2> QED BY <1>1, <2>1, <2>2 DEF Tombstoned
<1> QED BY <1>2, <1>3 DEF ResponseBeforeTombstone, Present

\* Replies: a response is filed when there is none, or the same again.
LEMMA RepliesStep ==
    ASSUME TypeOK, QueuedOnce, RepliesInv, OneAnswer, FileChange, aged \subseteq aged'
    PROVE  RepliesInv' /\ OneAnswer'
<1> USE MarkersAssumption
<1> DEFINE Goal(r) ==
      /\ InWindow(r) /\ answered[r] # {} =>
            Filed(Rsp(r)) # Absent /\ answered[r] = {Filed(Rsp(r))}
      /\ Filed(Rsp(r)) # Absent => answered[r] # {}
      /\ \A b, c \in answered[r] : b = c
<1> SUFFICES ASSUME NEW r \in Requests PROVE Goal(r)'
  BY DEF RepliesInv, OneAnswer
<1>1. Rsp(r) \in Deliveries /\ Rsp(r).kind = "response" /\ Rsp(r).req = r
  BY DEF Rsp, Deliveries, Kinds
<1>2. Goal(r) /\ (InWindow(r)' => InWindow(r))
  BY DEF RepliesInv, OneAnswer, InWindow
<1>3. CASE UNCHANGED answered /\ Filed(Rsp(r))' = Filed(Rsp(r))
  BY <1>2, <1>3
<1>4. CASE Kept
  BY <1>3, <1>4 DEF Kept, Filed, Present
<1>5. ASSUME NEW d \in Deliveries, NEW c \in Contents, Delivered(d, c) PROVE Goal(r)'
  <2>1. c # Absent
    BY DEF Contents
  <2>2. CASE d # Rsp(r)
    <3>1. Filed(Rsp(r))' = Filed(Rsp(r))
      BY <1>1, <1>5, <2>2 DEF Delivered, File, Filed, Present, TypeOK
    <3>2. d.kind = "response" => d.req # r
      BY <2>2 DEF Deliveries, Rsp
    <3>3. answered'[r] = answered[r]
      BY <1>5, <3>2 DEF Delivered, Deliveries, TypeOK
    <3> QED BY <1>2, <3>1, <3>3
  <2>3. CASE d = Rsp(r)
    <3>1. Filed(d)' = c
      BY <1>5, <2>1, <2>3 DEF Delivered, File, Filed, Present, TypeOK
    <3>2. answered'[r] = answered[r] \cup {c}
      BY <1>1, <1>5, <2>3 DEF Delivered, TypeOK
    <3>3. answered[r] = {} \/ answered[r] = {c}
      BY <1>1, <1>2, <1>5, <2>1, <2>3 DEF Delivered
    <3> QED BY <2>1, <2>3, <3>1, <3>2, <3>3
  <2> QED BY <2>2, <2>3
<1>6. ASSUME NEW d \in Deliveries, NEW p \in Runtimes, Taken(d, p) PROVE Goal(r)'
  <2>1. Filed(Rsp(r))' = Filed(Rsp(r))
    BY <1>1, <1>6 DEF Taken, Filed, QueuedOnce, Present, TypeOK
  <2> QED BY <1>3, <1>6, <2>1 DEF Taken
<1>7. ASSUME NEW d \in Deliveries, Returned(d) PROVE Goal(r)'
  <2>1. Filed(Rsp(r))' = Filed(Rsp(r))
    BY <1>1, <1>7 DEF Returned, Unclaim, Filed, QueuedOnce, Present, TypeOK
  <2> QED BY <1>3, <1>7, <2>1 DEF Returned
<1>8. ASSUME UNCHANGED <<pending, processing, answered>>, Rsp(r) \in aged, acked'[Rsp(r)] = Absent
      PROVE  Goal(r)'
  <2>1. ~InWindow(r)'
    BY <1>8 DEF InWindow
  <2>2. Filed(Rsp(r))' # Absent => Filed(Rsp(r)) # Absent
    BY <1>8 DEF Filed, Present
  <2> QED BY <1>2, <1>8, <2>1, <2>2
<1>9. ASSUME NEW S \in SUBSET aged, Forgotten(S) PROVE Goal(r)'
  <2>1. CASE Rsp(r) \in S
    BY <1>1, <1>8, <1>9, <2>1 DEF Forgotten, RemoveTombstones
  <2>2. CASE Rsp(r) \notin S
    <3>1. Filed(Rsp(r))' = Filed(Rsp(r))
      BY <1>1, <1>9, <2>2 DEF Forgotten, RemoveTombstones, Filed, Present
    <3> QED BY <1>3, <1>9, <3>1 DEF Forgotten
  <2> QED BY <2>1, <2>2
<1>10. ASSUME NEW d \in Deliveries, NEW S \in SUBSET aged, Tombstoned(d, S) PROVE Goal(r)'
  <2>1. CASE d = Rsp(r)
    <3>1. Filed(Rsp(r))' = Filed(Rsp(r))
      BY <1>1, <1>10, <2>1 DEF Tombstoned, WriteTombstone, Filed, QueuedOnce, Present
    <3> QED BY <1>3, <1>10, <3>1 DEF Tombstoned
  <2>2. CASE d # Rsp(r) /\ Rsp(r) \in S
    BY <1>1, <1>8, <1>10, <2>2 DEF Tombstoned, WriteTombstone
  <2>3. CASE d # Rsp(r) /\ Rsp(r) \notin S
    <3>1. Filed(Rsp(r))' = Filed(Rsp(r))
      BY <1>1, <1>10, <2>3 DEF Tombstoned, WriteTombstone, Filed, Present
    <3> QED BY <1>3, <1>10, <3>1 DEF Tombstoned
  <2> QED BY <2>1, <2>2, <2>3
<1>11. ASSUME NEW d \in Deliveries, Cleared(d) PROVE Goal(r)'
  <2>1. CASE d # Rsp(r) \/ Present(acked, d)
    <3>1. Filed(Rsp(r))' = Filed(Rsp(r))
      BY <1>1, <1>11, <2>1 DEF Cleared, Unclaim, Filed, Present, TypeOK
    <3> QED BY <1>3, <1>11, <3>1 DEF Cleared
  <2>2. CASE d = Rsp(r) /\ d \in aged
    <3>1. ~InWindow(r)'
      BY <2>2 DEF InWindow
    <3>2. Filed(Rsp(r))' # Absent => Filed(Rsp(r)) # Absent
      BY <1>1, <1>11 DEF Cleared, Unclaim, Filed, Present, TypeOK
    <3> QED BY <1>2, <1>11, <3>1, <3>2 DEF Cleared
  <2> QED BY <1>11, <2>1, <2>2 DEF Cleared
<1> QED BY <1>4, <1>5, <1>6, <1>7, <1>9, <1>10, <1>11 DEF FileChange

----------------------------------------------------------------------------
(* Claims and the leases they were made under                              *)

\* What moves a lease moves no file, and the other way round.
LEMMA LeaseOrFiles ==
    ASSUME NEW p \in Runtimes, Step(p)
    PROVE  \/ LeaseOp(p) /\ UNCHANGED <<processing, claimer>>
           \/ Publish(p) /\ UNCHANGED <<processing, claimer>>
           \/ UNCHANGED <<status, lease>>
<1>1. CASE LeaseOp(p)
  BY <1>1 DEF LeaseOp, Register, Heartbeat, Unregister, Crash, files, history
<1>2. CASE QueueOp(p)
  BY <1>2 DEF QueueOp, Enqueue, Consume, Complete, Claim, Release, Acknowledge
<1>3. CASE Compact(p) \/ AckOp(p)
  BY <1>3 DEF Compact, AckOp, Tombstone, AckLimitReached, Unlink
<1>4. CASE Publish(p)
  BY <1>4 DEF Publish, files, history
<1>5. CASE Takeover(p) \/ (Recover(p) /\ ~Publish(p))
  BY <1>5 DEF Takeover, Recover, Scan, ProbePending, ProbeProcessing, RecoveryRefused,
              StartApply, Apply, Sweep
<1> QED BY <1>1, <1>2, <1>3, <1>4, <1>5 DEF Step

LEMMA ClaimsKept ==
    ASSUME TypeOK, OwnersInv, ClaimsOwned, FileChange, UNCHANGED <<status, lease>>
    PROVE  OwnersInv' /\ ClaimsOwned'
<1> USE MarkersAssumption DEF OwnersInv, ClaimsOwned, Present
<1>1. CASE UNCHANGED <<processing, claimer>>
  BY <1>1
<1>2. ASSUME NEW d \in Deliveries, NEW p \in Runtimes, Taken(d, p)
      PROVE  OwnersInv' /\ ClaimsOwned'
  BY <1>2 DEF Taken, TypeOK
<1>3. ASSUME NEW d \in Deliveries, Unclaim(d) PROVE OwnersInv' /\ ClaimsOwned'
  BY <1>3 DEF Unclaim, TypeOK
<1> QED BY <1>1, <1>2, <1>3
        DEF FileChange, Kept, Delivered, Returned, Forgotten, Tombstoned, Cleared

LEMMA LeaseKeepsClaims ==
    ASSUME TypeOK, OpsInv, OwnersInv, ClaimsOwned, NEW p \in Runtimes,
           LeaseOp(p) \/ Publish(p), UNCHANGED <<processing, claimer>>
    PROVE  OwnersInv' /\ ClaimsOwned'
<1> USE MarkersAssumption, RoutesAssumption DEF OwnersInv, ClaimsOwned, Present
<1> DEFINE i == HostOf[p]
<1>1. CASE Register(p)
  BY <1>1, HomeType DEF Register, TypeOK
<1>2. CASE Heartbeat(p)
  BY <1>2, HomeType DEF Heartbeat, TypeOK
<1>3. CASE Unregister(p)
  <2>1. OwnersInv'
    BY <1>3 DEF Unregister, NoLease, TypeOK
  <2>2. ASSUME NEW d \in Deliveries, Present(processing, d)
        PROVE  \/ lease'[Home(d)].owner = claimer[d]
               \/ claimer[d] \in Runtimes /\ status'[claimer[d]] = "down"
    <3>1. claimer[d] \in Runtimes /\ Home(d) \in Instances
      BY <2>2, HomeType
    <3>2. status' = [status EXCEPT ![p] = "down"] /\ status[p] = "up"
      BY <1>3 DEF Unregister
    <3>3. CASE status[claimer[d]] = "down"
      BY <3>1, <3>2, <3>3 DEF TypeOK
    <3>4. CASE lease[Home(d)].owner = claimer[d] /\ claimer[d] = p
      BY <3>1, <3>2, <3>4 DEF TypeOK
    <3>5. CASE lease[Home(d)].owner = claimer[d] /\ claimer[d] # p
      <4>1. lease'[Home(d)] = lease[Home(d)]
        BY <1>3, <3>1, <3>5 DEF Unregister, TypeOK
      <4> QED BY <3>5, <4>1
    <3> QED BY <2>2, <3>3, <3>4, <3>5
  <2> QED BY <1>3, <2>1, <2>2 DEF Unregister, history
<1>4. CASE Crash(p)
  <2>1. status[p] \in {"new", "up"}
    BY <1>4 DEF Crash, OpsInv, OpOK, TypeOK, OpType, Steps, AckSteps, RecoverySteps
  <2> QED BY <1>4, <2>1, HomeType DEF Crash, TypeOK
<1>5. CASE Publish(p)
  <2>1. \A d \in Deliveries : Present(processing, d) => Home(d) # i
    BY <1>5 DEF Publish, Inbox
  <2>2. status[p] = "new" /\ status' = [status EXCEPT ![p] = "up"]
    BY <1>5 DEF Publish, OpsInv, OpOK, RecoverySteps
  <2>3. OwnersInv'
    BY <1>5, <2>2 DEF Publish, TypeOK
  <2>4. ClaimsOwned'
    BY <1>5, <2>1, <2>2, HomeType DEF Publish, TypeOK
  <2> QED BY <2>3, <2>4
<1> QED BY <1>1, <1>2, <1>3, <1>4, <1>5 DEF LeaseOp

LEMMA ClaimsStep ==
    ASSUME TypeOK, OpsInv, OwnersInv, ClaimsOwned, Next
    PROVE  OwnersInv' /\ ClaimsOwned'
<1>1. ASSUME NEW i \in Instances, Expire(i) PROVE OwnersInv' /\ ClaimsOwned'
  BY <1>1, HomeType DEF Expire, OwnersInv, ClaimsOwned, Present, TypeOK, files, history
<1>2. ASSUME NEW d \in Deliveries, Age(d) PROVE OwnersInv' /\ ClaimsOwned'
  BY <1>2 DEF Age, OwnersInv, ClaimsOwned, Present, files, history
<1>3. ASSUME NEW p \in Runtimes, Step(p) PROVE OwnersInv' /\ ClaimsOwned'
  BY <1>3, LeaseOrFiles, NextChanges, ClaimsKept, LeaseKeepsClaims
<1> QED BY <1>1, <1>2, <1>3 DEF Next

----------------------------------------------------------------------------
(* Operations in progress                                                  *)

SafeOp(p) == OpOK(p) /\ HandOK(p) /\ PlanOK(p)

LEMMA IdleSafe ==
    ASSUME TypeOK', NEW p \in Runtimes, op'[p] = Idle
    PROVE  SafeOp(p)'
BY DEF SafeOp, OpOK, HandOK, PlanOK, Idle, NoPlan, AckSteps, RecoverySteps

\* A tombstone once written stays until it is beyond the horizon, and what
\* was answered or waived stays so.
LEMMA SettledStaysSettled ==
    ASSUME TypeOK, OpsInv, Next
    PROVE  /\ \A d \in Deliveries :
                 Present(acked, d) \/ d \in aged => Present(acked, d)' \/ d \in aged'
           /\ \A r \in Requests : answered[r] # {} => answered'[r] # {}
           /\ dismissed \subseteq dismissed'
<1>1. FileChange /\ aged \subseteq aged' /\ dismissed \subseteq dismissed'
  BY NextChanges
<1>2. \A r \in Requests : answered[r] \subseteq answered'[r]
  BY <1>1 DEF FileChange, Kept, Delivered, Taken, Returned, Forgotten, Tombstoned, Cleared, TypeOK
<1>3. \A d \in Deliveries : Present(acked, d) => Present(acked, d)' \/ d \in aged
  <2>1. CASE UNCHANGED acked
    BY <2>1 DEF Present
  <2>2. ASSUME NEW S \in SUBSET aged, RemoveTombstones(S)
        PROVE  \A d \in Deliveries : Present(acked, d) => Present(acked, d)' \/ d \in aged
    BY <2>2 DEF RemoveTombstones, Present
  <2>3. ASSUME NEW e, NEW S \in SUBSET aged, Present(processing, e), WriteTombstone(e, S)
        PROVE  \A d \in Deliveries : Present(acked, d) => Present(acked, d)' \/ d \in aged
    BY <2>3 DEF WriteTombstone, Present
  <2> QED BY <1>1, <2>1, <2>2, <2>3
          DEF FileChange, Kept, Delivered, Taken, Returned, Forgotten, Tombstoned, Cleared
<1> QED BY <1>1, <1>2, <1>3

LEMMA UndisturbedSafe ==
    ASSUME TypeOK, TypeOK', OpsInv, Next, NEW q \in Runtimes, op'[q] = op[q], Undisturbed(q)
    PROVE  SafeOp(q)'
<1>1. OpOK(q) /\ HandOK(q) /\ PlanOK(q)
  BY DEF OpsInv
<1>2. OpOK(q)'
  BY <1>1 DEF OpOK, Undisturbed
<1>3. op[q].on \in Deliveries /\ Home(op[q].on) = HostOf[q] => op[q].on \in Inbox(HostOf[q])
  BY DEF Inbox
<1>4. HandOK(q)'
  <2>1. op[q].on \in Deliveries => op[q].on.req \in Requests
    BY DEF Deliveries
  <2> QED BY <1>1, <1>3, <2>1, SettledStaysSettled DEF HandOK, Undisturbed, Present
<1>5. PlanOK(q)'
  BY <1>1, SettledStaysSettled DEF PlanOK, Deliveries
<1> QED BY <1>2, <1>4, <1>5 DEF SafeOp

\* An acknowledgement starts inside the lease, with the delivery in hand.
LEMMA EnterSafe ==
    ASSUME TypeOK, TypeOK', NEW p \in Runtimes, NEW I, HostOf[p] \in I,
           NEW d \in Deliveries, Home(d) = HostOf[p],
           Ready(p), Enter(p, I, AckStep(d), d), UNCHANGED <<status, lease, acked>>,
           Present(acked, d) \/ Present(processing, d)',
           d.kind = "request" => answered'[d.req] # {} \/ d \in dismissed'
    PROVE  SafeOp(p)'
<1>1. op'[p] = [step |-> AckStep(d), on |-> d, plan |-> NoPlan, count |-> 0]
  BY DEF Enter, Idle, TypeOK
<1>2. lock'[HostOf[p]] = p
  BY RoutesAssumption DEF Enter, Locked
<1>3. AckStep(d) \in AckSteps /\ (AckStep(d) = "tombstone" <=> ~Present(acked, d))
  BY DEF AckStep, AckSteps
<1>4. OpOK(p)'
  BY <1>1, <1>2, <1>3 DEF OpOK, Ready, LiveOwner, AckSteps, RecoverySteps
<1>5. HandOK(p)'
  BY <1>1, <1>3 DEF HandOK, AckSteps, Present
<1>6. PlanOK(p)'
  BY <1>1 DEF PlanOK, NoPlan
<1> QED BY <1>4, <1>5, <1>6 DEF SafeOp

LEMMA OwnQueueSafe ==
    ASSUME TypeOK, TypeOK', NEW p \in Runtimes, QueueOp(p)
    PROVE  SafeOp(p)'
<1>1. \A r \in Requests :
         /\ Req(r) \in Deliveries /\ Req(r).kind = "request" /\ Req(r).req = r /\ Home(Req(r)) = To[r]
         /\ Rsp(r) \in Deliveries /\ Rsp(r).kind = "response" /\ Home(Rsp(r)) = From[r]
  BY DEF Req, Rsp, Deliveries, Kinds, Home
<1>2. ASSUME NEW r \in Requests, Enqueue(p, r) PROVE SafeOp(p)'
  BY <1>2, IdleSafe DEF Enqueue, Ready
<1>3. ASSUME NEW d \in Deliveries, Claim(p, d) \/ Release(p, d) PROVE SafeOp(p)'
  BY <1>3, IdleSafe DEF Claim, Release, Ready
<1>4. ASSUME NEW r \in Requests, NEW c \in Replies, Complete(p, r, c) PROVE SafeOp(p)'
  <2>1. answered'[r] # {}
    BY <1>4 DEF Complete, TypeOK
  <2>2. Present(acked, Req(r)) \/ Present(processing, Req(r))'
    BY <1>4 DEF Complete, Present
  <2>3. HostOf[p] \in {To[r], From[r]} /\ HostOf[p] = Home(Req(r))
    BY <1>1, <1>4 DEF Complete
  <2>4. /\ Ready(p) /\ Enter(p, {To[r], From[r]}, AckStep(Req(r)), Req(r))
        /\ UNCHANGED <<status, lease, acked>>
    BY <1>4 DEF Complete
  <2> QED BY <1>1, <2>1, <2>2, <2>3, <2>4, EnterSafe
<1>5. ASSUME NEW r \in Requests, Consume(p, r) PROVE SafeOp(p)'
  <2>1. Present(processing, Rsp(r))'
    BY <1>1, <1>5 DEF Consume, Present, TypeOK
  <2>2. /\ Ready(p) /\ Enter(p, {Home(Rsp(r))}, AckStep(Rsp(r)), Rsp(r))
        /\ UNCHANGED <<status, lease, acked>> /\ HostOf[p] = Home(Rsp(r))
    BY <1>5 DEF Consume
  <2> QED BY <1>1, <2>1, <2>2, EnterSafe
<1>6. ASSUME NEW d \in Deliveries, Acknowledge(p, d) PROVE SafeOp(p)'
  <2>1. Present(processing, d)'
    BY <1>6 DEF Acknowledge, Present, files
  <2>2. d.kind = "request" => answered'[d.req] # {} \/ d \in dismissed'
    BY <1>6 DEF Acknowledge
  <2>3. /\ Ready(p) /\ Enter(p, {Home(d)}, AckStep(d), d)
        /\ UNCHANGED <<status, lease, acked>> /\ HostOf[p] = Home(d)
    BY <1>6 DEF Acknowledge, files
  <2> QED BY <2>1, <2>2, <2>3, EnterSafe
<1> QED BY <1>2, <1>3, <1>4, <1>5, <1>6 DEF QueueOp

LEMMA OwnLeaseSafe ==
    ASSUME TypeOK, TypeOK', OpsInv, NEW p \in Runtimes, LeaseOp(p) \/ Compact(p)
    PROVE  SafeOp(p)'
<1>1. CASE Register(p) \/ Unregister(p) \/ Compact(p)
  BY <1>1, IdleSafe DEF Register, Unregister, Compact, Ready
<1>2. CASE Heartbeat(p)
  <2>1. op[p].step = "idle"
    BY <1>2, MarkersAssumption DEF Heartbeat, Free, OpsInv, OpOK
  <2> QED BY <1>2, <2>1, IdleSafe DEF Heartbeat, OpsInv, OpOK
<1>3. CASE Crash(p)
  BY <1>3, IdleSafe DEF Crash, Leave, TypeOK
<1> QED BY <1>1, <1>2, <1>3 DEF LeaseOp

LEMMA OwnAckSafe ==
    ASSUME TypeOK, TypeOK', OpsInv, NEW p \in Runtimes, AckOp(p)
    PROVE  SafeOp(p)'
<1>1. CASE AckLimitReached(p) \/ Unlink(p)
  BY <1>1, IdleSafe DEF AckLimitReached, Unlink, Leave, TypeOK
<1>2. CASE Tombstone(p)
  <2> DEFINE d == op[p].on
  <2>1. OpOK(p) /\ HandOK(p) /\ PlanOK(p)
    BY DEF OpsInv
  <2>2. /\ op'[p].step = "unlink" /\ op'[p].on = d /\ op'[p].plan = op[p].plan
        /\ op[p].step = "tombstone"
    BY <1>2 DEF Tombstone, TypeOK, OpType
  <2>3. OpOK(p)'
    BY <1>2, <2>1, <2>2 DEF Tombstone, OpOK, AckSteps, RecoverySteps
  <2>4. d \in Deliveries /\ Home(d) = HostOf[p] /\ Present(processing, d)
    BY <2>1, <2>2 DEF HandOK
  <2>5. Present(acked, d)'
    BY <1>2, <2>4 DEF Tombstone, WriteTombstone, Present
  <2>6. HandOK(p)'
    BY <2>2, <2>4, <2>5 DEF HandOK
  <2>7. Next
    BY <1>2 DEF Next, Step, AckOp
  <2>8. PlanOK(p)'
    BY <2>1, <2>2, <2>7, SettledStaysSettled DEF PlanOK, Deliveries
  <2> QED BY <2>3, <2>6, <2>8 DEF SafeOp
<1> QED BY <1>1, <1>2 DEF AckOp

\* Recovery: every verdict is justified when it is given.
LEMMA OwnRecoverSafe ==
    ASSUME TypeOK, TypeOK', OpsInv, OwnersInv, QueuedOnce, RepliesInv,
           NEW p \in Runtimes, Takeover(p) \/ Recover(p)
    PROVE  SafeOp(p)'
<1>1. OpOK(p) /\ HandOK(p) /\ PlanOK(p)
  BY DEF OpsInv
<1>2. Next
  BY DEF Next, Step
<1>3. CASE Takeover(p)
  <2>1. op'[p] = [step |-> "scan", on |-> NoDelivery, plan |-> NoPlan, count |-> AckCount(HostOf[p])]
    BY <1>3 DEF Takeover, Idle, TypeOK
  <2>2. lease[HostOf[p]].owner # p
    BY <1>3, RoutesAssumption DEF Takeover, OwnersInv
  <2>3. lock'[HostOf[p]] = p
    BY <1>3, RoutesAssumption DEF Takeover, Locked
  <2>4. OpOK(p)'
    BY <1>3, <2>1, <2>2, <2>3 DEF Takeover, OpOK, AckSteps, RecoverySteps
  <2> QED BY <2>1, <2>4 DEF SafeOp, HandOK, PlanOK, NoPlan
\* Inside a recovery lock, lease and status stand still.
<1>4. ASSUME op[p].step \in RecoverySteps, op'[p].step \in RecoverySteps,
             UNCHANGED <<status, lease, lock>>
      PROVE  OpOK(p)'
  BY <1>1, <1>4 DEF OpOK, AckSteps, RecoverySteps
<1>5. ASSUME op'[p].plan = op[p].plan PROVE PlanOK(p)'
  BY <1>1, <1>2, <1>5, SettledStaysSettled DEF PlanOK, Deliveries
<1>6. ASSUME NEW d \in Deliveries, Home(d) = HostOf[p], NEW v \in Verdicts, NEW n,
             Scanning(p, [op[p].plan EXCEPT ![d] = v], n),
             op[p].step \in RecoverySteps, UNCHANGED <<status, lease, lock>>,
             v = "remove" => Present(acked, d),
             v = "ack" => d.kind = "request" /\ answered[d.req] # {}
      PROVE  SafeOp(p)'
  <2>1. op'[p].step = "scan" /\ op'[p].plan = [op[p].plan EXCEPT ![d] = v]
    BY <1>6 DEF Scanning, TypeOK
  <2>2. PlanOK(p)'
    BY <1>1, <1>2, <1>6, <2>1, SettledStaysSettled DEF PlanOK, Deliveries, TypeOK, OpType
  <2>3. OpOK(p)'
    BY <1>4, <1>6, <2>1 DEF RecoverySteps
  <2>4. HandOK(p)'
    BY <2>1 DEF HandOK
  <2> QED BY <2>2, <2>3, <2>4 DEF SafeOp
<1>7. ASSUME NEW d \in Deliveries, Home(d) = HostOf[p], d.kind = "request", Answered(p, d),
             Filed(Rsp(d.req)) # Absent, op[p].step \in RecoverySteps,
             UNCHANGED <<status, lease, lock>>
      PROVE  SafeOp(p)'
  <2>1. answered[d.req] # {}
    BY <1>7 DEF RepliesInv, Deliveries
  <2>2. PICK n : Scanning(p, [op[p].plan EXCEPT ![d] = "ack"], n)
    BY <1>7 DEF Answered
  <2> QED BY <1>6, <1>7, <2>1, <2>2 DEF Verdicts
<1>8. ASSUME NEW d \in Deliveries, Home(d) = HostOf[p], Present(processing, d),
             Judge(p, d, Requeue(d)), op[p].step \in RecoverySteps,
             UNCHANGED <<status, lease, lock>>
      PROVE  SafeOp(p)'
  <2>1. Requeue(d) = "move"
    BY <1>8 DEF Requeue, QueuedOnce
  <2> QED BY <1>6, <1>8, <2>1 DEF Judge, Verdicts
<1>9. ASSUME NEW d \in Deliveries, Scan(p, d) PROVE SafeOp(p)'
  <2>1. /\ Home(d) = HostOf[p] /\ Present(processing, d) /\ op[p].step = "scan"
        /\ UNCHANGED <<status, lease, lock>>
    BY <1>9 DEF Scan, Unread, Inbox
  <2>2. CASE Judge(p, d, "remove") /\ Present(acked, d)
    BY <1>6, <2>1, <2>2 DEF Judge, Verdicts, RecoverySteps
  <2>3. CASE Judge(p, d, Requeue(d))
    BY <1>8, <2>1, <2>3 DEF RecoverySteps
  <2>4. CASE Answered(p, d) /\ d.kind # "response" /\ Present(acked, Rsp(d.req))
    BY <1>7, <2>1, <2>4 DEF RecoverySteps, Filed, Present, Deliveries, Kinds
  <2>5. CASE op' = [op EXCEPT ![p] = [@ EXCEPT !.step = "probePending", !.on = d]] /\ d.kind # "response"
    <3>1. op'[p].step = "probePending" /\ op'[p].on = d /\ op'[p].plan = op[p].plan
      BY <2>5 DEF TypeOK, OpType
    <3>2. HandOK(p)'
      BY <1>9, <2>1, <2>5, <3>1 DEF Scan, HandOK, Present, Deliveries, Kinds
    <3> QED BY <1>4, <1>5, <2>1, <3>1, <3>2 DEF SafeOp, RecoverySteps
  <2> QED BY <1>9, <2>2, <2>3, <2>4, <2>5 DEF Scan
<1>10. CASE ProbePending(p) \/ ProbeProcessing(p)
  <2> DEFINE d == op[p].on
  <2>1. /\ op[p].step \in {"probePending", "probeProcessing"}
        /\ UNCHANGED <<status, lease, lock, processing>>
    BY <1>10 DEF ProbePending, ProbeProcessing
  <2>2. d \in Deliveries /\ Home(d) = HostOf[p] /\ Present(processing, d) /\ d.kind = "request"
    BY <1>1, <2>1 DEF HandOK
  <2>3. CASE Answered(p, d) /\ (Present(pending, Rsp(d.req)) \/ Present(processing, Rsp(d.req)))
    BY <1>7, <2>1, <2>2, <2>3 DEF RecoverySteps, Filed, Present
  <2>4. CASE Judge(p, d, Requeue(d))
    BY <1>8, <2>1, <2>2, <2>4 DEF RecoverySteps
  <2>5. CASE op' = [op EXCEPT ![p].step = "probeProcessing"]
    <3>1. op'[p].step = "probeProcessing" /\ op'[p].on = d /\ op'[p].plan = op[p].plan
      BY <2>5 DEF TypeOK, OpType
    <3>2. HandOK(p)'
      BY <2>1, <2>2, <3>1 DEF HandOK, Present
    <3> QED BY <1>4, <1>5, <2>1, <3>1, <3>2 DEF SafeOp, RecoverySteps
  <2> QED BY <1>10, <2>3, <2>4, <2>5 DEF ProbePending, ProbeProcessing
<1>11. CASE RecoveryRefused(p) \/ Publish(p)
  BY <1>11, IdleSafe DEF RecoveryRefused, Publish, Leave, TypeOK
<1>12. CASE StartApply(p)
  <2>1. op'[p].step = "apply" /\ op'[p].plan = op[p].plan
    BY <1>12 DEF StartApply, TypeOK, OpType
  <2> QED BY <1>4, <1>5, <1>12, <2>1 DEF StartApply, SafeOp, HandOK, RecoverySteps
<1>13. ASSUME NEW d \in Deliveries, Apply(p, d) PROVE SafeOp(p)'
  <2>1. op[p].step = "apply" /\ UNCHANGED <<status, lease, lock>> /\ Present(processing, d)
    BY <1>13 DEF Apply
  <2>2. CASE UNCHANGED op
    BY <1>4, <1>5, <2>1, <2>2 DEF SafeOp, HandOK, RecoverySteps
  <2>3. CASE /\ op[p].plan[d] = "ack"
             /\ acked' = [acked EXCEPT ![d] = processing[d]]
             /\ op' = [op EXCEPT ![p] = [@ EXCEPT !.step = "sweep", !.on = d]]
    <3>1. op'[p].step = "sweep" /\ op'[p].on = d /\ op'[p].plan = op[p].plan
      BY <2>3 DEF TypeOK, OpType
    <3>2. Present(acked, d)' /\ Home(d) = HostOf[p]
      BY <1>1, <2>1, <2>3 DEF PlanOK, Present, TypeOK
    <3>3. HandOK(p)'
      BY <3>1, <3>2 DEF HandOK
    <3> QED BY <1>4, <1>5, <2>1, <3>1, <3>3 DEF SafeOp, RecoverySteps
  <2> QED BY <1>13, <2>2, <2>3 DEF Apply
<1>14. CASE Sweep(p)
  <2>1. op'[p].step = "apply" /\ op'[p].plan = op[p].plan
    BY <1>14 DEF Sweep, TypeOK, OpType
  <2> QED BY <1>4, <1>5, <1>14, <2>1 DEF Sweep, SafeOp, HandOK, RecoverySteps
<1> QED BY <1>3, <1>9, <1>10, <1>11, <1>12, <1>13, <1>14 DEF Recover

LEMMA OpsStep ==
    ASSUME TypeOK, TypeOK', OpsInv, OwnersInv, QueuedOnce, RepliesInv, Next
    PROVE  OpsInv'
<1> SUFFICES ASSUME NEW q \in Runtimes PROVE SafeOp(q)'
  BY DEF OpsInv, SafeOp
<1>1. ASSUME NEW i \in Instances, Expire(i) PROVE SafeOp(q)'
  <2>1. op'[q] = op[q] /\ OpOK(q)'
    BY <1>1, RoutesAssumption DEF Expire, OpsInv, OpOK, TypeOK
  <2>2. HandOK(q)' /\ PlanOK(q)'
    BY <1>1 DEF Expire, OpsInv, HandOK, PlanOK, Present, files, history
  <2> QED BY <2>1, <2>2 DEF SafeOp
<1>2. ASSUME NEW d \in Deliveries, Age(d) PROVE SafeOp(q)'
  <2>1. op'[q] = op[q] /\ Undisturbed(q)
    BY <1>2 DEF Age, Undisturbed, files, history
  <2> QED BY <2>1, UndisturbedSafe
<1>3. ASSUME NEW p \in Runtimes, Step(p) PROVE SafeOp(q)'
  <2>1. CASE p = q
    BY <1>3, <2>1, OwnQueueSafe, OwnLeaseSafe, OwnAckSafe, OwnRecoverSafe DEF Step
  <2>2. CASE p # q /\ op[q].step = "idle"
    <3>1. op'[q] = Idle
      BY <1>3, <2>2, OthersOperation DEF OpsInv, OpOK
    <3> QED BY <3>1, IdleSafe
  <2>3. CASE p # q /\ op[q].step # "idle"
    BY <1>3, <2>3, OthersOperation, Isolation, UndisturbedSafe
  <2> QED BY <2>1, <2>2, <2>3
<1> QED BY <1>1, <1>2, <1>3 DEF Next

----------------------------------------------------------------------------
(* The room in an inbox                                                    *)

Queued(i) == {d \in Inbox(i) : Present(pending, d)}
Claimed(i) == {d \in Inbox(i) : Present(processing, d)}

LEMMA QueuesFinite ==
    ASSUME NEW i
    PROVE  /\ IsFiniteSet(Queued(i)) /\ IsFiniteSet(Claimed(i))
           /\ Cardinality(Queued(i)) \in Nat /\ Cardinality(Claimed(i)) \in Nat
           /\ QueueLen(i) = Cardinality(Queued(i)) + Cardinality(Claimed(i))
<1>1. Queued(i) \in SUBSET Deliveries /\ Claimed(i) \in SUBSET Deliveries
  BY DEF Queued, Claimed, Inbox
<1>2. IsFiniteSet(Queued(i)) /\ IsFiniteSet(Claimed(i))
  BY <1>1, DeliveriesFinite, FS_Subset
<1> QED BY <1>2, FS_CardinalityType DEF QueueLen, Queued, Claimed

LEMMA CardinalityAdd ==
    ASSUME NEW S, NEW x, IsFiniteSet(S)
    PROVE  Cardinality(S \cup {x}) \in Nat /\ Cardinality(S \cup {x}) <= Cardinality(S) + 1
<1>1. Cardinality(S) \in Nat
  BY FS_CardinalityType
<1>2. Cardinality(S \cup {x}) = IF x \in S THEN Cardinality(S) ELSE Cardinality(S) + 1
  BY FS_AddElement
<1> QED BY <1>1, <1>2

\* Filing takes a free place, a claim or a release moves a file between the
\* two directories that share the limit, nothing else adds one.
LEMMA LimitStep ==
    ASSUME TypeOK, QueuedOnce, InboxWithinLimit, FileChange
    PROVE  InboxWithinLimit'
<1> SUFFICES ASSUME NEW i \in Instances PROVE QueueLen(i)' <= MaxInbox
  BY DEF InboxWithinLimit
<1> USE LimitsAssumption, MarkersAssumption
<1>1. /\ IsFiniteSet(Queued(i)) /\ IsFiniteSet(Claimed(i))
      /\ Cardinality(Queued(i)) \in Nat /\ Cardinality(Claimed(i)) \in Nat
      /\ Cardinality(Queued(i)) + Cardinality(Claimed(i)) <= MaxInbox
  BY QueuesFinite DEF InboxWithinLimit
<1>2. QueueLen(i)' = Cardinality(Queued(i)') + Cardinality(Claimed(i)')
  BY DEF QueueLen, Queued, Claimed
<1>3. ASSUME UNCHANGED <<pending, processing>> PROVE QueueLen(i)' <= MaxInbox
  <2>1. Queued(i)' = Queued(i) /\ Claimed(i)' = Claimed(i)
    BY <1>3 DEF Queued, Claimed, Present
  <2> QED BY <1>1, <1>2, <2>1
<1>4. ASSUME NEW d \in Deliveries, NEW c \in Contents, Delivered(d, c)
      PROVE  QueueLen(i)' <= MaxInbox
  <2>1. CASE Filed(d) # Absent
    BY <1>3, <1>4, <2>1 DEF Delivered, File
  <2>2. CASE Filed(d) = Absent
    <3>1. c # Absent /\ QueueLen(Home(d)) < MaxInbox /\ pending' = [pending EXCEPT ![d] = c]
      BY <1>4, <2>2 DEF Delivered, File, Contents
    <3>2. Claimed(i)' = Claimed(i)
      BY <1>4 DEF Delivered, Claimed, Present
    <3>3. CASE Home(d) = i
      <4>1. Queued(i)' = Queued(i) \cup {d}
        BY <3>1, <3>3 DEF Queued, Inbox, Present, TypeOK
      <4>2. /\ Cardinality(Queued(i) \cup {d}) <= Cardinality(Queued(i)) + 1
            /\ Cardinality(Queued(i) \cup {d}) \in Nat
        BY <1>1, CardinalityAdd
      <4>3. Cardinality(Queued(i)) + Cardinality(Claimed(i)) < MaxInbox
        BY <3>1, <3>3, QueuesFinite
      <4> QED BY <1>1, <1>2, <3>2, <4>1, <4>2, <4>3
    <3>4. CASE Home(d) # i
      <4>1. Queued(i)' = Queued(i)
        BY <3>1, <3>4 DEF Queued, Inbox, Present, TypeOK
      <4> QED BY <1>1, <1>2, <3>2, <4>1
    <3> QED BY <3>3, <3>4
  <2> QED BY <2>1, <2>2
<1>5. ASSUME NEW X, NEW Y, NEW d, IsFiniteSet(X), IsFiniteSet(Y), d \in X
      PROVE  /\ Cardinality(X \ {d}) + Cardinality(Y \cup {d}) <= Cardinality(X) + Cardinality(Y)
             /\ Cardinality(X \ {d}) <= Cardinality(X)
             /\ Cardinality(X \ {d}) \in Nat /\ Cardinality(Y \cup {d}) \in Nat
  <2>1. Cardinality(X) \in Nat /\ Cardinality(Y) \in Nat
    BY <1>5, FS_CardinalityType
  <2>2. Cardinality(X \ {d}) = Cardinality(X) - 1 /\ IsFiniteSet(X \ {d})
    BY <1>5, FS_RemoveElement
  <2>3. Cardinality(X \ {d}) \in Nat
    BY <2>2, FS_CardinalityType
  <2>4. Cardinality(Y \cup {d}) \in Nat /\ Cardinality(Y \cup {d}) <= Cardinality(Y) + 1
    BY <1>5, CardinalityAdd
  <2> QED BY <2>1, <2>2, <2>3, <2>4
<1>6. ASSUME NEW d \in Deliveries, NEW p \in Runtimes, Taken(d, p)
      PROVE  QueueLen(i)' <= MaxInbox
  <2>1. CASE Home(d) = i
    <3>1. Queued(i)' = Queued(i) \ {d} /\ Claimed(i)' = Claimed(i) \cup {d} /\ d \in Queued(i)
      BY <1>6, <2>1 DEF Taken, Queued, Claimed, Inbox, Present, TypeOK
    <3>2. /\ Cardinality(Queued(i) \ {d}) + Cardinality(Claimed(i) \cup {d})
                <= Cardinality(Queued(i)) + Cardinality(Claimed(i))
          /\ Cardinality(Queued(i) \ {d}) \in Nat /\ Cardinality(Claimed(i) \cup {d}) \in Nat
      BY <1>1, <1>5, <3>1
    <3> QED BY <1>1, <1>2, <3>1, <3>2
  <2>2. CASE Home(d) # i
    <3>1. Queued(i)' = Queued(i) /\ Claimed(i)' = Claimed(i)
      BY <1>6, <2>2 DEF Taken, Queued, Claimed, Inbox, Present, TypeOK
    <3> QED BY <1>1, <1>2, <3>1
  <2> QED BY <2>1, <2>2
<1>7. ASSUME NEW d \in Deliveries, Returned(d) PROVE QueueLen(i)' <= MaxInbox
  <2>1. CASE Home(d) = i
    <3>1. Queued(i)' = Queued(i) \cup {d} /\ Claimed(i)' = Claimed(i) \ {d} /\ d \in Claimed(i)
      BY <1>7, <2>1 DEF Returned, Unclaim, Queued, Claimed, Inbox, Present, TypeOK
    <3>2. /\ Cardinality(Claimed(i) \ {d}) + Cardinality(Queued(i) \cup {d})
                <= Cardinality(Claimed(i)) + Cardinality(Queued(i))
          /\ Cardinality(Claimed(i) \ {d}) \in Nat /\ Cardinality(Queued(i) \cup {d}) \in Nat
      BY <1>1, <1>5, <3>1
    <3> QED BY <1>1, <1>2, <3>1, <3>2
  <2>2. CASE Home(d) # i
    <3>1. Queued(i)' = Queued(i) /\ Claimed(i)' = Claimed(i)
      BY <1>7, <2>2 DEF Returned, Unclaim, Queued, Claimed, Inbox, Present, TypeOK
    <3> QED BY <1>1, <1>2, <3>1
  <2> QED BY <2>1, <2>2
<1>8. ASSUME NEW d \in Deliveries, Cleared(d) PROVE QueueLen(i)' <= MaxInbox
  <2>1. Queued(i)' = Queued(i)
    BY <1>8 DEF Cleared, Queued, Present
  <2>2. Claimed(i)' = Claimed(i) \/ (d \in Claimed(i) /\ Claimed(i)' = Claimed(i) \ {d})
    BY <1>8 DEF Cleared, Unclaim, Claimed, Inbox, Present, TypeOK
  <2>3. d \in Claimed(i) => /\ Cardinality(Claimed(i) \ {d}) <= Cardinality(Claimed(i))
                            /\ Cardinality(Claimed(i) \ {d}) \in Nat
    BY <1>1, <1>5
  <2>4. CASE Claimed(i)' = Claimed(i)
    BY <1>1, <1>2, <2>1, <2>4
  <2>5. CASE d \in Claimed(i) /\ Claimed(i)' = Claimed(i) \ {d}
    BY <1>1, <1>2, <2>1, <2>3, <2>5
  <2> QED BY <2>2, <2>4, <2>5
<1> QED BY <1>3, <1>4, <1>6, <1>7, <1>8 DEF FileChange, Kept, Forgotten, Tombstoned

----------------------------------------------------------------------------
(* The theorems *)

LEMMA InitIInv == Init => IInv
<1> SUFFICES ASSUME Init PROVE IInv
  OBVIOUS
<1>1. TypeOK
  BY TypeInit
<1>2. OpsInv
  BY DEF Init, OpsInv, OpOK, HandOK, PlanOK, Idle, NoPlan, AckSteps, RecoverySteps
<1>3. OwnersInv /\ QueuedOnce /\ ClaimsOwned /\ NothingLost
  BY MarkersAssumption DEF Init, OwnersInv, QueuedOnce, ClaimsOwned, NothingLost, Present, NoLease
<1>4. RepliesInv /\ OneAnswer /\ ResponseBeforeTombstone
  BY DEF Init, RepliesInv, OneAnswer, ResponseBeforeTombstone, Filed, Present, Req, Rsp, Deliveries, Kinds
<1>5. InboxWithinLimit
  <2>1. \A i \in Instances : Queued(i) = {} /\ Claimed(i) = {}
    BY DEF Init, Queued, Claimed, Inbox, Present
  <2>2. \A i \in Instances : QueueLen(i) = 0
    BY <2>1, FS_EmptySet, QueuesFinite
  <2> QED BY <2>2, LimitsAssumption DEF InboxWithinLimit
<1> QED BY <1>1, <1>2, <1>3, <1>4, <1>5 DEF IInv

LEMMA IInvStep == IInv /\ [Next]_vars => IInv'
<1> SUFFICES ASSUME IInv, [Next]_vars PROVE IInv'
  OBVIOUS
<1>1. CASE Next
  <2>1. TypeOK' /\ TypeOK /\ OpsInv
    BY <1>1, TypeStep DEF IInv
  <2>2. FileChange /\ aged \subseteq aged' /\ dismissed \subseteq dismissed'
    BY <1>1, <2>1, NextChanges
  <2>3. OpsInv'
    BY <1>1, <2>1, OpsStep DEF IInv
  <2>4. OwnersInv' /\ ClaimsOwned'
    BY <1>1, ClaimsStep DEF IInv
  <2> QED BY <2>1, <2>2, <2>3, <2>4, QueuedStep, LostStep, OrderStep, RepliesStep, LimitStep DEF IInv
<1>2. CASE UNCHANGED vars
  <2> USE <1>2 DEF vars, files, history
  <2>1. TypeOK' /\ OpsInv' /\ OwnersInv' /\ ClaimsOwned'
    BY DEF IInv, TypeOK, OpsInv, OpOK, HandOK, PlanOK, OwnersInv, ClaimsOwned, Present
  <2>2. QueuedOnce' /\ NothingLost' /\ ResponseBeforeTombstone'
    BY DEF IInv, QueuedOnce, NothingLost, ResponseBeforeTombstone, Present
  <2>3. RepliesInv' /\ OneAnswer'
    BY DEF IInv, RepliesInv, OneAnswer, InWindow, Filed, Present
  <2>4. InboxWithinLimit'
    BY DEF IInv, InboxWithinLimit, QueueLen, Present
  <2> QED BY <2>1, <2>2, <2>3, <2>4 DEF IInv
<1> QED BY <1>1, <1>2

\* The inductive invariant holds in every reachable state, for any instances,
\* runtimes, requests and limits.
THEOREM Invariance == Spec => []IInv
BY InitIInv, IInvStep, PTL DEF Spec

\* Every variable of the transport keeps its type.
THEOREM TypeCorrect == Spec => []TypeOK
<1>1. IInv => TypeOK
  BY DEF IInv
<1> QED BY <1>1, Invariance, PTL

\* A request is tombstoned only after a response was filed for it, or waived:
\* complete_claimed_request files first and recovery tombstones answered
\* requests only.
THEOREM ResponseFirst == Spec => []ResponseBeforeTombstone
<1>1. IInv => ResponseBeforeTombstone
  BY DEF IInv
<1> QED BY <1>1, Invariance, PTL

\* No request is ever answered with two different responses: deterministic
\* response identifiers and the search for a filed one make retries converge.
THEOREM AnsweredOnce == Spec => []OneAnswer
<1>1. IInv => OneAnswer
  BY DEF IInv
<1> QED BY <1>1, Invariance, PTL

\* No crash between two file operations loses an accepted delivery.
THEOREM Durable == Spec => []NothingLost
<1>1. IInv => NothingLost
  BY DEF IInv
<1> QED BY <1>1, Invariance, PTL

\* A delivery is never queued and claimed at the same time.
THEOREM SingleCopy == Spec => []QueuedOnce
<1>1. IInv => QueuedOnce
  BY DEF IInv
<1> QED BY <1>1, Invariance, PTL

\* Claims belong to the lease owner or to a runtime that unregistered: a new
\* lease is published over no claim of a crashed one.
THEOREM ClaimsHaveOwners == Spec => []ClaimsOwned
<1>1. IInv => ClaimsOwned
  BY DEF IInv
<1> QED BY <1>1, Invariance, PTL

\* The limit on an inbox covers queued and claimed messages together.
THEOREM LimitKept == Spec => []InboxWithinLimit
<1>1. IInv => InboxWithinLimit
  BY DEF IInv
<1> QED BY <1>1, Invariance, PTL

\* A multi-file operation works under the lock and the lease of its instance
\* from its first step to its last.
THEOREM Fenced == Spec => []OperationsFenced
<1>1. IInv => OperationsFenced
  BY DEF IInv, OpsInv, OpOK, OperationsFenced, AckSteps, RecoverySteps, TypeOK, OpType, Steps
<1> QED BY <1>1, Invariance, PTL
=============================================================================
