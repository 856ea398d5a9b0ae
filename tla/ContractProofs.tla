---------------------------- MODULE ContractProofs ----------------------------
(***************************************************************************)
(* The file transport implements the delivery contract, for every number   *)
(* of instances, runtimes and requests: each change of a file is one step  *)
(* of the contract, or none.                                               *)
(***************************************************************************)
EXTENDS LocalBusProofs, LocalBusContract

SeenOf(r) == Present(acked, Rsp(r)) \/ Rsp(r) \in aged

Place == [r \in Requests |-> PlaceOf(r)]
Reply == [r \in Requests |-> ReplyOf(r)]
Waived == {r \in Requests : Req(r) \in dismissed}
Seen == {r \in Requests : SeenOf(r)}

\* A step the contract allows, with the contract's state written out.
Allowed == [Contract!Next]_<<Place, Reply, Waived, Seen>>

----------------------------------------------------------------------------
(* Which step of the contract a change of the mapped state is.  All that   *)
(* happens to the bus happens to one request.                              *)

OthersStay(r) ==
    \A q \in Requests \ {r} : PlaceOf(q)' = PlaceOf(q) /\ SeenOf(q)' = SeenOf(q)

LEMMA PlaceStays ==
    ASSUME \A q \in Requests : PlaceOf(q)' = PlaceOf(q)
    PROVE  Place' = Place
BY DEF Place

LEMMA SeenStays ==
    ASSUME \A q \in Requests : SeenOf(q)' = SeenOf(q)
    PROVE  Seen' = Seen
BY DEF Seen

LEMMA RepliesStay ==
    ASSUME answered' = answered
    PROVE  Reply' = Reply /\ \A q \in Requests : ReplyOf(q)' = ReplyOf(q)
BY DEF Reply, ReplyOf

LEMMA WaivedStays ==
    ASSUME dismissed' = dismissed
    PROVE  Waived' = Waived
BY DEF Waived

LEMMA AllStays ==
    ASSUME \A q \in Requests : PlaceOf(q)' = PlaceOf(q) /\ SeenOf(q)' = SeenOf(q),
           answered' = answered, dismissed' = dismissed
    PROVE  Allowed
BY PlaceStays, SeenStays, RepliesStay, WaivedStays DEF Allowed

\* A request moves.
LEMMA PlaceMoves ==
    ASSUME NEW r \in Requests, OthersStay(r), SeenOf(r)' = SeenOf(r),
           answered' = answered, dismissed' = dismissed,
           <<PlaceOf(r), PlaceOf(r)'>> \in
               {<<"none", "queued">>, <<"queued", "claimed">>, <<"claimed", "queued">>,
                <<"claimed", "settled">>},
           PlaceOf(r)' = "settled" => answered[r] # {} \/ Req(r) \in dismissed,
           answered[r] \subseteq Replies
    PROVE  Allowed
<1>1. Reply' = Reply /\ Waived' = Waived
  BY RepliesStay, WaivedStays
<1>2. Seen' = Seen
  BY SeenStays DEF OthersStay
<1>3. Place' = [Place EXCEPT ![r] = PlaceOf(r)'] /\ Place[r] = PlaceOf(r)
  BY DEF OthersStay, Place
<1>4. PlaceOf(r)' = "settled" => Reply[r] # Absent \/ r \in Waived
  BY MarkersAssumption DEF Reply, ReplyOf, Waived
<1>5. \/ Contract!Send(r) \/ Contract!Take(r) \/ Contract!GiveBack(r) \/ Contract!Settle(r)
  BY <1>1, <1>2, <1>3, <1>4
     DEF Contract!Send, Contract!Take, Contract!GiveBack, Contract!Settle, Contract!Shift,
         Place, Reply, Waived, Seen, SeenOf
<1>. QED  BY <1>5 DEF Allowed, Contract!Next

\* A request is answered: the first answer is the only one.
LEMMA ReplyMoves ==
    ASSUME NEW r \in Requests, NEW c \in Replies, answered \in [Requests -> SUBSET Replies],
           \A q \in Requests : PlaceOf(q)' = PlaceOf(q) /\ SeenOf(q)' = SeenOf(q),
           dismissed' = dismissed,
           answered' = [answered EXCEPT ![r] = @ \cup {c}],
           answered[r] \subseteq {c},
           PlaceOf(r) \in {"claimed", "settled"}
    PROVE  Allowed
<1>1. Place' = Place /\ Seen' = Seen /\ Waived' = Waived
  BY PlaceStays, SeenStays, WaivedStays
<1>2. CASE answered[r] = {c}
  <2>1. answered' = answered
    BY <1>2
  <2>. QED  BY <2>1, AllStays
<1>3. CASE answered[r] = {}
  <2>1. answered'[r] = {c} /\ \A q \in Requests \ {r} : answered'[q] = answered[q]
    BY <1>3
  <2>2. ReplyOf(r) = Absent /\ ReplyOf(r)' = c
    <3>1. (CHOOSE b \in {c} : TRUE) = c
      OBVIOUS
    <3>. QED  BY <1>3, <2>1, <3>1 DEF ReplyOf
  <2>3. \A q \in Requests \ {r} : ReplyOf(q)' = ReplyOf(q)
    BY <2>1 DEF ReplyOf
  <2>4. Reply' = [Reply EXCEPT ![r] = c] /\ Reply[r] = Absent
    BY <2>2, <2>3 DEF Reply
  <2>5. Contract!Answer(r, c)
    BY <1>1, <2>4 DEF Contract!Answer, Place, Reply, Waived, Seen, SeenOf
  <2>. QED  BY <2>5 DEF Allowed, Contract!Next
<1>. QED  BY <1>2, <1>3

\* A request is waived.
LEMMA WaivedMoves ==
    ASSUME NEW r \in Requests,
           \A q \in Requests : PlaceOf(q)' = PlaceOf(q) /\ SeenOf(q)' = SeenOf(q),
           answered' = answered, dismissed' = dismissed \cup {Req(r)},
           PlaceOf(r) \in {"claimed", "settled"}
    PROVE  Allowed
<1>1. Place' = Place /\ Seen' = Seen /\ Reply' = Reply
  BY PlaceStays, SeenStays, RepliesStay
<1>2. Waived' = Waived \cup {r}
  BY DEF Waived, Req
<1>3. Contract!Waive(r)
  BY <1>1, <1>2 DEF Contract!Waive, Place, Reply, Waived, Seen, SeenOf
<1>. QED  BY <1>3 DEF Allowed, Contract!Next

\* The sender consumes a response.
LEMMA SeenMoves ==
    ASSUME NEW r \in Requests, OthersStay(r), PlaceOf(r)' = PlaceOf(r),
           answered' = answered, dismissed' = dismissed,
           answered[r] # {}, answered[r] \subseteq Replies, SeenOf(r)'
    PROVE  Allowed
<1>1. Place' = Place /\ Reply' = Reply /\ Waived' = Waived
  BY PlaceStays, RepliesStay, WaivedStays DEF OthersStay
<1>2. Seen' = Seen \cup {r}
  BY DEF OthersStay, Seen
<1>3. CASE SeenOf(r)
  <2>1. SeenOf(r)' = SeenOf(r)
    BY <1>3 DEF SeenOf
  <2>2. \A q \in Requests : PlaceOf(q)' = PlaceOf(q) /\ SeenOf(q)' = SeenOf(q)
    BY <2>1 DEF OthersStay
  <2>. QED  BY <2>2, AllStays
<1>4. CASE ~SeenOf(r)
  <2>1. Reply[r] # Absent /\ r \notin Seen
    BY <1>4, MarkersAssumption DEF Reply, ReplyOf, Seen
  <2>2. Contract!See(r)
    BY <1>1, <1>2, <2>1 DEF Contract!See, Place, Reply, Waived, Seen, SeenOf
  <2>. QED  BY <2>2 DEF Allowed, Contract!Next
<1>. QED  BY <1>3, <1>4

----------------------------------------------------------------------------
(* The steps of the bus. *)

\* What a step does beside the files: it answers a request only that is claimed
\* or settled, waives one that is claimed, or ages a tombstone.
LEMMA Beside ==
    ASSUME TypeOK, OpsInv, Next
    PROVE  \/ \E d \in Deliveries : Age(d)
           \/ \E d \in Deliveries :
                 /\ d.kind = "request" /\ Present(processing, d)
                 /\ dismissed' = dismissed \cup {d}
                 /\ UNCHANGED <<files, aged, answered>>
           \/ /\ UNCHANGED <<aged, dismissed>>
              /\ \A r \in Requests : answered'[r] # answered[r] =>
                    Present(processing, Req(r)) \/ Present(acked, Req(r))
<1>1. ASSUME NEW i \in Instances, Expire(i)
      PROVE  UNCHANGED <<aged, dismissed, answered>>
  BY <1>1 DEF Expire, history
<1>2. ASSUME NEW p \in Runtimes, LeaseOp(p)
      PROVE  UNCHANGED <<aged, dismissed, answered>>
  BY <1>2 DEF LeaseOp, Register, Heartbeat, Unregister, Crash, history
<1>3. ASSUME NEW p \in Runtimes, Compact(p) \/ AckOp(p)
      PROVE  UNCHANGED <<aged, dismissed, answered>>
  BY <1>3 DEF Compact, AckOp, Tombstone, AckLimitReached, Unlink, history
<1>4. ASSUME NEW p \in Runtimes, Takeover(p) \/ Recover(p)
      PROVE  UNCHANGED <<aged, dismissed, answered>>
  BY <1>4 DEF Takeover, Recover, Scan, ProbePending, ProbeProcessing, RecoveryRefused,
              StartApply, Apply, Sweep, Publish, history
<1>5. ASSUME NEW p \in Runtimes,
             \/ \E r \in Requests : Enqueue(p, r) \/ Consume(p, r)
             \/ \E d \in Deliveries : Claim(p, d) \/ Release(p, d)
      PROVE  UNCHANGED <<aged, dismissed, answered>>
  BY <1>5 DEF Enqueue, Consume, Claim, Release
<1>6. ASSUME NEW p \in Runtimes, NEW r \in Requests, NEW c \in Replies, Complete(p, r, c)
      PROVE  /\ UNCHANGED <<aged, dismissed>>
             /\ \A q \in Requests : answered'[q] # answered[q] =>
                   Present(processing, Req(q)) \/ Present(acked, Req(q))
  BY <1>6 DEF Complete, TypeOK
<1>7. ASSUME NEW p \in Runtimes, NEW d \in Deliveries, Acknowledge(p, d)
      PROVE  \/ UNCHANGED <<aged, dismissed, answered>>
             \/ /\ d.kind = "request" /\ Present(processing, d)
                /\ dismissed' = dismissed \cup {d}
                /\ UNCHANGED <<files, aged, answered>>
  BY <1>7 DEF Acknowledge
<1>. QED  BY <1>1, <1>2, <1>3, <1>4, <1>5, <1>6, <1>7 DEF Next, Step, QueueOp

\* What a delivery is, and whose.
LEMMA DeliveryOf ==
    ASSUME NEW d \in Deliveries
    PROVE  /\ d.req \in Requests
           /\ d.kind = "request" => d = Req(d.req)
           /\ d.kind # "request" => d.kind = "response" /\ d = Rsp(d.req)
           /\ \A q \in Requests \ {d.req} : Req(q) # d /\ Rsp(q) # d
BY DEF Deliveries, Kinds, Req, Rsp

\* The files of delivery d change, and of others but tombstones that are aged.
Only(d) ==
    /\ aged' = aged
    /\ \A e \in Deliveries \ {d} :
          /\ pending'[e] = pending[e] /\ processing'[e] = processing[e]
          /\ acked'[e] = acked[e] \/ e \in aged

LEMMA OnlyItsRequest ==
    ASSUME NEW d \in Deliveries, Only(d)
    PROVE  /\ OthersStay(d.req)
           /\ d.kind = "request" => SeenOf(d.req)' = SeenOf(d.req)
           /\ d.kind = "response" => PlaceOf(d.req)' = PlaceOf(d.req)
<1>1. ASSUME NEW q \in Requests, Req(q) # d PROVE PlaceOf(q)' = PlaceOf(q)
  BY <1>1, RequestTypes DEF Only, PlaceOf, Present
<1>2. ASSUME NEW q \in Requests, Rsp(q) # d PROVE SeenOf(q)' = SeenOf(q)
  BY <1>2, RequestTypes DEF Only, SeenOf, Present
<1>3. d.kind = "request" => Rsp(d.req) # d
  BY DEF Rsp
<1>4. d.kind = "response" => Req(d.req) # d
  BY DEF Req
<1>. QED  BY <1>1, <1>2, <1>3, <1>4, DeliveryOf DEF OthersStay

\* Each change of the files is a step of the contract or none.
LEMMA ChangeAllowed ==
    ASSUME IInv, TypeOK', FileChange, UNCHANGED <<aged, dismissed>>,
           \A r \in Requests : answered'[r] # answered[r] =>
               Present(processing, Req(r)) \/ Present(acked, Req(r))
    PROVE  Allowed
<1>. USE MarkersAssumption
<1>0. TypeOK /\ QueuedOnce /\ RepliesInv
  BY DEF IInv
<1>1. CASE Kept
  BY <1>1, AllStays DEF Kept, PlaceOf, SeenOf, Present
<1>2. ASSUME NEW d \in Deliveries, NEW c \in Contents, Delivered(d, c) PROVE Allowed
  <2>. DEFINE r == d.req
  <2>1. c # Absent /\ r \in Requests /\ Only(d)
    BY <1>0, <1>2, DeliveryOf DEF Contents, Delivered, File, Only, TypeOK
  <2>2. CASE d.kind = "request"
    <3>1. d = Req(r) /\ answered' = answered /\ OthersStay(r) /\ SeenOf(r)' = SeenOf(r)
      BY <1>2, <2>1, <2>2, DeliveryOf, OnlyItsRequest DEF Delivered
    <3>2. CASE Filed(d) = c
      BY <1>2, <2>1, <3>1, <3>2, AllStays
         DEF Delivered, File, PlaceOf, SeenOf, Present
    <3>3. CASE Filed(d) = Absent
      <4>1. PlaceOf(r) = "none"
        BY <1>2, <3>1, <3>3 DEF Delivered, Filed, PlaceOf, InWindow, Present
      <4>2. PlaceOf(r)' = "queued"
        BY <1>0, <1>2, <2>1, <3>1, <3>3 DEF Delivered, File, Filed, PlaceOf, InWindow, Present, TypeOK
      <4>. QED  BY <1>0, <2>1, <3>1, <4>1, <4>2, PlaceMoves DEF TypeOK
    <3>. QED  BY <1>2, <3>2, <3>3 DEF Delivered
  <2>3. CASE d.kind # "request"
    <3>1. /\ d.kind = "response" /\ d = Rsp(r) /\ OthersStay(r)
          /\ PlaceOf(r)' = PlaceOf(r) /\ answered' = [answered EXCEPT ![r] = @ \cup {c}]
      BY <1>2, <2>1, <2>3, DeliveryOf, OnlyItsRequest DEF Delivered
    <3>2. SeenOf(r)' = SeenOf(r)
      BY <1>2 DEF Delivered, SeenOf, Present
    <3>3. \A q \in Requests : PlaceOf(q)' = PlaceOf(q) /\ SeenOf(q)' = SeenOf(q)
      BY <3>1, <3>2 DEF OthersStay
    <3>4. answered[r] \subseteq {c}
      BY <1>0, <1>2, <2>1, <3>1 DEF Delivered, RepliesInv
    <3>5. c \in Replies
      BY <1>0, <2>1, <3>1 DEF TypeOK
    <3>6. CASE answered[r] = {c}
      <4>1. answered' = answered
        BY <1>0, <3>1, <3>6 DEF TypeOK
      <4>. QED  BY <3>3, <4>1, AllStays
    <3>7. CASE answered[r] = {}
      <4>1. answered'[r] # answered[r]
        BY <1>0, <2>1, <3>1, <3>7 DEF TypeOK
      <4>2. PlaceOf(r) \in {"claimed", "settled"}
        BY <2>1, <4>1 DEF PlaceOf
      <4>. QED  BY <1>0, <2>1, <3>1, <3>3, <3>4, <3>5, <4>2, ReplyMoves DEF TypeOK
    <3>. QED  BY <3>4, <3>6, <3>7
  <2>. QED  BY <2>2, <2>3
<1>3. ASSUME NEW d \in Deliveries, NEW p \in Runtimes, Taken(d, p) PROVE Allowed
  <2>. DEFINE r == d.req
  <2>1. r \in Requests /\ Only(d) /\ answered' = answered
    BY <1>0, <1>3, DeliveryOf DEF Taken, Only, TypeOK
  <2>2. CASE d.kind = "request"
    <3>1. d = Req(r) /\ OthersStay(r) /\ SeenOf(r)' = SeenOf(r)
      BY <2>1, <2>2, DeliveryOf, OnlyItsRequest
    <3>2. CASE Present(acked, d) \/ d \in aged
      <4>1. PlaceOf(r)' = PlaceOf(r)
        BY <1>3, <3>1, <3>2 DEF Taken, PlaceOf, Present
      <4>. QED  BY <2>1, <3>1, <4>1, AllStays DEF OthersStay
    <3>3. CASE ~(Present(acked, d) \/ d \in aged)
      <4>1. PlaceOf(r) = "queued"
        BY <1>0, <1>3, <3>1, <3>3 DEF Taken, PlaceOf, QueuedOnce
      <4>2. PlaceOf(r)' = "claimed"
        BY <1>0, <1>3, <3>1, <3>3 DEF Taken, PlaceOf, Present, TypeOK
      <4>. QED  BY <1>0, <2>1, <3>1, <4>1, <4>2, PlaceMoves DEF TypeOK
    <3>. QED  BY <3>2, <3>3
  <2>3. CASE d.kind # "request"
    <3>1. SeenOf(r)' = SeenOf(r)
      BY <1>3 DEF Taken, SeenOf, Present
    <3>. QED  BY <2>1, <2>3, <3>1, DeliveryOf, OnlyItsRequest, AllStays DEF OthersStay
  <2>. QED  BY <2>2, <2>3
<1>4. ASSUME NEW d \in Deliveries, Returned(d) PROVE Allowed
  <2>. DEFINE r == d.req
  <2>1. r \in Requests /\ Only(d) /\ answered' = answered
    BY <1>0, <1>4, DeliveryOf DEF Returned, Unclaim, Only, TypeOK
  <2>2. CASE d.kind = "request"
    <3>1. d = Req(r) /\ OthersStay(r) /\ SeenOf(r)' = SeenOf(r)
      BY <2>1, <2>2, DeliveryOf, OnlyItsRequest
    <3>2. CASE Present(acked, d) \/ d \in aged
      <4>1. PlaceOf(r)' = PlaceOf(r)
        BY <1>4, <3>1, <3>2 DEF Returned, PlaceOf, Present
      <4>. QED  BY <2>1, <3>1, <4>1, AllStays DEF OthersStay
    <3>3. CASE ~(Present(acked, d) \/ d \in aged)
      <4>1. PlaceOf(r) = "claimed"
        BY <1>4, <3>1, <3>3 DEF Returned, PlaceOf
      <4>2. PlaceOf(r)' = "queued"
        BY <1>0, <1>4, <3>1, <3>3 DEF Returned, Unclaim, PlaceOf, Present, TypeOK
      <4>. QED  BY <1>0, <2>1, <3>1, <4>1, <4>2, PlaceMoves DEF TypeOK
    <3>. QED  BY <3>2, <3>3
  <2>3. CASE d.kind # "request"
    <3>1. SeenOf(r)' = SeenOf(r)
      BY <1>4 DEF Returned, SeenOf, Present
    <3>. QED  BY <2>1, <2>3, <3>1, DeliveryOf, OnlyItsRequest, AllStays DEF OthersStay
  <2>. QED  BY <2>2, <2>3
<1>5. ASSUME NEW S \in SUBSET aged, Forgotten(S) PROVE Allowed
  <2>1. \A q \in Requests : PlaceOf(q)' = PlaceOf(q) /\ SeenOf(q)' = SeenOf(q)
    BY <1>0, <1>5, RequestTypes DEF Forgotten, RemoveTombstones, PlaceOf, SeenOf, Present, TypeOK
  <2>. QED  BY <1>5, <2>1, AllStays DEF Forgotten
<1>6. ASSUME NEW d \in Deliveries, NEW S \in SUBSET aged, Tombstoned(d, S) PROVE Allowed
  <2>. DEFINE r == d.req
  <2>1. r \in Requests /\ Only(d) /\ answered' = answered /\ Present(acked, d)'
    BY <1>0, <1>6, DeliveryOf DEF Tombstoned, WriteTombstone, Only, Present, TypeOK
  <2>2. CASE d.kind = "request"
    <3>1. d = Req(r) /\ OthersStay(r) /\ SeenOf(r)' = SeenOf(r)
      BY <2>1, <2>2, DeliveryOf, OnlyItsRequest
    <3>2. PlaceOf(r)' = "settled"
      BY <2>1, <3>1 DEF PlaceOf
    <3>3. PlaceOf(r) \in {"claimed", "settled"}
      BY <1>6, <3>1 DEF Tombstoned, PlaceOf
    <3>4. CASE PlaceOf(r) = "settled"
      BY <2>1, <3>1, <3>2, <3>4, AllStays DEF OthersStay
    <3>5. CASE PlaceOf(r) = "claimed"
      <4>1. answered[r] # {} \/ Req(r) \in dismissed
        BY <1>6, <2>2, <3>1 DEF Tombstoned
      <4>. QED  BY <1>0, <2>1, <3>1, <3>2, <3>5, <4>1, PlaceMoves DEF TypeOK
    <3>. QED  BY <3>3, <3>4, <3>5
  <2>3. CASE d.kind # "request"
    <3>1. /\ d = Rsp(r) /\ OthersStay(r) /\ PlaceOf(r)' = PlaceOf(r) /\ SeenOf(r)'
      BY <2>1, <2>3, DeliveryOf, OnlyItsRequest DEF SeenOf
    <3>2. Filed(d) # Absent
      BY <1>0, <1>6, <2>3 DEF Tombstoned, Filed, QueuedOnce, Present
    <3>3. answered[r] # {}
      BY <1>0, <2>1, <3>1, <3>2 DEF RepliesInv
    <3>. QED  BY <1>0, <2>1, <3>1, <3>3, SeenMoves DEF TypeOK
  <2>. QED  BY <2>2, <2>3
<1>7. ASSUME NEW d \in Deliveries, Cleared(d) PROVE Allowed
  <2>. DEFINE r == d.req
  <2>1. r \in Requests /\ Only(d) /\ answered' = answered
    BY <1>0, <1>7, DeliveryOf DEF Cleared, Unclaim, Only, TypeOK
  <2>2. SeenOf(r)' = SeenOf(r)
    BY <1>7 DEF Cleared, SeenOf, Present
  <2>3. PlaceOf(r)' = PlaceOf(r)
    <3>1. CASE d.kind = "request"
      BY <1>7, <3>1, DeliveryOf DEF Cleared, PlaceOf, Present
    <3>2. CASE d.kind # "request"
      BY <2>1, <3>2, DeliveryOf, OnlyItsRequest
    <3>. QED  BY <3>1, <3>2
  <2>. QED  BY <2>1, <2>2, <2>3, OnlyItsRequest, AllStays DEF OthersStay
<1>. QED  BY <1>1, <1>2, <1>3, <1>4, <1>5, <1>6, <1>7 DEF FileChange

LEMMA StepAllowed == IInv /\ IInv' /\ [Next]_vars => Allowed
<1>. SUFFICES ASSUME IInv, IInv', [Next]_vars PROVE Allowed
  OBVIOUS
<1>1. CASE UNCHANGED vars
  BY <1>1, AllStays DEF vars, files, history, PlaceOf, SeenOf, Present
<1>2. CASE Next
  <2>1. TypeOK /\ TypeOK' /\ OpsInv
    BY DEF IInv
  <2>2. FileChange
    BY <1>2, <2>1, NextChanges
  <2>3. ASSUME NEW d \in Deliveries, Age(d) PROVE Allowed
    <3>1. \A q \in Requests : PlaceOf(q)' = PlaceOf(q) /\ SeenOf(q)' = SeenOf(q)
      BY <2>3 DEF Age, files, PlaceOf, SeenOf, Present
    <3>. QED  BY <2>3, <3>1, AllStays DEF Age, history
  <2>4. ASSUME NEW d \in Deliveries, d.kind = "request", Present(processing, d),
               dismissed' = dismissed \cup {d}, UNCHANGED <<files, aged, answered>>
        PROVE  Allowed
    <3>1. d = Req(d.req) /\ d.req \in Requests
      BY <2>4, DeliveryOf
    <3>2. \A q \in Requests : PlaceOf(q)' = PlaceOf(q) /\ SeenOf(q)' = SeenOf(q)
      BY <2>4 DEF files, PlaceOf, SeenOf, Present
    <3>3. PlaceOf(d.req) \in {"claimed", "settled"}
      BY <2>4, <3>1 DEF PlaceOf
    <3>. QED  BY <2>4, <3>1, <3>2, <3>3, WaivedMoves
  <2>. QED  BY <1>2, <2>1, <2>2, <2>3, <2>4, Beside, ChangeAllowed
<1>. QED  BY <1>1, <1>2

LEMMA StartAllowed == Init => Contract!Init
BY RequestTypes DEF Init, Contract!Init, PlaceOf, ReplyOf, Present

\* The file transport implements the delivery contract: whatever crashes between
\* two file operations and whatever recovery finds, a request is queued once,
\* answered once, settled after its answer, and its answer consumed once.
THEOREM BusKeepsContract == Spec => ImplementsContract
<1>1. IInv /\ IInv' /\ [Next]_vars => [Contract!Next]_(Contract!vars)
  BY StepAllowed DEF Allowed, Contract!vars, Place, Reply, Waived, Seen, SeenOf
<1>. QED  BY <1>1, StartAllowed, Invariance, PTL DEF Spec, ImplementsContract, Contract!Spec
=============================================================================
