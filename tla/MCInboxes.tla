------------------------------ MODULE MCInboxes ------------------------------
(***************************************************************************)
(* Three instances of the transport for TLC.  They share no state, so a    *)
(* behaviour is of one of them, chosen at the start: one request (the      *)
(* module as extended); two that cross, through inboxes of one message     *)
(* (Crossing); an inbox whose runtime has died holding claims that         *)
(* recovery cannot all give a tombstone (Crowded).                         *)
(***************************************************************************)
EXTENDS MCLocalBus

CONSTANT ok

VARIABLES part, status2, lease2, lock2, pending2, processing2, acked2, op2, aged2,
          claimer2, answered2, accepted2, dismissed2

vars2 == <<status2, lease2, lock2, pending2, processing2, acked2, op2, aged2,
           claimer2, answered2, accepted2, dismissed2>>

Both == {r1, r2}
Crossing == INSTANCE LocalBus WITH
    Runtimes <- Two, HostOf <- [p \in Two |-> Hosts[p]],
    Requests <- Both, Replies <- {ok}, MaxInbox <- 1,
    From <- [r \in Both |-> IF r = r1 THEN a ELSE b],
    To <- [r \in Both |-> IF r = r1 THEN b ELSE a],
    status <- status2, lease <- lease2, lock <- lock2,
    pending <- pending2, processing <- processing2, acked <- acked2,
    op <- op2, aged <- aged2, claimer <- claimer2, answered <- answered2,
    accepted <- accepted2, dismissed <- dismissed2
Crowded == INSTANCE LocalBus WITH
    Requests <- Both, Replies <- {ok}, MaxInbox <- 2,
    From <- [r \in Both |-> a], To <- [r \in Both |-> b],
    status <- status2, lease <- lease2, lock <- lock2,
    pending <- pending2, processing <- processing2, acked <- acked2,
    op <- op2, aged <- aged2, claimer <- claimer2, answered <- answered2,
    accepted <- accepted2, dismissed <- dismissed2

\* b1 claimed both requests, answered some of them and died.  It acknowledged
\* none: the one tombstone an inbox may keep was that of an exchange reclaimed
\* and forgotten since.  "a" consumed the answer to r2 and shut down.
CrowdedInit ==
    \E done \in SUBSET Both :
        LET Files(S, c) == [d \in Crowded!Deliveries |-> IF d \in S THEN c ELSE Absent]
            claimed == {Crowded!Req(r) : r \in Both}
            answers == {Crowded!Rsp(r) : r \in done}
        IN  /\ status2 = [p \in Runtimes |->
                            IF p = a1 THEN "down" ELSE IF p = b1 THEN "crashed" ELSE "new"]
            /\ lease2 = [i \in Instances |->
                            IF i = b THEN [owner |-> b1, stale |-> TRUE] ELSE Crowded!NoLease]
            /\ lock2 = [i \in Instances |-> NoRuntime]
            /\ pending2 = Files(answers \ {Crowded!Rsp(r2)}, ok)
            /\ processing2 = Files(claimed, Payload)
            /\ acked2 = Files(answers \ {Crowded!Rsp(r1)}, ok)
            /\ op2 = [p \in Runtimes |-> Crowded!Idle]
            /\ aged2 = {}
            /\ claimer2 = [d \in Crowded!Deliveries |-> IF d \in claimed THEN b1 ELSE NoRuntime]
            /\ answered2 = [r \in Both |-> IF r \in done THEN {ok} ELSE {}]
            /\ accepted2 = claimed \cup answers
            /\ dismissed2 = {}

InboxesInit ==
    /\ Init
    /\ \/ part = "one" /\ Crowded!Init
       \/ part = "crossing" /\ Crossing!Init
       \/ part = "crowded" /\ CrowdedInit

InboxesNext ==
    \/ part = "one" /\ Next /\ UNCHANGED <<part, vars2>>
    \/ part = "crossing" /\ Crossing!Next /\ UNCHANGED <<part, vars>>
    \/ part = "crowded" /\ Crowded!Next /\ UNCHANGED <<part, vars>>

\* Fairness, of the crowded part.  A process inside an operation runs on.  Crumb
\* is started again in its workspace and a blocked flock is eventually granted,
\* although other processes take the lock in between: strong fairness.  A
\* crashed owner's lease expires, tombstones get old.  Nobody is obliged to
\* claim, answer, release or consume anything.
InboxesFairness ==
    /\ \A p \in {b2, b3} :
          /\ WF_vars2(part = "crowded" /\ (Crowded!AckOp(p) \/ Crowded!Recover(p)))
          /\ SF_vars2(part = "crowded" /\ Crowded!Takeover(p))
    /\ WF_vars2(part = "crowded" /\ Crowded!ExpireCrashed(b))
    /\ \A r \in Both : WF_vars2(part = "crowded" /\ Crowded!Age(Crowded!Req(r)))

InboxesSpec ==
    InboxesInit /\ [][InboxesNext]_<<part, vars, vars2>> /\ InboxesFairness

\* Where two requests cross, InboxWithinLimit, ClaimsOwned and OperationsFenced of
\* LocalBus: requests and responses compete for the room of an inbox, and each
\* instance holds the other's lock in turn.
CrossingWithinLimit == part = "crossing" => Crossing!InboxWithinLimit
CrossingClaimsOwned == part = "crossing" => Crossing!ClaimsOwned
CrossingFenced == part = "crossing" => Crossing!OperationsFenced

\* ClaimRecovered of LocalBus where several claims are recovered at once, in an
\* inbox that has no room for all their tombstones, by runtimes that may die as
\* well: the case its exception names does arise.
CrashedClaimsRecovered ==
    part = "crowded" => \A r \in Both : Crowded!ClaimRecovered(Crowded!Req(r))
=============================================================================
