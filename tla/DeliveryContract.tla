--------------------------- MODULE DeliveryContract ---------------------------
(***************************************************************************)
(* What the A2A transport promises for a request and its response, with no *)
(* files, locks, leases or processes: a request is queued once, worked on  *)
(* by turns, settled once; it has at most one response, filed before the   *)
(* request is settled unless the request was waived; the response is       *)
(* consumed at most once.                                                  *)
(***************************************************************************)
CONSTANTS
    Requests, Replies,
    NoReply     \* "no response yet", a value outside Replies

VARIABLES
    place,   \* request -> "none", "queued", "claimed" or "settled"
    reply,   \* request -> its response
    waived,  \* requests acknowledged without a response
    seen     \* requests whose response the sender has consumed

vars == <<place, reply, waived, seen>>

Init ==
    /\ place = [r \in Requests |-> "none"]
    /\ reply = [r \in Requests |-> NoReply]
    /\ waived = {}
    /\ seen = {}

Shift(r, here, there) == place[r] = here /\ place' = [place EXCEPT ![r] = there]

Send(r) == Shift(r, "none", "queued") /\ UNCHANGED <<reply, waived, seen>>
Take(r) == Shift(r, "queued", "claimed") /\ UNCHANGED <<reply, waived, seen>>
GiveBack(r) == Shift(r, "claimed", "queued") /\ UNCHANGED <<reply, waived, seen>>

Answer(r, c) ==
    /\ place[r] \in {"claimed", "settled"} /\ reply[r] = NoReply
    /\ reply' = [reply EXCEPT ![r] = c]
    /\ UNCHANGED <<place, waived, seen>>

Waive(r) ==
    /\ place[r] \in {"claimed", "settled"}
    /\ waived' = waived \cup {r}
    /\ UNCHANGED <<place, reply, seen>>

Settle(r) ==
    /\ reply[r] # NoReply \/ r \in waived
    /\ Shift(r, "claimed", "settled")
    /\ UNCHANGED <<reply, waived, seen>>

See(r) ==
    /\ reply[r] # NoReply /\ r \notin seen
    /\ seen' = seen \cup {r}
    /\ UNCHANGED <<place, reply, waived>>

Next ==
    \E r \in Requests :
        \/ Send(r) \/ Take(r) \/ GiveBack(r) \/ Waive(r) \/ Settle(r) \/ See(r)
        \/ \E c \in Replies : Answer(r, c)

Spec == Init /\ [][Next]_vars
=============================================================================
