--------------------------- MODULE LocalBusContract ---------------------------
(***************************************************************************)
(* The file transport implements the delivery contract.                    *)
(***************************************************************************)
EXTENDS LocalBus

PlaceOf(r) ==
    IF Present(acked, Req(r)) \/ Req(r) \in aged THEN "settled"
    ELSE IF Present(processing, Req(r)) THEN "claimed"
    ELSE IF Present(pending, Req(r)) THEN "queued" ELSE "none"

ReplyOf(r) == IF answered[r] = {} THEN Absent ELSE CHOOSE c \in answered[r] : TRUE

Contract == INSTANCE DeliveryContract WITH
    NoReply <- Absent,
    place <- [r \in Requests |-> PlaceOf(r)],
    reply <- [r \in Requests |-> ReplyOf(r)],
    waived <- {r \in Requests : Req(r) \in dismissed},
    seen <- {r \in Requests : Present(acked, Rsp(r)) \/ Rsp(r) \in aged}

\* Every behaviour of the inbox files, crashes and recoveries included, is a
\* behaviour of the contract: requests are settled once and answered once.
ImplementsContract == Contract!Spec
=============================================================================
