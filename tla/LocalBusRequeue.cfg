SPECIFICATION Spec
CONSTANTS
    a = a
    b = b
    a1 = a1
    b1 = b1
    b2 = b2
    b3 = b3
    r1 = r1
    r2 = r2
    r3 = r3
    Instances <- TwoInstances
    Runtimes <- Two
    HostOf <- Hosts
    Requests = {r1}
    From <- Senders
    To <- Receivers
    Replies = {ok}
    Payload = Payload
    Absent = Absent
    NoRuntime = NoRuntime
    NoDelivery = NoDelivery
    MaxInbox = 2
    MaxAcks = 2
    RetainLatest = 0
INVARIANT AnsweredNotRequeued
CHECK_DEADLOCK FALSE
