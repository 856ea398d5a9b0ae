SPECIFICATION Spec
CONSTANTS
    a = a
    b = b
    a1 = a1
    b1 = b1
    b2 = b2
    b3 = b3
    r1 = r1
    r2 = r2
    r3 = r3
    Instances <- TwoInstances
    Runtimes <- Two
    HostOf <- Hosts
    Requests = {r1, r2, r3}
    From <- Senders
    To <- Receivers
    Replies = {ok}
    Payload = Payload
    Absent = Absent
    NoRuntime = NoRuntime
    NoDelivery = NoDelivery
    MaxInbox = 3
    MaxAcks = 1
    RetainLatest = 0
INVARIANT AcksWithinLimit
CONSTRAINT QuietSender
CHECK_DEADLOCK FALSE
