SPECIFICATION InboxesSpec
CONSTANTS
    ok = ok
    a = a
    b = b
    a1 = a1
    b1 = b1
    b2 = b2
    b3 = b3
    r1 = r1
    r2 = r2
    r3 = r3
    Instances <- TwoInstances
    Runtimes <- Three
    HostOf <- Hosts
    Requests = {r1}
    From <- Senders
    To <- Receivers
    Replies = {ok, rejected}
    Payload = Payload
    Absent = Absent
    NoRuntime = NoRuntime
    NoDelivery = NoDelivery
    MaxInbox = 2
    MaxAcks = 1
    RetainLatest = 0
INVARIANTS TypeOK ResponseBeforeTombstone OneAnswer NothingLost QueuedOnce ClaimsOwned OperationsFenced CrossingWithinLimit CrossingClaimsOwned CrossingFenced
PROPERTIES ImplementsContract CrashedClaimsRecovered
CHECK_DEADLOCK FALSE
