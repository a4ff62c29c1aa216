SPECIFICATION AddrsSpec
CONSTANTS
    Addrs <- MCAddrs
    GroupOf <- MCGroupOf
    MaxIps = 7
INVARIANT SubscribedExact
CHECK_DEADLOCK FALSE
