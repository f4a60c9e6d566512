SPECIFICATION Spec
CONSTANTS Server = {s1, s2} None = None Other = Other
Lease = 5 RenewTimes = {1,3} RebindTimes = {4,9} RoundTrip = 1 StartDelay = 1 Retry = 1
DiscoverTime = 3 OfferTime = 1 RequestTime = 3 RebootTime = 3 QuietTime = 1 Minute = 1
INVARIANTS BoundIsConfigured
