\* Two requests of up to two clients; a bucket fills in the time it takes to expire.
CONSTANTS
    Client = {k1, k2}
    Slot = {r1, r2}
    Rate = 1
    Burst = 2
    Ttl = 2
    Stall = 1
    Buckets = 3
SPECIFICATION LimiterSpec
INVARIANTS
    EvictionIsInvisible
