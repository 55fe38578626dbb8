\* Cold offload enabled with one host place; three keys compete for two slabs.
CONSTANTS
    Keys = {1, 2, 3}
    TenantOf <- MCTenantOf
    Quota <- MCQuota
    Capacity = 2
    OffloadedCapacity = 1
    TTL = 1
    Times = {0, 1, 2}
    MaxActive = 1
    MaxVersion = 1
SPECIFICATION SlabsSpec
INVARIANTS SlabsPartitioned HostTierBounded
PROPERTIES ActiveCohortsStay 
