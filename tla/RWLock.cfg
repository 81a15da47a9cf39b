CONSTANT Proc = {p1, p2, p3, p4}
SPECIFICATION FairSpec
INVARIANTS TypeOK Exclusion Counters NoStrandedWaiter NoPanic
PROPERTIES NoBarging Progress
