CONSTANTS
  Pids = {p1, p2, p3, p4}
  None = None
  Healths = {"starting", "healthy"}
  MaxFaults = 1
  MaxAsks = 1
  MaxBoots = 1
SPECIFICATION FairSpec
INVARIANTS
  WholeReports
  PublishedIsOnDisk
  LeftoverStopsOneStart
  PidIdentity
PROPERTY EventuallyPublished
