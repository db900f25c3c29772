CONSTANTS
  Rounds = 2
  Asked = {"off", "system_proxy", "tun", "restart"}
  MaxWaiting = 1
  MaxReads = 0
  Races = {"crash", "break"}
SPECIFICATION FairSpec
INVARIANTS
  TypeOK
  SnapshotIsTrue
  StartsClean
PROPERTIES
  JournalCovers
  OffHolds
  CaptureSettles
