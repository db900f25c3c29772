CONSTANTS
  Rounds = 1
  Asked = {"system_proxy", "tun"}
  MaxWaiting = 1
  MaxReads = 1
  Races = {"readiness", "dashboard"}
SPECIFICATION Spec
PROPERTIES
  JournalCovers
