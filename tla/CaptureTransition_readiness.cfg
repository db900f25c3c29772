CONSTANTS
  Rounds = 1
  Asked = {"off", "system_proxy", "tun", "restart"}
  MaxWaiting = 1
  MaxReads = 1
  Races = {"break", "readiness"}
SPECIFICATION Spec
PROPERTIES
  OffHolds
