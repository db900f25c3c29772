SPECIFICATION Spec
CONSTANTS
  Originals <- MCOriginals
  Others <- MCOthers
  Faults = {"crash","torn"}
INVARIANTS
  DisabledIsOff
