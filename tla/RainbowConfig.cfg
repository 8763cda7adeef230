SPECIFICATION Spec
CONSTANTS
  None = None
  MaxKills = 1
  Procs = {p1}
  Used <- AllCommands
  CommandLines <- Lines
  Environments <- Secret
  Generated <- One
INVARIANTS
  SetupSuffices
  Remembered
