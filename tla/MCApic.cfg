SPECIFICATION ApicSpec
CONSTANTS
  base1 = base1
  base2 = base2
  p1 = p1
  NumVcpu = 2
  MaxCores = 3
  apic_id <- Identity2
  Base <- TwoBases
  Page <- OnePage
  ResetBase = base1
  IdReaders <- FirstTwo
  Pollers <- OnlySecond
  Pagers <- OnlySecond
  None = None
PROPERTIES SyncKept NoSignalMissed
