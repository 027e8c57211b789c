SPECIFICATION Spec
CONSTANTS
  Thread = {"t1", "t2", "t3"}
  Key = {"x", "y", "z"}
  MaxInterrupts = 1
  Class = {"A", "B", "C"}
  Signature = {"f", "g", "h"}
  Ancestors <- AncestorsOf
  Programs <- MCPrograms
INVARIANTS ForwardsAreKnown OneAnswer LockProtects CallsRight SlotsAgree
PROPERTY EveryoneReturns
