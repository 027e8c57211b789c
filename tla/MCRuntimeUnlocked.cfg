SPECIFICATION Spec
CONSTANTS
  Thread = {"t1", "t2", "t3"}
  Key = {"x", "y", "z"}
  MaxInterrupts = 0
  Class = {"A", "B", "C"}
  Signature = {"f", "g", "h"}
  Ancestors <- AncestorsOf
  Programs <- CyclePrograms
INVARIANT UnlockedIsResolved
