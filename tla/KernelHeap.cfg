SPECIFICATION FairSpec
CONSTANTS
  HeapWords = 19
  AddressSpace = 128
  Requests = {10, 16, 127}
INVARIANTS TiledUntilHit HoldersSafeUntilHit CoalescedUntilHit FailureTrueUntilHit TotalExactUntilHit
CONSTRAINT NotCollided
PROPERTIES CallsReturn
