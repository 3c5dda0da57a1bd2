SPECIFICATION FairSpec
CONSTANT Harts = {h1, h2, h3}
INVARIANTS
  MutualExclusion
  NeverSpinsOnOwnHart
PROPERTIES
  IrqStateRestored
  LockIsTaken
