CONSTANTS
  o1 = o1
  o2 = o2
  Owners = {o1, o2}
  Nobody = Nobody
  Ttl = 2
  Ttls = {2}
  Stores = {"database", "memory"}
  MaxAsks = 2
  MaxLost = 1
SPECIFICATION FairSpec
INVARIANTS BeliefIsReal TokensNameHolds
PROPERTIES FencedInOrder LossIsNoticed
