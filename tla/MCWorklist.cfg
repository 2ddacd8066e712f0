CONSTANTS
  Items = {a, b, c}
  Limit = 1
  DefinerMax = 3
  MaxHold = 2
  MaxBroken = 2
  MaxUpsets = 1
SPECIFICATION FairSpec
PROPERTIES EveryDueItemIsServed
