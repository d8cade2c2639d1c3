SPECIFICATION Spec
CONSTANTS
  photos = photos
  links = links
  i1 = i1
  i2 = i2
  w1 = w1
  w2 = w2
  Fields <- TwoFields
  Legacy <- PhotosOnly
  Instances <- TwoInstances
  Workers <- TwoWorkers
  MaxChanges = 2
  MaxFaults = 1
  MaxCrashes = 1
SYMMETRY Symmetry
INVARIANTS
  CacheWasCommitted
  CacheIsCurrent
  SavesAreKept
CHECK_DEADLOCK FALSE
