SPECIFICATION Spec
CONSTANTS
  a = a
  b = b
  c = c
  i1 = i1
  i2 = i2
  w1 = w1
  w2 = w2
  Words <- ThreeWords
  Instances <- TwoInstances
  Workers <- TwoWorkers
  MaxChanges = 3
  MaxFaults = 1
  MaxCrashes = 1
  Letters <- SmallLetters
  LowerCase <- Capitals
  ShortWord = 3
  LongWord = 4
  Spelled <- Spellings
  Domain <- Domains
  Symbols <- TextSymbols
  MaxText = 7
  Labels <- HostLabels
  MaxLabels = 3
SYMMETRY Symmetry
INVARIANTS
  CachedWasStored
  CachedIsCurrent
  BadWordsAreFound
  
