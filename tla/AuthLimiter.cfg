\* One busy source and another that competes for the one place in the table.
CONSTANTS
  s1 = s1  s2 = s2
  a1 = a1  a2 = a2  a3 = a3  a4 = a4  a5 = a5
  Source = {s1, s2}
  Attempt = {a1, a2, a3, a4, a5}
  SourceOf <- TwoSources
  GoodToken = {a5}
  Threshold = 2
  Window = 3
  MaxSources = 1
  MaxConcurrent = 2
  MaxSkew = 1
  MaxTime = 6
SPECIFICATION LimiterSpec
INVARIANTS BlocksExactly GuessesBounded Bounded
SYMMETRY Interchangeable
CHECK_DEADLOCK FALSE
