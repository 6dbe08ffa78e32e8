\* Three cores and four steps of the host between two readings; lines of
\* /proc/meminfo of up to two kilobytes, and words of six bits.
SPECIFICATION Spec
CONSTANTS
  Cores <- ThreeCores
  Start = 1
  MaxSteps = 4
  Amounts <- Few
  Kilo = 2
  Word = 64
INVARIANTS TypeOK UtilizationProper UtilizationTrue PerCoreInPlace MemoryAddsUp EstimateNotOptimistic
