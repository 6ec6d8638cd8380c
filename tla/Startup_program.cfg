SPECIFICATION Spec
CONSTANTS
  Threads = {t1, t2}
  Executors = {e}
  t1 = t1
  t2 = t2
  e = e
  Numeral <- MCNumeral
  IntBits = 2
  LongBits = 4
  CommandLines <- MCCommandLines
  Switches <- MCSwitches
  Arguments <- MCArguments
  Features <- MCFeatures
  EnabledByDefault <- MCEnabledByDefault
  MaxArgs = 2
INVARIANTS FlagsAsGiven CommandLineExact FeaturesAsGiven ThreadsUseLive
PROPERTY ProgramEnds
CHECK_DEADLOCK FALSE
