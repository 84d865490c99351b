SPECIFICATION FairSpec
CONSTANTS
  MaxMeasurements = 2
  Modulus = 3
  Watts = {1}
CHECK_DEADLOCK FALSE
INVARIANTS
  TypeOK
  ReportIsExact
PROPERTIES
  MeasurementsEnd
