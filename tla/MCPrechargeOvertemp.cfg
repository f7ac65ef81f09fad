SPECIFICATION FairSpec
CONSTANTS
  MaxVoltage <- MCMaxVoltage
  MinAccVoltage <- MCMinAccVoltage
  TargetPercent <- MCTargetPercent
  Hysteresis <- MCHysteresis
  MinTime <- MCMinTime
  BmsTimeout <- LiveBmsTimeout
  MinGap <- MCMinGap
  MaxGap <- LiveMaxGap
PROPERTIES OvertemperatureOpens
