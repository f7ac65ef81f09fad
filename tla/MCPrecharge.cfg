SPECIFICATION Spec
CONSTANTS
  MaxVoltage <- MCMaxVoltage
  MinAccVoltage <- MCMinAccVoltage
  TargetPercent <- MCTargetPercent
  Hysteresis <- MCHysteresis
  MinTime <- MCMinTime
  BmsTimeout <- MCBmsTimeout
  MinGap <- MCMinGap
  MaxGap <- MCMaxGap
INVARIANTS TypeOK PrechargeStartsOpen OnlineReportsComplete SilentChargerOpens ErrorOpensWithCode
PROPERTIES ErrorIsLatched ContactorPromise
