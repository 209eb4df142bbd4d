CONSTANTS
  NumTmcDrivers = 1
  MaxSmartDrivers = 2
  StepClockRate = 400
  StatusFlags = {}
  Loads = {500}
  Intervals = {0}
  CurrentInputs = {3000}
  MicrostepInputs = {}
  InterpolateInputs = {}
  ChopInputs <- MC_ChopInputs
  OffTimeInputs = {}
  ModeInputs = {"randomOffTime", "spreadCycle"}
  ThresholdInputs <- MC_ThresholdInputs
  StepsPerSecInputs = {}
  FilterInputs = {TRUE}
  CoolStepInputs = {3}
  KeepInputs = {}
  AxisInputs = {1}
  MaxOps = 3
  MaxGlitches = 1
  TickPreemptsSpin = FALSE
SPECIFICATION Spec
INVARIANTS TypeOK RegisterCoherence OffTimeEncodesEnable StallConfigRoundTrip
