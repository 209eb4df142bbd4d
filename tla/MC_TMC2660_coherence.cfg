CONSTANTS
  NumTmcDrivers = 3
  MaxSmartDrivers = 2
  StepClockRate = 400
  StatusFlags = {}
  Loads = {500}
  Intervals = {0}
  CurrentInputs = {}
  MicrostepInputs = {32, 3, 512}
  InterpolateInputs = {FALSE}
  ChopInputs = {}
  OffTimeInputs = {0, 5}
  ModeInputs = {}
  ThresholdInputs = {}
  StepsPerSecInputs = {}
  FilterInputs = {}
  CoolStepInputs = {}
  KeepInputs = {}
  AxisInputs = {}
  MaxOps = 2
  MaxGlitches = 1
  TickPreemptsSpin = FALSE
SPECIFICATION Spec
INVARIANTS TypeOK RegisterCoherence OffTimeEncodesEnable EnableLineMatchesPower MicrostepReportMatchesChip
