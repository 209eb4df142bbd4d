CONSTANTS
  NumTmcDrivers = 3
  MaxSmartDrivers = 2
  StepClockRate = 400
  StatusFlags = {}
  Loads = {500}
  Intervals = {0}
  CurrentInputs = {}
  MicrostepInputs = {}
  InterpolateInputs = {FALSE}
  ChopInputs = {}
  OffTimeInputs = {}
  ModeInputs = {}
  ThresholdInputs = {}
  StepsPerSecInputs = {}
  FilterInputs = {}
  CoolStepInputs = {}
  KeepInputs = {}
  AxisInputs = {}
  MaxOps = 0
  MaxGlitches = 1
  TickPreemptsSpin = TRUE
SPECIFICATION Spec
PROPERTIES EventuallySynced
