CONSTANTS
  NumTmcDrivers = 3
  MaxSmartDrivers = 2
  StepClockRate = 400
  StatusFlags = {}
  Loads = {500}
  Intervals = {0}
  CurrentInputs = {1000}
  MicrostepInputs = {}
  InterpolateInputs = {FALSE}
  ChopInputs = {}
  OffTimeInputs = {}
  ModeInputs = {}
  ThresholdInputs = {}
  StepsPerSecInputs = {}
  FilterInputs = {}
  CoolStepInputs = {}
  KeepInputs = {}
  AxisInputs = {}
  MaxOps = 1
  MaxGlitches = 2
  TickPreemptsSpin = FALSE
SPECIFICATION Spec
PROPERTIES EventuallySynced
