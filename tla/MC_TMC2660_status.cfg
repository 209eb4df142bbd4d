CONSTANTS
  NumTmcDrivers = 1
  MaxSmartDrivers = 2
  StepClockRate = 400
  StatusFlags = {"SG", "OT"}
  Loads = {500}
  Intervals = {0, 2, 3}
  CurrentInputs = {}
  MicrostepInputs = {}
  InterpolateInputs = {}
  ChopInputs = {}
  OffTimeInputs = {}
  ModeInputs = {}
  ThresholdInputs = {}
  StepsPerSecInputs = {0, 100}
  FilterInputs = {}
  CoolStepInputs = {}
  KeepInputs = {{}, {"OT"}}
  AxisInputs = {}
  MaxOps = 3
  MaxGlitches = 0
  TickPreemptsSpin = FALSE
SPECIFICATION Spec
INVARIANT StallReportedOnlyInWindow
