CONSTANTS
  NumTmcDrivers = 2
  MaxSmartDrivers = 2
  StepClockRate = 400
  StatusFlags = {"SG", "OT"}
  Loads = {500}
  Intervals = {2}
  CurrentInputs = {}
  MicrostepInputs = {}
  InterpolateInputs = {}
  ChopInputs = {}
  OffTimeInputs = {}
  ModeInputs = {}
  ThresholdInputs = {}
  StepsPerSecInputs = {100}
  FilterInputs = {}
  CoolStepInputs = {}
  KeepInputs = {{}, {"OT"}}
  AxisInputs = {}
  MaxOps = 2
  MaxGlitches = 0
  TickPreemptsSpin = FALSE
SPECIFICATION Spec
INVARIANT NoLostLoadSample
