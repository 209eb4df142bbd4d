------------------------------- MODULE TMC2660 -------------------------------
(***************************************************************************)
(* The TMC2660 smart-driver subsystem of src/Movement/StepperDrivers/      *)
(* TMC2660.cpp: a shadow of the five writable registers of every driver    *)
(* chip with a dirty mask, an SPI ring driven by the end-of-transfer ISR   *)
(* that sends one register per frame and decodes the returned status, and *)
(* the power lifecycle (Spin, TurnDriversOff).                             *)
(*                                                                         *)
(* Three execution contexts interleave.  The main thread runs one public   *)
(* call at a time; each call is cut into the steps between which an        *)
(* interrupt can really occur (a read-modify-write of a volatile word is a *)
(* load step and a store step).  The SPI ISR and the tick ISR run to       *)
(* completion, so each is one atomic action.                               *)
(*                                                                         *)
(* Data is abstracted to what the properties tell apart: a register value  *)
(* is a record of its fields, a status word is the set of its flag bits    *)
(* plus the 10-bit StallGuard load, the chip is the register file the      *)
(* chip latched.  The power supply (VIN) and the Platform's power flag are *)
(* the environment.                                                        *)
(***************************************************************************)
EXTENDS Integers, FiniteSets
LOCAL INSTANCE FiniteSetsExt

CONSTANTS
  NumTmcDrivers,         \* numTmcDrivers passed to SmartDrivers::Init
  MaxSmartDrivers,       \* compile-time size of driverStates[]
  StepClockRate,         \* step clock frequency (scaled down for the model)
  StatusFlags,           \* status flags a chip may return, e.g. {"SG","OT"}
  Loads,                 \* StallGuard load values a chip may return
  Intervals,             \* full-step intervals Move::GetStepInterval may return
  CurrentInputs,         \* inputs of SetCurrent (mA)
  MicrostepInputs,       \* inputs of SetMicrostepping (microsteps)
  InterpolateInputs,     \* interpolate arguments of SetMicrostepping
  ChopInputs,            \* inputs of SetChopperControlRegister
  OffTimeInputs,         \* inputs of SetOffTime
  ModeInputs,            \* inputs of SetDriverMode
  ThresholdInputs,       \* inputs of SetStallThreshold
  StepsPerSecInputs,     \* inputs of SetStallMinimumStepsPerSecond
  FilterInputs,          \* inputs of SetStallFilter
  CoolStepInputs,        \* inputs of SetCoolStep
  KeepInputs,            \* bitsToKeep arguments of GetAccumulatedStatus
  AxisInputs,            \* inputs of SetAxisNumber
  MaxOps,                \* bound on public calls other than Spin
  MaxGlitches,           \* bound on VIN failures
  TickPreemptsSpin       \* may the tick ISR run while Spin is executing?

ASSUME /\ NumTmcDrivers \in Nat /\ MaxSmartDrivers \in Nat \ {0}
       /\ StepClockRate \in Nat \ {0}
       /\ MaxOps \in Nat /\ MaxGlitches \in Nat
       /\ TickPreemptsSpin \in BOOLEAN

MinOf(a, b) == IF a < b THEN a ELSE b
MaxOf(a, b) == IF a > b THEN a ELSE b
Clamp(x, lo, hi) == MaxOf(lo, MinOf(x, hi))

\* SmartDrivers::Init clamps the driver count to the array size
numTmc2660Drivers == MinOf(NumTmcDrivers, MaxSmartDrivers)
Drivers == 0 .. numTmc2660Drivers - 1
None == -1

\* Register numbers, in priority order (TmcDriverState)
DriveControl == 0
StallGuardConfig == 1
ChopperControl == 2
DriveConfig == 3
SmartEnable == 4
Regs == 0 .. 4
UpdateAllRegisters == Regs

\* Register values as records of the fields the code writes
DrvCtrlValues == [mres : 0 .. 15, intpol : BOOLEAN]
SgcsValues == [cs : 0 .. 31, sgt : 0 .. 127, sfilt : BOOLEAN]
ChopValues == [toff : 0 .. 15, tbl : 0 .. 3, chm : BOOLEAN, rndtf : BOOLEAN]
DrvConfValues == {[rdsel |-> 1, vsense |-> TRUE, ts2g |-> 3]}
SmartEnValues == [coolStep : {0} \cup CoolStepInputs]
RegValue == DrvCtrlValues \cup SgcsValues \cup ChopValues
              \cup DrvConfValues \cup SmartEnValues
Reset == [por |-> TRUE]      \* chip register content after power-on reset

defaultChopConfReg == [toff |-> 4, tbl |-> 2, chm |-> FALSE, rndtf |-> FALSE]
defaultSgscConfReg == [cs |-> 0, sgt |-> 1, sfilt |-> FALSE]
defaultDrvConfReg == [rdsel |-> 1, vsense |-> TRUE, ts2g |-> 3]
defaultDrvCtrlReg == [mres |-> 4, intpol |-> TRUE]
defaultSmartEnReg == [coolStep |-> 0]
DefaultMinimumStepsPerSecond == 200

SG == "SG"

VARIABLES
  \* TmcDriverState, per driver
  registers, registersToUpdate, configuredChopConfReg, enabled,
  microstepShiftFactor, axisNumber, maxStallStepInterval,
  minSgLoadRegister, maxSgLoadRegister, lastReadStatus, accumulatedStatus,
  \* file-static state shared with the ISR
  currentDriver, spiDataOut, driversPowered, enablePin,
  \* main thread: program counter and the locals of the call in progress
  pc, mDrv, mReg, mVal, mTmp, wasPowered, spinArg, wIdx, opsDone,
  \* environment: chip register files, supply voltage, Platform's flag
  chip, vin, platformPowered, glitches,
  \* history: status bits reported by the ISR and not yet consumed by a
  \* reader; the load samples taken since AppendDriverStatus last read
  \* the load window; the minimum stall step rate last configured; whether
  \* the specification's stall window, applied to the last frame the ISR
  \* decoded, lets its SG bit through (cleared by Enable)
  raised, unreportedLoads, stallSps, sgExpected

drvVars == <<registers, registersToUpdate, configuredChopConfReg, enabled,
             microstepShiftFactor, axisNumber, maxStallStepInterval, minSgLoadRegister,
             maxSgLoadRegister, lastReadStatus, accumulatedStatus>>
busVars == <<currentDriver, spiDataOut, driversPowered, enablePin>>
mainVars == <<pc, mDrv, mReg, mVal, mTmp, wasPowered, spinArg, wIdx, opsDone>>
envVars == <<chip, vin, platformPowered, glitches>>
auxVars == <<raised, unreportedLoads, stallSps, sgExpected>>
vars == <<drvVars, busVars, mainVars, envVars, auxVars>>

SpinPcs == {"spinWrite", "spinEnable", "spinWriteAll", "spinKick", "spinDisable"}

TypeOK ==
  /\ registers \in [Drivers -> [Regs -> RegValue]]
  /\ registersToUpdate \in [Drivers -> SUBSET Regs]
  /\ configuredChopConfReg \in [Drivers -> ChopValues]
  /\ enabled \in [Drivers -> BOOLEAN]
  /\ microstepShiftFactor \in [Drivers -> 0 .. 8]
  /\ axisNumber \in [Drivers -> Nat]
  /\ maxStallStepInterval \in [Drivers -> Nat]
  /\ minSgLoadRegister \in [Drivers -> 0 .. 1023]
  /\ maxSgLoadRegister \in [Drivers -> 0 .. 1023]
  /\ lastReadStatus \in [Drivers -> SUBSET StatusFlags]
  /\ accumulatedStatus \in [Drivers -> SUBSET StatusFlags]
  /\ currentDriver \in Drivers \cup {None}
  /\ spiDataOut \in [reg : Regs, val : RegValue]
  /\ driversPowered \in BOOLEAN
  /\ enablePin \in {"HIGH", "LOW"}
  /\ pc \in {"idle", "dirtyLoad", "dirtyStore", "enAccLoad", "enAccStore",
             "enLastLoad", "enLastStore", "enSet", "asResetMin",
             "asResetMax"} \cup SpinPcs
  /\ chip \in [Drivers -> [Regs -> RegValue \cup {Reset}]]
  /\ vin \in BOOLEAN /\ platformPowered \in BOOLEAN
  /\ opsDone \in 0 .. MaxOps /\ glitches \in 0 .. MaxGlitches
  /\ raised \in [Drivers -> SUBSET StatusFlags]
  /\ unreportedLoads \in [Drivers -> SUBSET Loads]
  /\ stallSps \in [Drivers -> Nat]
  /\ sgExpected \in [Drivers -> BOOLEAN]

(***************************************************************************)
(* Initial state: after SmartDrivers::Init and TmcDriverState::Init with   *)
(* driversPowered false, ENN high, every register dirty, the driver        *)
(* disabled (shadow CHOPCONF with TOFF = 0).  VIN is present; the chips    *)
(* hold their power-on-reset content.                                      *)
(***************************************************************************)
Init ==
  /\ registers = [d \in Drivers |->
                   [r \in Regs |->
                     CASE r = DriveControl     -> defaultDrvCtrlReg
                       [] r = StallGuardConfig -> defaultSgscConfReg
                       [] r = ChopperControl   -> [defaultChopConfReg EXCEPT !.toff = 0]
                       [] r = DriveConfig      -> defaultDrvConfReg
                       [] r = SmartEnable      -> defaultSmartEnReg]]
  /\ registersToUpdate = [d \in Drivers |-> UpdateAllRegisters]
  /\ configuredChopConfReg = [d \in Drivers |-> defaultChopConfReg]
  /\ enabled = [d \in Drivers |-> FALSE]
  /\ microstepShiftFactor = [d \in Drivers |-> 4]
  /\ axisNumber = [d \in Drivers |-> d]
  /\ maxStallStepInterval = [d \in Drivers |-> StepClockRate \div DefaultMinimumStepsPerSecond]
  /\ minSgLoadRegister = [d \in Drivers |-> 1023]
  /\ maxSgLoadRegister = [d \in Drivers |-> 0]
  /\ lastReadStatus = [d \in Drivers |-> {}]
  /\ accumulatedStatus = [d \in Drivers |-> {}]
  /\ currentDriver = None
  /\ spiDataOut = [reg |-> SmartEnable, val |-> defaultSmartEnReg]
  /\ driversPowered = FALSE
  /\ enablePin = "HIGH"
  /\ pc = "idle" /\ mDrv = 0 /\ mReg = 0 /\ mVal = FALSE /\ mTmp = {}
  /\ wasPowered = FALSE /\ spinArg = FALSE /\ wIdx = 0 /\ opsDone = 0
  /\ chip = [d \in Drivers |-> [r \in Regs |-> Reset]]
  /\ vin = TRUE /\ platformPowered = TRUE /\ glitches = 0
  /\ raised = [d \in Drivers |-> {}]
  /\ unreportedLoads = [d \in Drivers |-> {}]
  /\ stallSps = [d \in Drivers |-> DefaultMinimumStepsPerSecond]
  /\ sgExpected = [d \in Drivers |-> FALSE]

-----------------------------------------------------------------------------
(***************************************************************************)
(* Register model helpers                                                  *)
(***************************************************************************)
MaximumMotorCurrent == 2400

\* SetMicrostepping: number of right shifts that bring microsteps to odd
RECURSIVE TrailingZeros(_)
TrailingZeros(m) == IF m % 2 = 0 THEN 1 + TrailingZeros(m \div 2) ELSE 0

\* SetCurrent: 5-bit current scale for a 0.051 ohm sense resistor
CurrentScale(current) ==
  LET iCurrent == Clamp(current, 100, MaximumMotorCurrent)
  IN ((32 * iCurrent - 1600) \div 3236) % 32

\* Mutant: the two's complement is not truncated to the 7-bit field
StallThresholdBitsNoMask(t) == Clamp(t, -64, 63)

\* SetStallDetectThreshold: 7-bit two's complement of the clamped threshold
StallThresholdBits(t) == Clamp(t, -64, 63) % 128

\* Mutant: the sign fix starts one value too high
StallConfigThresholdOffByOne(bits) == IF bits > 64 THEN bits - 128 ELSE bits

\* AppendStallConfig: the signed threshold read back from the SGT field
StallConfigThreshold(bits) == IF bits >= 64 THEN bits - 128 ELSE bits

\* Mutant: only TOFF = 1 with TBL = 0 is refused
ChopConfLegalNoZero(v) == ~(v.toff = 1 /\ v.tbl = 0)

\* SetChopConf's legality test: TOFF = 0, or TOFF = 1 with TBL = 0, refused
ChopConfLegal(v) == ~(v.toff = 0 \/ (v.toff = 1 /\ v.tbl = 0))

\* Mutant: a disabled driver keeps the configured TOFF
ChopShadowNoOff(conf, en) == conf

\* UpdateChopConfRegister: the shadow CHOPCONF for an enable state
ChopShadow(conf, en) == IF en THEN conf ELSE [conf EXCEPT !.toff = 0]

(***************************************************************************)
(* Bus scheduler                                                           *)
(***************************************************************************)
\* Mutant: the whole dirty mask is cleared when one register is sent
StartTransferClearAll(d) ==
  LET dirty == registersToUpdate[d]
      regNum == IF dirty = {} THEN SmartEnable ELSE Min(dirty)
  IN /\ currentDriver' = d
     /\ registersToUpdate' = [registersToUpdate EXCEPT ![d] = {}]
     /\ spiDataOut' = [reg |-> regNum, val |-> registers[d][regNum]]

\* StartTransfer: publish currentDriver, send the most urgent dirty
\* register (or SmartEnable as keep-alive) and clear its dirty bit
StartTransfer(d) ==
  LET dirty == registersToUpdate[d]
      regNum == IF dirty = {} THEN SmartEnable ELSE Min(dirty)
  IN /\ currentDriver' = d
     /\ registersToUpdate' = [registersToUpdate EXCEPT ![d] = dirty \ {regNum}]
     /\ spiDataOut' = [reg |-> regNum, val |-> registers[d][regNum]]

\* The stall window of the specification (Driver State and step 2 of the
\* reply decoding), stated with the configured rate rather than the
\* interval SetStallMinimumStepsPerSecond derives from it
InStallWindow(interval, sps) ==
  interval # 0 /\ interval * MaxOf(sps, 1) <= StepClockRate

\* Mutant: a motor stepping at exactly the slowest detectable rate is
\* treated as too slow
StallWindowStrict(d, interval) ==
  interval # 0 /\ interval < maxStallStepInterval[d]

\* The negation of line 534: the motor steps and is fast enough for a
\* reliable stall indication
StallWindow(d, interval) ==
  interval # 0 /\ interval <= maxStallStepInterval[d]

\* TransferDone, status part: the reply decoded while the drivers are
\* powered; SG is dropped and the load ignored outside the stall window
DecodeStatus(d, flags, load, interval) ==
  LET inWindow == StallWindow(d, interval)
      status == IF inWindow THEN flags ELSE flags \ {SG}
  IN /\ lastReadStatus' = [lastReadStatus EXCEPT ![d] = status]
     /\ accumulatedStatus' = [accumulatedStatus EXCEPT ![d] = @ \cup status]
     /\ raised' = [raised EXCEPT ![d] = @ \cup status]
     /\ minSgLoadRegister' = IF inWindow
                               THEN [minSgLoadRegister EXCEPT ![d] = MinOf(@, load)]
                               ELSE minSgLoadRegister
     /\ maxSgLoadRegister' = IF inWindow
                               THEN [maxSgLoadRegister EXCEPT ![d] = MaxOf(@, load)]
                               ELSE maxSgLoadRegister
     /\ unreportedLoads' = IF inWindow
                           THEN [unreportedLoads EXCEPT ![d] = @ \cup {load}]
                           ELSE unreportedLoads
     /\ sgExpected' = [sgExpected EXCEPT
                         ![d] = SG \in flags /\ InStallWindow(interval, stallSps[d])]

\* CS goes high at the end of the frame: a powered chip latches the word
LatchFrame(d) ==
  chip' = IF vin THEN [chip EXCEPT ![d][spiDataOut.reg] = spiDataOut.val]
                 ELSE chip

\* Mutant: the ring wraps one driver early
NextDriverShort(d) == (d + 1) % MaxOf(numTmc2660Drivers - 1, 1)

\* The ring successor of a driver
NextDriver(d) == (d + 1) % numTmc2660Drivers

\* TMC2660_SPI_Handler: the end-of-receive ISR
SpiIsr ==
  /\ currentDriver # None
  /\ LatchFrame(currentDriver)
  /\ IF driversPowered
       THEN /\ \E flags \in SUBSET StatusFlags, load \in Loads,
                  interval \in Intervals :
                 DecodeStatus(currentDriver, flags, load, interval)
            /\ StartTransfer(NextDriver(currentDriver))
       ELSE /\ currentDriver' = None
            /\ UNCHANGED <<lastReadStatus, accumulatedStatus, raised,
                           minSgLoadRegister, maxSgLoadRegister, unreportedLoads,
                           sgExpected, registersToUpdate, spiDataOut>>
  /\ UNCHANGED <<registers, configuredChopConfReg, enabled,
                 microstepShiftFactor, axisNumber, maxStallStepInterval,
                 driversPowered, enablePin, mainVars, vin,
                 platformPowered, glitches, stallSps>>

(***************************************************************************)
(* Main thread.  Idle resets the locals of the finished call.              *)
(***************************************************************************)
Idle ==
  /\ pc' = "idle" /\ mDrv' = 0 /\ mReg' = 0 /\ mVal' = FALSE /\ mTmp' = {}
  /\ wasPowered' = FALSE /\ spinArg' = FALSE /\ wIdx' = 0

\* A public call other than Spin starts; the driver index was checked
\* against numTmc2660Drivers by the SmartDrivers facade
BeginCall == pc = "idle" /\ opsDone < MaxOps /\ opsDone' = opsDone + 1

\* Store of a shadow register; the dirty bit is set in the next two steps
WriteRegister(d, r, v) ==
  /\ registers' = [registers EXCEPT ![d][r] = v]
  /\ pc' = "dirtyLoad" /\ mDrv' = d /\ mReg' = r

\* registersToUpdate |= 1u << r: a load ...
DirtyLoad ==
  /\ pc = "dirtyLoad"
  /\ mTmp' = registersToUpdate[mDrv]
  /\ pc' = "dirtyStore"
  /\ UNCHANGED <<drvVars, busVars, mDrv, mReg, mVal, wasPowered, spinArg,
                 wIdx, opsDone, envVars, auxVars>>

\* ... and a store of the value loaded, with the bit added
DirtyStore ==
  /\ pc = "dirtyStore"
  /\ registersToUpdate' = [registersToUpdate EXCEPT ![mDrv] = mTmp \cup {mReg}]
  /\ Idle
  /\ UNCHANGED <<registers, configuredChopConfReg, enabled,
                 microstepShiftFactor, axisNumber, maxStallStepInterval,
                 minSgLoadRegister, maxSgLoadRegister, lastReadStatus,
                 accumulatedStatus, busVars, opsDone, envVars, auxVars>>

\* Variables a register setter's first step leaves alone
SetterUnchanged ==
  UNCHANGED <<registersToUpdate, enabled, maxStallStepInterval,
              minSgLoadRegister, maxSgLoadRegister, lastReadStatus,
              accumulatedStatus, busVars, mVal, mTmp, wasPowered, spinArg,
              wIdx, envVars, auxVars>>

\* SmartDrivers::SetCurrent -> TmcDriverState::SetCurrent
SetCurrent(d, current) ==
  /\ BeginCall
  /\ WriteRegister(d, StallGuardConfig,
                   [registers[d][StallGuardConfig] EXCEPT !.cs = CurrentScale(current)])
  /\ UNCHANGED <<configuredChopConfReg, microstepShiftFactor, axisNumber>>
  /\ SetterUnchanged

\* Mutant: the facade does not refuse a shift beyond 256 microsteps
SetMicrosteppingNoLimit(d, microsteps, interpolate) ==
  LET shift == TrailingZeros(microsteps)
  IN /\ microsteps > 0
     /\ microsteps \div (2 ^ shift) = 1
     /\ BeginCall
     /\ microstepShiftFactor' = [microstepShiftFactor EXCEPT ![d] = shift]
     /\ WriteRegister(d, DriveControl,
                      [mres |-> (8 - shift) % 16, intpol |-> interpolate])
     /\ UNCHANGED <<configuredChopConfReg, axisNumber>>
     /\ SetterUnchanged

\* SmartDrivers::SetMicrostepping: only a power of two up to 256 is accepted
\* (a refused call changes nothing); then TmcDriverState::SetMicrostepping
SetMicrostepping(d, microsteps, interpolate) ==
  LET shift == TrailingZeros(microsteps)
  IN /\ microsteps > 0
     /\ microsteps \div (2 ^ shift) = 1 /\ shift <= 8
     /\ BeginCall
     /\ microstepShiftFactor' = [microstepShiftFactor EXCEPT ![d] = shift]
     /\ WriteRegister(d, DriveControl,
                      [mres |-> (8 - shift) % 16, intpol |-> interpolate])
     /\ UNCHANGED <<configuredChopConfReg, axisNumber>>
     /\ SetterUnchanged

\* TmcDriverState::SetChopConf (refuses an illegal TOFF/TBL) followed by
\* UpdateChopConfRegister, which keeps the current enable state
SetChopConf(d, v) ==
  /\ ChopConfLegal(v)
  /\ BeginCall
  /\ configuredChopConfReg' = [configuredChopConfReg EXCEPT ![d] = v]
  /\ WriteRegister(d, ChopperControl, ChopShadow(v, enabled[d]))
  /\ UNCHANGED <<microstepShiftFactor, axisNumber>>
  /\ SetterUnchanged

\* SmartDrivers::SetChopperControlRegister
SetChopperControlRegister(d, ccr) == SetChopConf(d, ccr)

\* SetOffTime: TOFF replaced in the configured chopper register
SetOffTime(d, n) ==
  /\ n <= 15
  /\ SetChopConf(d, [configuredChopConfReg[d] EXCEPT !.toff = n])

\* SetDriverMode: CHM and RNDTF of the configured chopper register
DriverModeBits == [constantOffTime |-> [chm |-> TRUE, rndtf |-> FALSE],
                   randomOffTime   |-> [chm |-> TRUE, rndtf |-> TRUE],
                   spreadCycle     |-> [chm |-> FALSE, rndtf |-> FALSE]]
SetDriverMode(d, mode) ==
  /\ mode \in DOMAIN DriverModeBits
  /\ SetChopConf(d, [configuredChopConfReg[d] EXCEPT
                       !.chm = DriverModeBits[mode].chm,
                       !.rndtf = DriverModeBits[mode].rndtf])

\* SetStallDetectThreshold
SetStallThreshold(d, t) ==
  /\ BeginCall
  /\ WriteRegister(d, StallGuardConfig,
                   [registers[d][StallGuardConfig] EXCEPT !.sgt = StallThresholdBits(t)])
  /\ UNCHANGED <<configuredChopConfReg, microstepShiftFactor, axisNumber>>
  /\ SetterUnchanged

\* SetStallDetectFilter
SetStallFilter(d, f) ==
  /\ BeginCall
  /\ WriteRegister(d, StallGuardConfig,
                   [registers[d][StallGuardConfig] EXCEPT !.sfilt = f])
  /\ UNCHANGED <<configuredChopConfReg, microstepShiftFactor, axisNumber>>
  /\ SetterUnchanged

\* SetCoolStep
SetCoolStep(d, c) ==
  /\ BeginCall
  /\ WriteRegister(d, SmartEnable, [coolStep |-> c])
  /\ UNCHANGED <<configuredChopConfReg, microstepShiftFactor, axisNumber>>
  /\ SetterUnchanged

\* SetStallMinimumStepsPerSecond: one store, read by the ISR
SetStallMinimumStepsPerSecond(d, sps) ==
  /\ BeginCall
  /\ maxStallStepInterval' = [maxStallStepInterval EXCEPT
                                ![d] = StepClockRate \div MaxOf(sps, 1)]
  /\ stallSps' = [stallSps EXCEPT ![d] = sps]
  /\ UNCHANGED <<registers, registersToUpdate, configuredChopConfReg, enabled,
                 microstepShiftFactor, axisNumber, minSgLoadRegister, maxSgLoadRegister,
                 lastReadStatus, accumulatedStatus, busVars, pc, mDrv, mReg,
                 mVal, mTmp, wasPowered, spinArg, wIdx, envVars, raised,
                 unreportedLoads, sgExpected>>

\* SmartDrivers::SetAxisNumber: one store.  The ISR reads axisNumber to ask
\* Move for the step interval, which the model takes from Intervals.
SetAxisNumber(d, a) ==
  /\ BeginCall
  /\ axisNumber' = [axisNumber EXCEPT ![d] = a]
  /\ UNCHANGED <<registers, registersToUpdate, configuredChopConfReg, enabled,
                 microstepShiftFactor, maxStallStepInterval, minSgLoadRegister,
                 maxSgLoadRegister, lastReadStatus, accumulatedStatus, busVars,
                 pc, mDrv, mReg, mVal, mTmp, wasPowered, spinArg, wIdx,
                 envVars, auxVars>>

(***************************************************************************)
(* TmcDriverState::Enable.  A change to enabled clears SG in the status    *)
(* words first (when enabling), each with a load and a store that the SPI  *)
(* ISR may separate, then stores enabled and rewrites the shadow CHOPCONF. *)
(* Enable(x) in state x is a no-op, so the call is taken only on a change. *)
(***************************************************************************)
EnableDrive(d, en) ==
  /\ enabled[d] # en
  /\ BeginCall
  /\ pc' = IF en THEN "enAccLoad" ELSE "enSet"
  /\ mDrv' = d /\ mVal' = en
  /\ UNCHANGED <<drvVars, busVars, mReg, mTmp, wasPowered, spinArg, wIdx,
                 envVars, auxVars>>

\* accumulatedStatus &= ~TMC_RR_SG: load ...
EnAccLoad ==
  /\ pc = "enAccLoad"
  /\ mTmp' = accumulatedStatus[mDrv]
  /\ pc' = "enAccStore"
  /\ UNCHANGED <<drvVars, busVars, mDrv, mReg, mVal, wasPowered, spinArg,
                 wIdx, opsDone, envVars, auxVars>>

\* ... store; the stall bit counts as consumed from here on
EnAccStore ==
  /\ pc = "enAccStore"
  /\ accumulatedStatus' = [accumulatedStatus EXCEPT ![mDrv] = mTmp \ {SG}]
  /\ raised' = [raised EXCEPT ![mDrv] = @ \ {SG}]
  /\ pc' = "enLastLoad"
  /\ UNCHANGED <<registers, registersToUpdate, configuredChopConfReg, enabled,
                 microstepShiftFactor, axisNumber, maxStallStepInterval,
                 minSgLoadRegister, maxSgLoadRegister, lastReadStatus,
                 busVars, mDrv, mReg, mVal, mTmp, wasPowered, spinArg, wIdx,
                 opsDone, envVars, unreportedLoads, stallSps, sgExpected>>

\* lastReadStatus &= ~TMC_RR_SG: load ...
EnLastLoad ==
  /\ pc = "enLastLoad"
  /\ mTmp' = lastReadStatus[mDrv]
  /\ pc' = "enLastStore"
  /\ UNCHANGED <<drvVars, busVars, mDrv, mReg, mVal, wasPowered, spinArg,
                 wIdx, opsDone, envVars, auxVars>>

\* ... store
EnLastStore ==
  /\ pc = "enLastStore"
  /\ lastReadStatus' = [lastReadStatus EXCEPT ![mDrv] = mTmp \ {SG}]
  /\ sgExpected' = [sgExpected EXCEPT ![mDrv] = FALSE]
  /\ pc' = "enSet"
  /\ UNCHANGED <<registers, registersToUpdate, configuredChopConfReg, enabled,
                 microstepShiftFactor, axisNumber, maxStallStepInterval,
                 minSgLoadRegister, maxSgLoadRegister, accumulatedStatus,
                 busVars, mDrv, mReg, mVal, mTmp, wasPowered, spinArg, wIdx,
                 opsDone, envVars, raised, unreportedLoads, stallSps>>

\* enabled = en; UpdateChopConfRegister() writes the shadow CHOPCONF
\* (the ISR reads neither enabled nor configuredChopConfReg, so the two
\* stores are one step)
EnSet ==
  /\ pc = "enSet"
  /\ enabled' = [enabled EXCEPT ![mDrv] = mVal]
  /\ WriteRegister(mDrv, ChopperControl,
                   ChopShadow(configuredChopConfReg[mDrv], mVal))
  /\ UNCHANGED <<registersToUpdate, configuredChopConfReg,
                 microstepShiftFactor, axisNumber, maxStallStepInterval,
                 minSgLoadRegister, maxSgLoadRegister, lastReadStatus,
                 accumulatedStatus, busVars, mVal, mTmp, wasPowered, spinArg,
                 wIdx, opsDone, envVars, auxVars>>

(***************************************************************************)
(* Status readers                                                          *)
(***************************************************************************)
\* ReadLiveStatus (no state change): SG hidden while disabled
LiveStatus(d) == IF enabled[d] THEN lastReadStatus[d] ELSE lastReadStatus[d] \ {SG}

\* Mutant: the bits not kept are reported but left in accumulatedStatus
GetAccumulatedStatusNoClear(d, bitsToKeep) ==
  LET keep == IF enabled[d] THEN bitsToKeep ELSE bitsToKeep \ {SG}
  IN /\ BeginCall
     /\ raised' = [raised EXCEPT ![d] = @ \cap keep]
     /\ UNCHANGED <<registers, registersToUpdate, configuredChopConfReg,
                    enabled, microstepShiftFactor, axisNumber, maxStallStepInterval,
                    minSgLoadRegister, maxSgLoadRegister, lastReadStatus,
                    accumulatedStatus, busVars, pc, mDrv, mReg, mVal, mTmp,
                    wasPowered, spinArg, wIdx, envVars, unreportedLoads,
                    stallSps, sgExpected>>

\* ReadAccumulatedStatus: under cpu_irq_save, keep only bitsToKeep (and
\* drop SG of a disabled driver); what is not kept counts as consumed
GetAccumulatedStatus(d, bitsToKeep) ==
  LET keep == IF enabled[d] THEN bitsToKeep ELSE bitsToKeep \ {SG}
  IN /\ BeginCall
     /\ accumulatedStatus' = [accumulatedStatus EXCEPT ![d] = @ \cap keep]
     /\ raised' = [raised EXCEPT ![d] = @ \cap keep]
     /\ UNCHANGED <<registers, registersToUpdate, configuredChopConfReg,
                    enabled, microstepShiftFactor, axisNumber, maxStallStepInterval,
                    minSgLoadRegister, maxSgLoadRegister, lastReadStatus,
                    busVars, pc, mDrv, mReg, mVal, mTmp, wasPowered, spinArg,
                    wIdx, envVars, unreportedLoads, stallSps, sgExpected>>

\* AppendDriverStatus: read lastReadStatus and the load window (the text is
\* not modelled), then ResetLoadRegisters stores min and max separately
AppendDriverStatus(d) ==
  /\ BeginCall
  /\ pc' = "asResetMin" /\ mDrv' = d
  /\ unreportedLoads' = [unreportedLoads EXCEPT ![d] = {}]
  /\ UNCHANGED <<drvVars, busVars, mReg, mVal, mTmp, wasPowered, spinArg,
                 wIdx, envVars, raised, stallSps, sgExpected>>

AsResetMin ==
  /\ pc = "asResetMin"
  /\ minSgLoadRegister' = [minSgLoadRegister EXCEPT ![mDrv] = 1023]
  /\ pc' = "asResetMax"
  /\ UNCHANGED <<registers, registersToUpdate, configuredChopConfReg, enabled,
                 microstepShiftFactor, axisNumber, maxStallStepInterval,
                 maxSgLoadRegister, lastReadStatus, accumulatedStatus,
                 busVars, mDrv, mReg, mVal, mTmp, wasPowered, spinArg, wIdx,
                 opsDone, envVars, raised, unreportedLoads, stallSps,
                 sgExpected>>

AsResetMax ==
  /\ pc = "asResetMax"
  /\ maxSgLoadRegister' = [maxSgLoadRegister EXCEPT ![mDrv] = 0]
  /\ Idle
  /\ UNCHANGED <<registers, registersToUpdate, configuredChopConfReg, enabled,
                 microstepShiftFactor, axisNumber, maxStallStepInterval,
                 minSgLoadRegister, lastReadStatus, accumulatedStatus,
                 busVars, opsDone, envVars, auxVars>>

(***************************************************************************)
(* SmartDrivers::Spin(powered), called periodically by the main loop with  *)
(* the Platform's power flag.                                              *)
(***************************************************************************)
SpinUnchanged ==
  UNCHANGED <<registers, configuredChopConfReg, enabled, microstepShiftFactor, axisNumber,
              maxStallStepInterval, minSgLoadRegister, maxSgLoadRegister,
              lastReadStatus, accumulatedStatus, mDrv, mReg, mVal, mTmp,
              opsDone, chip, vin, glitches, auxVars>>

\* The main loop samples VIN into the Platform's flag and calls Spin with it;
\* const bool wasPowered = driversPowered
Spin ==
  /\ pc = "idle"
  /\ platformPowered' = vin
  /\ wasPowered' = driversPowered /\ spinArg' = vin
  /\ pc' = "spinWrite"
  /\ UNCHANGED <<registersToUpdate, busVars, wIdx>>
  /\ SpinUnchanged

\* driversPowered = powered, then the branch on powered and wasPowered
SpinWrite ==
  /\ pc = "spinWrite"
  /\ driversPowered' = spinArg
  /\ pc' = CASE spinArg /\ ~wasPowered -> "spinEnable"
             [] spinArg /\ wasPowered  -> "spinKick"
             [] ~spinArg /\ wasPowered -> "spinDisable"
             [] OTHER                  -> "idle"
  /\ UNCHANGED <<registersToUpdate, currentDriver, spiDataOut, enablePin,
                 wasPowered, spinArg, wIdx>>
  /\ UNCHANGED platformPowered
  /\ SpinUnchanged

\* digitalWrite(GlobalTmc2660EnablePin, LOW); delayMicroseconds(10)
SpinEnable ==
  /\ pc = "spinEnable"
  /\ enablePin' = "LOW"
  /\ pc' = IF numTmc2660Drivers > 0 THEN "spinWriteAll" ELSE "spinKick"
  /\ wIdx' = 0
  /\ UNCHANGED <<registersToUpdate, currentDriver, spiDataOut, driversPowered,
                 wasPowered, spinArg>>
  /\ UNCHANGED platformPowered
  /\ SpinUnchanged

\* for each driver: WriteAll() (registersToUpdate = UpdateAllRegisters)
SpinWriteAll ==
  /\ pc = "spinWriteAll"
  /\ registersToUpdate' = [registersToUpdate EXCEPT ![wIdx] = UpdateAllRegisters]
  /\ wIdx' = wIdx + 1
  /\ pc' = IF wIdx + 1 < numTmc2660Drivers THEN "spinWriteAll" ELSE "spinKick"
  /\ UNCHANGED <<busVars, wasPowered, spinArg>>
  /\ UNCHANGED platformPowered
  /\ SpinUnchanged

\* if (currentDriver == nullptr && numTmc2660Drivers != 0) start driver 0
SpinKick ==
  /\ pc = "spinKick"
  /\ IF currentDriver = None /\ numTmc2660Drivers # 0
       THEN StartTransfer(0)
       ELSE UNCHANGED <<registersToUpdate, currentDriver, spiDataOut>>
  /\ Idle
  /\ UNCHANGED <<driversPowered, enablePin>>
  /\ UNCHANGED platformPowered
  /\ SpinUnchanged

\* else if (wasPowered): digitalWrite(GlobalTmc2660EnablePin, HIGH)
SpinDisable ==
  /\ pc = "spinDisable"
  /\ enablePin' = "HIGH"
  /\ Idle
  /\ UNCHANGED <<registersToUpdate, currentDriver, spiDataOut, driversPowered>>
  /\ UNCHANGED platformPowered
  /\ SpinUnchanged

\* Mutant: TurnDriversOff clears driversPowered but leaves ENN low
TurnDriversOffKeepPin ==
  /\ ~vin /\ platformPowered
  /\ TickPreemptsSpin \/ pc \notin SpinPcs
  /\ driversPowered' = FALSE
  /\ platformPowered' = FALSE
  /\ UNCHANGED <<drvVars, currentDriver, spiDataOut, enablePin, mainVars,
                 chip, vin, glitches, auxVars>>

(***************************************************************************)
(* Tick ISR: the Platform sees VIN low, clears its power flag and calls    *)
(* SmartDrivers::TurnDriversOff (ENN high, driversPowered = false).        *)
(* TickPreemptsSpin = FALSE keeps it out of a running Spin.                *)
(***************************************************************************)
TurnDriversOff ==
  /\ ~vin /\ platformPowered
  /\ TickPreemptsSpin \/ pc \notin SpinPcs
  /\ enablePin' = "HIGH"
  /\ driversPowered' = FALSE
  /\ platformPowered' = FALSE
  /\ UNCHANGED <<drvVars, currentDriver, spiDataOut, mainVars, chip, vin,
                 glitches, auxVars>>

(***************************************************************************)
(* Environment: the supply fails (the chips lose their registers) and      *)
(* comes back once the Platform has noticed (tick ISR or main loop).       *)
(***************************************************************************)
VinFail ==
  /\ vin /\ glitches < MaxGlitches
  /\ vin' = FALSE /\ glitches' = glitches + 1
  /\ chip' = [d \in Drivers |-> [r \in Regs |-> Reset]]
  /\ UNCHANGED <<drvVars, busVars, mainVars, platformPowered, auxVars>>

VinRestore ==
  /\ ~vin /\ ~platformPowered
  /\ vin' = TRUE
  /\ UNCHANGED <<drvVars, busVars, mainVars, chip, platformPowered, glitches,
                 auxVars>>

(***************************************************************************)
(* Specification                                                           *)
(***************************************************************************)
UserCall ==
  \E d \in Drivers :
    \/ \E c \in CurrentInputs : SetCurrent(d, c)
    \/ \E m \in MicrostepInputs, i \in InterpolateInputs : SetMicrostepping(d, m, i)
    \/ \E v \in ChopInputs : SetChopperControlRegister(d, v)
    \/ \E n \in OffTimeInputs : SetOffTime(d, n)
    \/ \E m \in ModeInputs : SetDriverMode(d, m)
    \/ \E t \in ThresholdInputs : SetStallThreshold(d, t)
    \/ \E f \in FilterInputs : SetStallFilter(d, f)
    \/ \E c \in CoolStepInputs : SetCoolStep(d, c)
    \/ \E s \in StepsPerSecInputs : SetStallMinimumStepsPerSecond(d, s)
    \/ \E a \in AxisInputs : SetAxisNumber(d, a)
    \/ \E en \in BOOLEAN : EnableDrive(d, en)
    \/ \E k \in KeepInputs : GetAccumulatedStatus(d, k)
    \/ AppendDriverStatus(d)

MainStep ==
  \/ UserCall
  \/ DirtyLoad \/ DirtyStore
  \/ EnAccLoad \/ EnAccStore \/ EnLastLoad \/ EnLastStore \/ EnSet
  \/ AsResetMin \/ AsResetMax
  \/ Spin \/ SpinWrite \/ SpinEnable \/ SpinWriteAll \/ SpinKick \/ SpinDisable

Next ==
  \/ MainStep
  \/ SpiIsr
  \/ TurnDriversOff
  \/ VinFail \/ VinRestore

\* The main loop keeps running, the SPI transfer completes and raises its
\* interrupt, and the tick interrupt runs every millisecond (strong fairness:
\* with TickPreemptsSpin = FALSE it is enabled only between Spin calls).
Fairness == WF_vars(MainStep) /\ WF_vars(SpiIsr) /\ SF_vars(TurnDriversOff)

Spec == Init /\ [][Next]_vars /\ Fairness

-----------------------------------------------------------------------------
(***************************************************************************)
(* Properties                                                              *)
(***************************************************************************)
\* SmartDrivers::GetMicrostepping (index checked by the caller) and
\* TmcDriverState::GetMicrostepping: 1 << microstepShiftFactor, and the
\* INTPOL bit of the shadow DRVCTRL
GetMicrostepping(d) ==
  [microsteps |-> 2 ^ microstepShiftFactor[d],
   interpolation |-> registers[d][DriveControl].intpol]

\* The main thread has stored register r of driver d and not yet set its
\* dirty bit
MainUpdating(d, r) == pc \in {"dirtyLoad", "dirtyStore"} /\ mDrv = d /\ mReg = r

\* A Spin call that changes the power state has not finished: driversPowered
\* is stale (power going) or the resync loop has not run (power coming)
PowerTransition == pc \in SpinPcs /\ spinArg # wasPowered

\* The chip holds the shadow value, or the frame on the wire carries it
ChipHasOrReceives(d, r) ==
  \/ chip[d][r] = registers[d][r]
  \/ currentDriver = d /\ spiDataOut = [reg |-> r, val |-> registers[d][r]]

(***************************************************************************)
(* RegisterCoherence: while the drivers are powered, a register whose      *)
(* dirty bit is clear is on the chip or on its way there.  It is about the *)
(* setters (register stored before the dirty bit is set), the ISR's        *)
(* StartTransfer (bit cleared when the value is taken) and Spin's resync   *)
(* after a power loss; it is claimed outside a Spin that changes power.  *)
(***************************************************************************)
RegisterCoherence ==
  driversPowered /\ vin /\ ~PowerTransition =>
    \A d \in Drivers, r \in Regs :
      r \notin registersToUpdate[d] /\ ~MainUpdating(d, r) => ChipHasOrReceives(d, r)

(***************************************************************************)
(* OffTimeEncodesEnable (spec invariant 1): the shadow CHOPCONF has TOFF = *)
(* 0 exactly when the driver is disabled, whatever sequence of Enable,     *)
(* SetChopperControlRegister, SetOffTime and SetDriverMode ran.            *)
(***************************************************************************)
OffTimeEncodesEnable ==
  \A d \in Drivers : registers[d][ChopperControl].toff = 0 <=> ~enabled[d]

(***************************************************************************)
(* EnableLineOffWhenUnpowered: outside Spin, once driversPowered is clear  *)
(* (Spin(false) or the tick ISR's TurnDriversOff) the global enable line   *)
(* is inactive (HIGH): no driver is left energised on a failed supply.     *)
(***************************************************************************)
EnableLineOffWhenUnpowered ==
  pc \notin SpinPcs /\ ~driversPowered => enablePin = "HIGH"

(***************************************************************************)
(* EnableLineMatchesPower: outside Spin, the global enable line is active  *)
(* (LOW) exactly when driversPowered is set; Spin and TurnDriversOff are   *)
(* the two writers of both.                                                *)
(***************************************************************************)
EnableLineMatchesPower ==
  pc \notin SpinPcs => (enablePin = "LOW" <=> driversPowered)

(***************************************************************************)
(* EventuallySynced: once the configuration calls and supply failures are  *)
(* over, every chip ends up holding every shadow register whenever VIN is  *)
(* present: the ring reaches every driver and Spin resynchronises after a  *)
(* power loss.                                                             *)
(***************************************************************************)
EventuallySynced ==
  <>[](vin => \A d \in Drivers, r \in Regs : chip[d][r] = registers[d][r])

(***************************************************************************)
(* NoLostAlarm: a status bit the ISR reported stays in accumulatedStatus   *)
(* until a GetAccumulatedStatus call consumes it (or Enable consumes SG).  *)
(* Spec section 5: the status words are written by main only under        *)
(* interrupt-disable.                                                      *)
(***************************************************************************)
NoLostAlarm == \A d \in Drivers : raised[d] \subseteq accumulatedStatus[d]

(***************************************************************************)
(* StallReportedOnlyInWindow (spec invariant 5, testable properties 7 and  *)
(* 8): lastReadStatus holds SG exactly when the last frame TransferDone    *)
(* decoded carried SG while the motor stepped at least as fast as the      *)
(* minimum rate SetStallMinimumStepsPerSecond had set, and Enable has not  *)
(* cleared it since.  It ties the ISR's test of line 534 to the setter's   *)
(* division at line 443, including the boundary where the interval equals *)
(* maxStallStepInterval.                                                   *)
(***************************************************************************)
StallReportedOnlyInWindow ==
  \A d \in Drivers :
    (SG \in lastReadStatus[d]) <=> sgExpected[d]

(***************************************************************************)
(* NoLostLoadSample (spec, Driver State: min/max are the running min/max  *)
(* "since last report", reset after being appended; spec invariant 4,    *)
(* min <= max once sampled, follows): every load sample the ISR took     *)
(* after AppendDriverStatus last read the window is still inside          *)
(* [minSgLoadRegister, maxSgLoadRegister], to be reported next.  It is    *)
(* about the read and the two stores of ResetLoadRegisters racing the ISR.*)
(***************************************************************************)
NoLostLoadSample ==
  \A d \in Drivers : \A l \in unreportedLoads[d] :
    minSgLoadRegister[d] <= l /\ l <= maxSgLoadRegister[d]

(***************************************************************************)
(* StallConfigRoundTrip: the threshold AppendStallConfig reports (M915)    *)
(* is one SetStallDetectThreshold maps back to the same SGT field: sending *)
(* the reported value again changes nothing.  It is about the 7-bit        *)
(* two's complement written by the setter and the sign fix of the report,  *)
(* at the -64/63 clamp boundaries.                                         *)
(***************************************************************************)
StallConfigRoundTrip ==
  \A d \in Drivers :
    LET sgt == registers[d][StallGuardConfig].sgt
    IN StallThresholdBits(StallConfigThreshold(sgt)) = sgt

(***************************************************************************)
(* MicrostepReportMatchesChip: the microstepping M350 reports             *)
(* (GetMicrostepping, from microstepShiftFactor) is the one the shadow    *)
(* DRVCTRL configures: 256 >> MRES, with MRES a legal 0..8.  It is about  *)
(* SetMicrostepping's power-of-two and shift <= 8 checks in the facade   *)
(* and the 8 - shift encoding of TmcDriverState::SetMicrostepping.        *)
(***************************************************************************)
MicrostepReportMatchesChip ==
  \A d \in Drivers :
    LET mres == registers[d][DriveControl].mres
    IN mres <= 8 /\ GetMicrostepping(d).microsteps * 2 ^ mres = 256

=============================================================================
