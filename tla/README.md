# TLA+ models of the TMC2660 stepper-driver subsystem and the LCD menu

This directory holds TLA+ models of `src/src/Movement/StepperDrivers/TMC2660.cpp` and of `src/src/Display/Menu.cpp` and `MenuItem.cpp`, with the TLC configurations that check them. `PROJECT.json` lists:

- the components;
- the runs;
- the mutants that each property must catch;
- the map from every definition to the source lines it models;
- the findings;
- the hazards.

## The system

The repository has two unrelated parts.

- **TMC2660 driver subsystem** (`TMC2660.cpp`, about 900 lines). An array of up to `MaxSmartDrivers` TMC2660 chips on one SPI bus is driven by interrupts. It has four layers:
  - **Register Model.** Each driver keeps a shadow of its five writable registers, `registers[5]`. A dirty mask, `registersToUpdate`, marks the registers still to be sent. The registers are, in priority order: DRVCTRL, SGCSCONF, CHOPCONF, DRVCONF, SMARTEN.
  - **Driver State.** Each driver is a `TmcDriverState`. It holds:
    - the enable flag;
    - the configured CHOPCONF;
    - the microstep shift;
    - the stall window (`maxStallStepInterval`);
    - the min/max StallGuard load;
    - `lastReadStatus` and `accumulatedStatus`.
    Every setter writes a shadow register and then sets its dirty bit.
  - **Bus Scheduler.** `TMC2660_SPI_Handler` is the end-of-receive ISR. It runs `TransferDone` for the driver just polled:
    - CS goes high and the chip latches the frame;
    - the status is decoded, with SG and the load ignored outside the stall window.
    It then moves to the next driver in the ring and runs `StartTransfer`, which sends the most urgent dirty register and clears its bit, or sends SMARTEN as a keep-alive. If the drivers are unpowered, it stops instead.
  - **Facade** (`SmartDrivers`). It provides:
    - `Init`;
    - index-checked setters, including `SetAxisNumber`;
    - index-checked getters such as `GetMicrostepping`, which reports `1 << microstepShiftFactor`;
    - `Spin(powered)`, called from the main loop. On power-up it drives ENN low, marks every register dirty and kicks off the ring. On power-down it drives ENN high.
    - `TurnDriversOff`, called from the tick ISR when VIN fails, "possibly while Spin is being executed" (line 836).
- **LCD menu** (`Display/Menu.cpp`, `MenuItem.cpp`). This is a UI front-end and does not interact with the driver subsystem. It runs in the display task only:
  - `Load(file)` pushes a menu file name on `filenames[]` (ignored at `MaxMenuNesting`) and calls `Reload`. `Pop` decrements `numNestedMenus` and reloads.
  - `Reload` deletes the items (`ResetCache`) and parses the innermost file line by line (`ParseMenuLine`). It appends each line's strings to the 512-byte `commandBuffer` and stops with `LoadError` at a bad line or when the buffer is full.
  - `EncoderAction(action)` handles a push (0) or clicks. With an item selected for adjustment, the event goes to the item (`Adjust`). Otherwise a scroll is offered to the highlighted item first (`Advance`, used by file lists), and the rest moves the highlight. A push runs the item's command: its `|`-separated parts are G-codes, `return` (Pop) or a menu to load. A push on a value item instead selects it for adjustment.
  - `Refresh`, 20 s after the last action, goes back to the main menu. Otherwise it draws every item. A value item's `Draw` reads the printer setting its number N names, unless the item is being adjusted.
  - A value item (`ValueMenuItem`, command `alter`) is selected by a push. A scroll then alters its value (`Adjust_AlterHelper`), and a push commits it to the printer (`Adjust_SelectHelper`).

There are three execution contexts on one core:

1. The **main thread**, which runs the setters and `Spin`. It can be preempted between any two instructions.
2. The **SPI ISR**.
3. The **tick ISR**, which runs `TurnDriversOff`.

The ISRs run atomically with respect to the main thread. All the hard behaviour comes from preemption in the middle of a main-thread read-modify-write of a word an ISR also writes:

- `registersToUpdate |= bit` against the ISR's `&= ~mask`;
- `accumulatedStatus &= ~SG` against the ISR's `|= status`;
- the two stores of `ResetLoadRegisters` against the ISR's min/max update;
- `Spin`'s `wasPowered = driversPowered; driversPowered = powered; digitalWrite(...)` against `TurnDriversOff`.

## Modules

| Module | Models |
|---|---|
| `TMC2660.tla` | The whole driver subsystem: Register Model, Driver State, Bus Scheduler and Facade, plus the environment (VIN, the Platform's power flag, the chips' register files). |
| `MC_TMC2660.tla` | Model-checking instance. It supplies record-valued and negative inputs that a `.cfg` cannot write. |
| `MenuStack.tla` | The abstract promise of the nested menus: a stack with the main menu at the bottom, at most `MaxMenuNesting` deep, changed only by commands of push/pop parts and by the timeout. |
| `Menu.tla` | `Menu` and the `MenuItem` subclasses: parsing into `commandBuffer`, Load/Pop/Reload, the encoder helpers, the timeout; the card's file count and the printer state as environment. It is shown to refine `MenuStack`. |
| `MC_Menu.tla` | Menu folders (files of abstract lines) for the runs. |

### State

- The per-driver fields of `TmcDriverState` are functions over `Drivers == 0..numTmc2660Drivers-1`, where `numTmc2660Drivers = min(NumTmcDrivers, MaxSmartDrivers)`, as in `SmartDrivers::Init`.
- Register values are records of the fields the code writes, for example `[toff, tbl, chm, rndtf]` for CHOPCONF. The bit packing is left out because no property depends on it. The encodings that can go wrong at a boundary are kept as operators:
  - `CurrentScale`;
  - `StallThresholdBits` (7-bit two's complement), and `StallConfigThreshold`, the decoding `AppendStallConfig` reports;
  - `TrailingZeros`;
  - `ChopConfLegal`;
  - `ChopShadow` (TOFF = 0 when disabled).
- Status words are sets of flags. `spiDataOut` is the frame on the wire: a register number and its value. `currentDriver` is `None` when the ring is stopped.
- The main thread has a program counter `pc` and locals (`mDrv`, `mReg`, `mVal`, `mTmp`, `wasPowered`, `spinArg`, `wIdx`). A read-modify-write becomes a load step and a store step, so the SPI ISR can run between them.
- The environment has three variables:
  - `vin`, the motor supply;
  - `platformPowered`, the Platform's flag;
  - `chip[d][r]`, what each chip holds. It is reset content after VIN loss, and a frame is latched only while VIN is present.
- Four history variables exist only for properties:
  - `raised`: status bits reported by the ISR and not yet consumed by a reader;
  - `unreportedLoads`: the load samples the ISR took since `AppendDriverStatus` last read the window;
  - `stallSps`: the rate last given to `SetStallMinimumStepsPerSecond`;
  - `sgExpected`: whether the specification's stall window, applied to the last decoded frame, lets its SG through (cleared by `Enable`).

### Actions

| Code | Action(s) |
|---|---|
| `TMC2660_SPI_Handler` + `TransferDone` + `StartTransfer` | `SpiIsr` (one atomic step; helpers `LatchFrame`, `DecodeStatus`, `NextDriver`, `StartTransfer`) |
| setters (`SetCurrent`, `SetMicrostepping`, `SetChopperControlRegister`, `SetOffTime`, `SetDriverMode`, `SetStallThreshold`, `SetStallFilter`, `SetCoolStep`) | an action that stores the register, then `DirtyLoad`, `DirtyStore` |
| `SetStallMinimumStepsPerSecond`, `SetAxisNumber` | one store each, actions of the same names |
| `GetMicrostepping` | operator `GetMicrostepping(d)`, read by a property |
| `Enable` | `EnableDrive`, `EnAccLoad`, `EnAccStore`, `EnLastLoad`, `EnLastStore`, `EnSet` (then the CHOPCONF dirty RMW) |
| `ReadAccumulatedStatus` | `GetAccumulatedStatus` (atomic: `cpu_irq_save`) |
| `AppendDriverStatus` + `ResetLoadRegisters` | `AppendDriverStatus`, `AsResetMin`, `AsResetMax` |
| `Spin` | `Spin` (reads `driversPowered`), `SpinWrite`, `SpinEnable`, `SpinWriteAll` (loop), `SpinKick`, `SpinDisable` |
| `TurnDriversOff` (tick ISR) | `TurnDriversOff` |
| environment | `VinFail` (chips reset), `VinRestore` |

The main loop samples VIN into the Platform's flag at each `Spin` call. The tick ISR clears the flag and calls `TurnDriversOff` when VIN is low. The supply comes back only after one of the two has noticed the failure, so a brown-out that nobody sees is outside the model.

`TickPreemptsSpin` decides whether the tick ISR may run while `Spin` is in progress:

- The code allows it. The runs that show the resulting races set it to TRUE.
- The passing runs set it to FALSE. Those runs show that, apart from that race, the design is right.

### Menu state and actions

- The `Menu` fields are variables under their own names: `numNestedMenus` (unsigned, `WordBits` wide), `filenames`, `selectableItems` and `unSelectableItems` (sequences for the linked lists), `m_nHighlightedItem`, `itemIsSelected`, `m_bTimeoutEnabled` and `commandBufferIndex`. `loadError` is the message `LoadError` left on screen.
- An item is a record: its class (`kind`), its action parts and L file, `adjusting`, `val` (valIndex N) and `value` (currentValue) of a ValueMenuItem, and the file list's `total`, `first`, `selected` and `lines`. `intact` says whether every string `AppendString` stored for it was stored whole.
- A menu line is a record with the command word, the printer state a button tests, the action parts, the L file, the N lines and the lengths of its strings. Text, numbers, fonts and positions are left out.
- The environment is `sdFiles` (files in the listed directory) and `printing`.
- `machine` holds the printer settings the value items read and write: a function from N to an integer, with the current tool at N = 520. The printer's setters are outside the repository. Each is modelled as a write of the setting its N names. `SelectTool` with a number that is no tool deselects, as `RepRap::SelectTool` does. Values are integers (the code uses `float`). `MaxAlters` bounds the scrolls that alter a value, since a temperature can be scrolled without limit.
- Each handler is one operator from menu state to menu state. `EncoderAction` and `Refresh` apply them in one step, so the Loads and Pops a command runs happen inside the step, as they do in the code.

| Code | Action or operator |
|---|---|
| `Menu::EncoderAction` and `EncoderAction_EnterItemHelper`, `_AdjustItemHelper`, `_ExitItemHelper`, `_ExecuteHelper` | `EncoderAction` (`EnterItemHelper`, `AdjustItemHelper`, `HighlightWrap`, `ExitItemHelper`, `ExecuteHelper`, `ExecuteAll`) |
| `Menu::Refresh`, timeout branch | `Refresh` |
| `Menu::Refresh`, drawing branch, with `ValueMenuItem::Draw` | `RefreshDraw` (`DrawItem`, `ItemKey`) |
| `ValueMenuItem::Adjust_AlterHelper`, `Adjust_SelectHelper` | `AdjustAlterHelper`, `AdjustSelectHelper` (`Write`, `HeaterKey`, `SelectTool`), called from `ExitItemHelper` |
| `Load`, `Pop`, `Reload`, `ResetCache`, `LoadError`, `ParseMenuLine`, `AppendString`, `ShowBasedOnPrinterState` | operators of the same names; the `Reload` loop is `ParseLines` |
| `ButtonMenuItem::Select`, `ValueMenuItem::Adjust`, `FilesMenuItem::Enter`, `Advance`, constructor | `ButtonSelect`, `AdjustDone`, `Enter`, `Advance`, `NewItem` |
| card and printer | `SdCardChange`, `PrinterStateChange` |

`Menu` refines `MenuStack` through the mapping `stack = <<filenames[0], ..., filenames[numNestedMenus-1]>>`. A count that has run past the array maps to a stack with `Garbage` on top, which no abstract step produces. Each concrete step maps to one abstract command (the parts of one action) or to the timeout, or it stutters.

## Properties

TMC2660:

- `TypeOK`: every variable stays in its type.
- `RegisterCoherence`: while powered, and outside a Spin that changes power, every register whose dirty bit is clear is on its chip or in the frame on the wire. The exception is a register whose setter is between its store and its dirty-bit update.
- `OffTimeEncodesEnable` (spec invariant 1): the shadow CHOPCONF has TOFF = 0 exactly when the driver is disabled.
- `EnableLineMatchesPower`: outside Spin, ENN is low exactly when `driversPowered` is TRUE.
- `EnableLineOffWhenUnpowered`: outside Spin, `driversPowered` FALSE implies ENN high.
- `EventuallySynced`: eventually, whenever VIN is present, every chip holds every shadow register.
- `NoLostAlarm`: a status bit the ISR raised stays in `accumulatedStatus` until a reader consumes it.
- `StallReportedOnlyInWindow` (spec invariant 5, testable properties 7 and 8): `lastReadStatus` holds SG exactly when the last frame the ISR decoded carried SG and the motor stepped at least at the minimum rate last given to `SetStallMinimumStepsPerSecond`, and `Enable` has not cleared SG since. The window is stated from the rate (`interval * max(rate, 1) <= StepClockRate`, `InStallWindow`), not from `maxStallStepInterval`. The property therefore checks the setter's division at line 443 and the ISR's test at line 534 together, at the boundary where the interval equals the maximum. The history variable `sgExpected` applies that window to each decoded frame, and `stallSps` holds the configured rate.
- `StallConfigRoundTrip`: the threshold `AppendStallConfig` reports, sent back through `SetStallDetectThreshold`, gives the same SGT field. This covers the field 64 that every request below -64 is clamped to.
- `MicrostepReportMatchesChip`: the microstep count `GetMicrostepping` reports, times 2^MRES of the chip's DRVCTRL shadow, is 256, and MRES is at most 8. It depends on the power-of-two and `shift <= 8` checks in `SetMicrostepping` and on its `8 - shift` encoding. Without the limit, 512 microsteps gives shift 9, and `8 - 9` masked to four bits gives MRES 15.
- `NoLostLoadSample`: every load sample taken since the last report is inside [min, max], so the next report includes it (spec, Driver State). Spec invariant 4, min <= max once sampled, follows from it.

Menu:

- `TypeOK`.
- `MenuStackRefined`: `Menu` implements `MenuStack`. A `return` never pops the main menu. A load beyond `MaxMenuNesting` is ignored, not half-done. The timeout leaves the main menu alone.
- `NestingInRange`: `numNestedMenus` stays in 1..`MaxMenuNesting`.
- `HighlightInRange`: the highlight is on a selectable item whenever there is one.
- `FileSelectionVisible`: a file list's selection is a file of the list and inside its visible window, from whichever side it is entered and however far it is scrolled.
- `NoTruncatedString`: no item of a loaded menu refers to a string cut short in, or placed past the end of, `commandBuffer`.
- `SelectedMeansAdjusting`: when `itemIsSelected` is set, the highlighted item is a value being adjusted.
- `ToolChangedOnlyByToolItems` (action property): a step changes the current tool only by committing the tool-number item (520) or a tool heater's active temperature (100-179). The N table in the header of `Menu.cpp` makes 180-199 the bed and chamber heaters.

## Runs

| Run | Expect | Checks | Bounds |
|---|---|---|---|
| coherence | pass | TypeOK, RegisterCoherence, OffTimeEncodesEnable, EnableLineMatchesPower, MicrostepReportMatchesChip | 3 drivers requested, 2 kept; microstep inputs 32, 3, 512; off-time 0, 5; 2 calls; 1 VIN failure |
| setters | pass | TypeOK, RegisterCoherence, OffTimeEncodesEnable, StallConfigRoundTrip | 1 driver; current 3000 (clamped); a legal and an illegal CHOPCONF; two driver modes; thresholds -70 and 5; filter; coolStep; axis number 1; 3 calls; 1 VIN failure |
| liveness | pass | EventuallySynced | 2 drivers; 1 current call; 2 VIN failures |
| status | pass | StallReportedOnlyInWindow | 1 driver; flags SG and OT; intervals 0 (not stepping), 2 (equal to the default window 400/200) and 3 (outside it, inside 400/100 = 4); rates 0 (clamped to 1) and 100; keeps {} and {OT}; 3 calls |
| lostoff | violation | EventuallySynced | tick may preempt Spin; 1 VIN failure, no calls |
| enableline | violation | EnableLineOffWhenUnpowered | same |
| lostalarm | violation | NoLostAlarm | status bounds |
| lostsample | violation | NoLostLoadSample | status bounds |
| menu_navigation | pass | TypeOK, HighlightInRange, FileSelectionVisible, NoTruncatedString, MenuStackRefined, ToolChangedOnlyByToolItems | nesting 2; `commandBuffer` of 16 bytes; 2 or 1 files in a list of 1 line; clicks 0, 1, -1; 1 card change; printer state toggles; alter items for the tool number, tool 0's temperature and the speed factor; tools 0 and 1; 2 alters |
| menu_rootreturn | violation | NestingInRange | a main menu with a "return" button |
| menu_timeoutadjust | violation | SelectedMeansAdjusting | the navigation menus |
| menu_bedtool | violation | ToolChangedOnlyByToolItems | a main menu with `alter N180` (bed 0); tool 0 selected |

Why these bounds are enough:

- Two drivers make the ring wrap.
- The coherence cfg asks for three drivers, which also exercises the `MaxSmartDrivers` clamp.
- Each race needs one main-thread RMW and one ISR step in its window, and two calls cover that.
- One VIN failure lets power-down and the resync happen. The liveness run has two failures, so a second failure arrives during a resync.
- Illegal inputs (TOFF = 0 or TOFF = 1 with TBL = 0; 3 and 512 microsteps; a threshold below -64) drive the refusal and clamping paths.

For the menu:

- Nesting 2 is enough for a push onto a full stack (prep loads prep).
- A 16-byte buffer lets the main menu and the submenu fit, a menu with a 10-byte title overflow in the middle of a button line, and a parse error end another load.
- A list of one line over two files makes the window scroll at both ends. One card change lets the cached count disagree with the card.
- One click either way makes the highlight wrap at both ends.
- Two alters take the tool number below -1, where its clamp acts, and past the last tool. They also take a temperature from 0 to a nonzero value. A commit from each branch of `Adjust_SelectHelper` that the menus use is then reachable.
- `WordBits` = 8 keeps the unsigned wraps (of `numNestedMenus` and of the file selection) small enough to print. Nothing depends on the width beyond the wrap.

Every action, and both branches of the ISR, fires in the passing runs. Each property of a passing run is matched by a mutant in `PROJECT.json`: a plausible bug in one mapped definition that TLC must catch under the run's own cfg.

### Fairness

The fairness conditions are `WF(MainStep)`, `WF(SpiIsr)` and `SF(TurnDriversOff)`:

- The main loop keeps running.
- An end-of-receive interrupt always follows a started frame.
- The tick ISR fires every millisecond. When it may not preempt Spin, it is enabled only between Spin steps, so it needs strong fairness.

Calls and VIN failures get no fairness, because they come from outside.

The menu model has no fairness and no liveness property. Every menu step is a user event, a 20 s timeout or a change of the card or the printer, and nothing in the code must happen without them.

## Findings

1. **Lost TurnDriversOff** (lines 808–809). A tick between Spin's read of `driversPowered` and its write is overwritten. After VIN returns, Spin sees `wasPowered` TRUE and never rewrites the chips, which still hold their power-on-reset content. Run: lostoff.
2. **ENN low while unpowered** (lines 809–815). A tick after line 809 is followed by `digitalWrite(LOW)`. Run: enableline.
3. **Enable clears SG without masking interrupts** (line 388). An OT bit the ISR adds between the load and the store is lost. This contradicts the spec, which says main-thread status writes are made under interrupt disable. Run: lostalarm.
4. **AppendDriverStatus reads, then resets, the load window** (lines 497–504, 195–196), with interrupts enabled. A sample taken between the read and the reset is neither reported nor kept. A sample taken between the two stores of `ResetLoadRegisters` leaves min > max, which contradicts spec invariant 4. Run: lostsample.

5. **The main menu can pop itself** (`Menu.cpp:115`). `Pop` has no check. A "return" in the main menu takes `numNestedMenus` to 0. `Reload` then reads `filenames[numNestedMenus - 1]`; that index wraps to SIZE_MAX, outside the array. If the garbage name read there does not open, `LoadError` leaves the menu without items until the timeout reloads main. A second "return" part in the same action would wrap the count itself to SIZE_MAX, after which every `Load` is ignored. Run: menu_rootreturn.
6. **The timeout leaves an item selected** (`Menu.cpp:555`, `ResetCache` at 296). `Refresh` reloads the main menu but never clears `itemIsSelected`. The next encoder event therefore goes to `ExitItemHelper` on a fresh item: a scroll alters, and a push commits, a value the user never selected. Run: menu_timeoutadjust.
7. **Committing a bed temperature deselects the tool** (`MenuItem.cpp:198`). `Adjust_SelectHelper` treats every N of 100-199 as a tool heater's active temperature. It calls `SelectTool(N - 100)` before it sets a nonzero temperature. The N table of `Menu.cpp` (lines 44-45) gives 180-189 to the bed and 190-199 to the chamber, so a bed temperature selects "tool 80", which does not exist. Run: menu_bedtool.

The menu has more hazards that are listed in `PROJECT.json` without a run:

- An empty directory: `Enter(false)` wraps the unsigned selection to UINT_MAX. The TODO at `MenuItem.cpp:400` leaves this case open.
- A card changed under a loaded file list: `Select` runs the command on the last file. The TODO at line 449 leaves this open.
- A "menu" part that is not the whole action: it is loaded as a file named "menu". This contradicts the example in the header comment at line 35.
- A value selected before it was ever drawn (`MenuItem.cpp:66`). The timeout `Load` draws nothing. If a push arrives before the next drawing `Refresh`, the value stays at its constructor's 0.0, because `Draw` skips an item being adjusted. The next push commits that 0.0. Whether this can happen depends on the order in which `Display::Spin` calls the menu, which is not in the repository.
- Temperatures and fan percentages are altered without bounds (line 283).

## Not modelled

- The getters other than `GetMicrostepping` (they change no state), `SetStandstillCurrentPercent` (a no-op), and the text of `AppendStallConfig` and the status report: they are formatting, or change nothing a property reads. The threshold decoding of `AppendStallConfig` is modelled.
- `SetupDMA`, the byte order and the SPI peripheral: these are I/O, abstracted to the frame on the wire.
- The motion planner's step interval: it is an input chosen from `Intervals`. `axisNumber` is stored by `SetAxisNumber`, but the interval the ISR asks Move for does not depend on it in the model.
- Menu drawing, fonts, rows, columns and `m_tRowOffset`: layout only. `LoadImage` only prints.
- The printer behind the value items, beyond one setting per N and `SelectTool`. Floating-point values and the `* 0.01` and `* 100` conversions of fan, extrusion and speed percentages are not modelled; they cancel out in the model. `CanAdjust`, which is declared nowhere, is the constant `AdjustableKinds`.
- Directories in a file list: the card holds files only. With an empty directory, the unset `FileInfo` of `Select` is a free choice between "directory" and "file".
- String lengths of actions and file names, and with them the unbounded copies into `acCurrentCommand` and `m_acCommand`.
- The display code that calls `Load("main")` first and then `EncoderAction` and `Refresh` is not in the repository. The model starts after that first load.
- `MenuItem.h` does not match `MenuItem.cpp`: the `ButtonMenuItem` constructor and `Select` differ, and the `FilesMenuItem` constructor takes a different number of arguments. `Menu.h` lacks `m_bTimeoutEnabled`. The model follows the `.cpp` files.

## Plan for later sittings

1. **Abstract specification of the bus.** `RegisterBus.tla` would state that each dirty shadow is eventually on its chip. `TMC2660` would be shown to refine it, mapping `registersToUpdate` and the frame on the wire.
2. **Reference check of `TrailingZeros`** against the largest power of two dividing the input. `StallThresholdBits` is now checked against the decoding in `AppendStallConfig` (`StallConfigRoundTrip`).
3. **Stale SG after enable** (line 387). This depends on when the chip refreshes its stall flag, which the code does not determine. See the hazard's note.
