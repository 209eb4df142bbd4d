-------------------------------- MODULE Menu --------------------------------
(***************************************************************************)
(* The LCD menu system (src/src/Display/Menu.cpp, MenuItem.cpp).  Menus    *)
(* are files of layout lines; Load pushes a file name on filenames[] and   *)
(* Reload parses the innermost file into lists of selectable and           *)
(* unselectable items, copying their strings into commandBuffer.  Every    *)
(* encoder event (EncoderAction) and every Refresh is one step of the      *)
(* single display task, so each is one atomic action here, including the   *)
(* Loads and Pops its command runs.  The SD card (number of files in the   *)
(* listed directory) and the printer state change in the environment.     *)
(*                                                                         *)
(* Data is abstracted: a menu line is a record with its command word, the  *)
(* lengths of the strings it appends, its action as a sequence of command  *)
(* parts ("gcode" for a G/M/T command, "return", or a file name) and its   *)
(* L file; value items carry no number; file names on the card are their  *)
(* positions in the directory.  A value or alter item carries its N       *)
(* (valIndex) and currentValue; the printer settings it reads and writes   *)
(* are a function from N to an integer, the current tool at N = 520.       *)
(***************************************************************************)
EXTENDS Integers, Sequences
LOCAL INSTANCE Functions

CONSTANTS
  MenuFiles,          \* [name -> Seq(line)]: the /menu folder
  MainMenu,           \* "main": loaded first and on timeout
  Garbage,            \* what filenames[i] yields for i outside the array
  MaxMenuNesting,     \* Menu::MaxMenuNesting
  CommandBufferSize,  \* Menu::CommandBufferSize
  AdjustableKinds,    \* item kinds whose CanAdjust() holds
  Clicks,             \* encoder actions: 0 is a push, else signed clicks
  InitialFiles,       \* files in the listed directory at start
  FileCounts,         \* file counts the directory may change to
  MaxSdChanges,       \* bound on changes of the card's contents
  MaxParts,           \* bound on the parts of one action
  WordBits,           \* width of size_t and unsigned int
  Tools,              \* the tool numbers the printer has
  InitialMachine,     \* [N -> value]: the printer settings the items show
  MaxAlters           \* bound on the scrolls that alter a value

ASSUME /\ MaxMenuNesting \in Nat \ {0} /\ CommandBufferSize \in Nat \ {0}
       /\ FileCounts \subseteq Nat /\ InitialFiles \in FileCounts
       /\ MaxSdChanges \in Nat
       /\ WordBits \in Nat \ {0}
       /\ 520 \in DOMAIN InitialMachine /\ MaxAlters \in Nat

UIntMax == 2 ^ WordBits
MinOf(a, b) == IF a < b THEN a ELSE b

VARIABLES
  numNestedMenus, filenames, selectableItems, unSelectableItems,
  m_nHighlightedItem, itemIsSelected, m_bTimeoutEnabled, commandBufferIndex,
  loadError,            \* the message LoadError left on screen, or "none"
  machine,              \* the printer settings value items read and write
  sdFiles, printing, sdChanges, alters

menuVars == <<numNestedMenus, filenames, selectableItems, unSelectableItems,
              m_nHighlightedItem, itemIsSelected, commandBufferIndex,
              loadError, machine>>
envVars == <<sdFiles, printing, sdChanges, alters>>
vars == <<menuVars, m_bTimeoutEnabled, envVars>>

\* Items: MenuItem subclasses with the fields the properties read
Kinds == {"button", "alter", "files", "text", "value"}
Lines == UNION {Range(MenuFiles[f]) : f \in DOMAIN MenuFiles}
ActionParts == UNION {Range(ln.action) : ln \in Lines}
LoadNames == (ActionParts \ {"gcode", "return"}) \cup {ln.file : ln \in Lines}
               \cup {MainMenu}
Item == [kind : Kinds, action : Seq(ActionParts), file : LoadNames,
         adjusting : BOOLEAN, total : {0} \cup FileCounts, first : Nat,
         selected : 0 .. UIntMax - 1, lines : Nat, intact : BOOLEAN,
         val : Nat, value : Int]

TypeOK ==
  /\ numNestedMenus \in 0 .. UIntMax - 1
  /\ filenames \in [0 .. MaxMenuNesting - 1 -> LoadNames \cup {""}]
  /\ selectableItems \in Seq(Item) /\ unSelectableItems \in Seq(Item)
  /\ m_nHighlightedItem \in Int
  /\ itemIsSelected \in BOOLEAN /\ m_bTimeoutEnabled \in BOOLEAN
  /\ commandBufferIndex \in 0 .. CommandBufferSize
  /\ loadError \in {"none", "open", "parse", "full"}
  /\ sdFiles \in FileCounts /\ printing \in BOOLEAN
  /\ sdChanges \in 0 .. MaxSdChanges
  /\ machine \in [DOMAIN InitialMachine -> Int] /\ alters \in 0 .. MaxAlters

\* The menu's state as a record, and the step that sets it
Cur == [numNestedMenus |-> numNestedMenus, filenames |-> filenames,
        selectableItems |-> selectableItems,
        unSelectableItems |-> unSelectableItems,
        m_nHighlightedItem |-> m_nHighlightedItem,
        itemIsSelected |-> itemIsSelected,
        commandBufferIndex |-> commandBufferIndex, loadError |-> loadError,
        machine |-> machine]
Set(m) ==
  /\ numNestedMenus' = m.numNestedMenus /\ filenames' = m.filenames
  /\ selectableItems' = m.selectableItems
  /\ unSelectableItems' = m.unSelectableItems
  /\ m_nHighlightedItem' = m.m_nHighlightedItem
  /\ itemIsSelected' = m.itemIsSelected
  /\ commandBufferIndex' = m.commandBufferIndex /\ loadError' = m.loadError
  /\ machine' = m.machine

(***************************************************************************)
(* Parsing a menu file (Menu::Reload, ParseMenuLine, AppendString).  A     *)
(* parse state is [sel, unsel, idx, err]: the item lists, the buffer index *)
(* and the error, "none" or the LoadError message.                         *)
(***************************************************************************)

\* Mutants of AppendString: strncpy given the whole room, so the index can
\* pass the end; and an index advanced without the terminator
AppendStringNoTerminatorRoom(idx, len) ==
  IF idx < CommandBufferSize
  THEN LET stored == MinOf(len, CommandBufferSize - idx)
       IN [next |-> idx + stored + 1, intact |-> stored = len]
  ELSE [next |-> idx, intact |-> FALSE]
AppendStringNoTerminator(idx, len) ==
  IF idx < CommandBufferSize
  THEN LET stored == MinOf(len, CommandBufferSize - idx - 1)
       IN [next |-> idx + stored, intact |-> stored = len]
  ELSE [next |-> idx, intact |-> FALSE]

\* Menu::AppendString: copy at idx with SafeStrncpy, which keeps one byte
\* for the terminator; once idx reaches the end nothing is copied
AppendString(idx, len) ==
  IF idx < CommandBufferSize
  THEN LET stored == MinOf(len, CommandBufferSize - idx - 1)
       IN [next |-> idx + stored + 1, intact |-> stored = len]
  ELSE [next |-> idx, intact |-> FALSE]

RECURSIVE AppendStrings(_, _)
AppendStrings(idx, lens) ==
  IF lens = <<>> THEN [next |-> idx, intact |-> TRUE]
  ELSE LET a == AppendString(idx, Head(lens))
           r == AppendStrings(a.next, Tail(lens))
       IN [next |-> r.next, intact |-> a.intact /\ r.intact]

\* Menu::ShowBasedOnPrinterState, the texts and descriptions reduced to
\* the printer state each one tests
ShowBasedOnPrinterState(show) ==
  CASE show = "idle" -> ~printing
    [] show = "printing" -> printing
    [] OTHER -> TRUE

\* The item a line creates; a FilesMenuItem counts the directory's files
\* when it is constructed (EnterDirectory); a ValueMenuItem starts at 0.0
NewItem(ln, intact) ==
  [kind |-> ln.cmd, action |-> ln.action, file |-> ln.file,
   adjusting |-> FALSE, total |-> IF ln.cmd = "files" THEN sdFiles ELSE 0,
   first |-> 0, selected |-> 0, lines |-> ln.lines, intact |-> intact,
   val |-> IF ln.cmd \in {"alter", "value"} THEN ln.val ELSE 0, value |-> 0]

\* Menu::ParseMenuLine followed by AddItem
ParseMenuLine(st, ln) ==
  LET a == AppendStrings(st.idx, ln.lens)
      it == NewItem(ln, a.intact)
  IN CASE ln.cmd \in {"text", "value"} ->
            [st EXCEPT !.unsel = Append(@, it), !.idx = a.next]
       [] ln.cmd \in {"alter", "files"}
            \/ (ln.cmd = "button" /\ ShowBasedOnPrinterState(ln.show)) ->
            [st EXCEPT !.sel = Append(@, it), !.idx = a.next]
       [] ln.cmd \in {"button", "image", "comment"} -> st
       [] OTHER -> [st EXCEPT !.err = "parse"]

\* Menu::ResetCache: delete both item lists (the highlight is reset by
\* Reload; itemIsSelected is left alone)
ResetCache(st) == [st EXCEPT !.sel = <<>>, !.unsel = <<>>]

\* Menu::LoadError: ResetCache and show the message; the buffer index is kept
LoadError(st, msg) == [ResetCache(st) EXCEPT !.err = msg]

\* The loop of Menu::Reload: stop at a parse error or a full buffer
RECURSIVE ParseLines(_, _)
ParseLines(st, ls) ==
  IF ls = <<>> THEN st
  ELSE LET p == ParseMenuLine(st, Head(ls))
       IN IF p.err # "none" THEN LoadError(p, p.err)
          ELSE IF p.idx = CommandBufferSize THEN LoadError(p, "full")
          ELSE ParseLines(p, Tail(ls))

\* Menu::Reload: ResetCache, then open filenames[numNestedMenus - 1]; an
\* index outside the array reads Garbage, which names no file
Reload(m) ==
  LET fname == IF m.numNestedMenus \in 1 .. MaxMenuNesting
               THEN m.filenames[m.numNestedMenus - 1] ELSE Garbage
      st == IF fname \in DOMAIN MenuFiles
            THEN ParseLines([sel |-> <<>>, unsel |-> <<>>, idx |-> 0,
                             err |-> "none"], MenuFiles[fname])
            ELSE LoadError([sel |-> <<>>, unsel |-> <<>>,
                            idx |-> m.commandBufferIndex, err |-> "none"],
                           "open")
  IN [m EXCEPT !.selectableItems = st.sel, !.unSelectableItems = st.unsel,
               !.m_nHighlightedItem = 0, !.commandBufferIndex = st.idx,
               !.loadError = st.err]

\* Mutant of Load: the nesting check off by one
LoadNoLimit(m, f) ==
  IF m.numNestedMenus <= MaxMenuNesting
  THEN Reload([m EXCEPT !.filenames[m.numNestedMenus] = f,
                        !.numNestedMenus = @ + 1])
  ELSE m

\* Menu::Load: push and reload, ignored when the nesting is full
Load(m, f) ==
  IF m.numNestedMenus < MaxMenuNesting
  THEN Reload([m EXCEPT !.filenames[m.numNestedMenus] = f,
                        !.numNestedMenus = @ + 1])
  ELSE m

\* Menu::Pop: unsigned decrement, no check, and reload
Pop(m) == Reload([m EXCEPT !.numNestedMenus = (@ - 1) % UIntMax])

\* Menu::EncoderAction_ExecuteHelper: a G/M/T command goes to the GCode
\* processor, "return" pops, anything else is a menu file to load
ExecuteHelper(m, cmd) ==
  CASE cmd = "gcode" -> m
    [] cmd = "return" -> Pop(m)
    [] OTHER -> Load(m, cmd)

\* The '|'-separated parts of a command, run in order
RECURSIVE ExecuteAll(_, _)
ExecuteAll(m, parts) ==
  IF parts = <<>> THEN m ELSE ExecuteAll(ExecuteHelper(m, Head(parts)), Tail(parts))

(***************************************************************************)
(* Menu items (MenuItem.cpp).                                              *)
(***************************************************************************)

\* ButtonMenuItem::Select: the L file when the action is exactly "menu"
ButtonSelect(it) == IF it.action = <<"menu">> THEN <<it.file>> ELSE it.action

\* Mutant of Enter: the window left at the top when entering from below
EnterNoWindow(it, forward) ==
  IF it.kind # "files" THEN it
  ELSE [it EXCEPT !.selected = IF forward THEN 0 ELSE (it.total - 1) % UIntMax,
                  !.first = 0]

\* FilesMenuItem::Enter, unsigned: backwards selects the last file
Enter(it, forward) ==
  IF it.kind # "files" THEN it
  ELSE IF forward THEN [it EXCEPT !.selected = 0, !.first = 0]
  ELSE [it EXCEPT !.selected = (it.total - 1) % UIntMax,
                  !.first = IF it.total > it.lines THEN it.total - it.lines
                            ELSE 0]

\* FilesMenuItem::Advance: move the selection and the visible window one
\* file at a time, returning the clicks it could not take
RECURSIVE Advance(_, _)
Advance(it, n) ==
  IF n > 0 /\ it.total # (it.selected + 1) % UIntMax
  THEN LET s == (it.selected + 1) % UIntMax
       IN Advance([it EXCEPT !.selected = s,
                  !.first = IF s = @ + it.lines THEN @ + 1 ELSE @], n - 1)
  ELSE IF n < 0 /\ it.selected # 0
  THEN LET s == it.selected - 1
       IN Advance([it EXCEPT !.selected = s,
                  !.first = IF s < @ THEN @ - 1 ELSE @], n + 1)
  ELSE [item |-> it, rest |-> n]

\* ValueMenuItem: valIndex \div 100 is the kind of value, valIndex % 100 the
\* item; the current tool is N = 520
ToolKey == 520
Clamp(x, lo, hi) == IF x < lo THEN lo ELSE IF x > hi THEN hi ELSE x

\* A printer setting is written; settings no item shows are not kept
Write(mc, k, x) == IF k \in DOMAIN mc THEN [mc EXCEPT ![k] = x] ELSE mc

\* The heater setting of a tool (or bed, chamber) number; item 79 is the
\* current tool's, and names nothing without one
HeaterKey(cls, t) == IF t >= 0 THEN cls * 100 + t ELSE -1
ItemKey(mc, cls, n) == HeaterKey(cls, IF n = 79 THEN mc[ToolKey] ELSE n)

\* RepRap::SelectTool: a number that names no tool leaves none selected
SelectTool(mc, t) == Write(mc, ToolKey, IF t \in Tools THEN t ELSE -1)

\* ValueMenuItem::Draw: unless adjusting, read the value N names; numbers
\* of kind 5 other than 0, 10-16 and 20, and kinds above 5, show "***"
DrawItem(mc, it) ==
  LET cls == it.val \div 100
      k == IF cls <= 2 THEN ItemKey(mc, cls, it.val % 100) ELSE it.val
      reads == cls <= 4 \/ (cls = 5 /\ it.val % 100 \in {0, 20} \cup 10 .. 16)
  IN IF it.kind \in {"alter", "value"} /\ ~it.adjusting /\ reads
        /\ k \in DOMAIN mc
     THEN [it EXCEPT !.value = mc[k]] ELSE it

\* Mutant of Adjust_SelectHelper: case 0 of the misc values falls through
\* into case 20 (a missing break)
AdjustSelectHelperFallThrough(mc, it) ==
  LET n == it.val % 100
      x == it.value
      t == IF n = 79 THEN mc[ToolKey] ELSE n
  IN CASE it.val \div 100 = 1 /\ x = 0 -> Write(mc, ItemKey(mc, 1, n), 0)
       [] it.val \div 100 = 1 -> Write(SelectTool(mc, t), HeaterKey(1, t), x)
       [] it.val \div 100 = 2 -> Write(mc, ItemKey(mc, 2, n), x)
       [] it.val \div 100 \in {3, 4} -> Write(mc, it.val, x)
       [] it.val = 500 -> SelectTool(Write(mc, 500, x), x)
       [] it.val = 520 -> SelectTool(mc, x)
       [] OTHER -> mc

\* ValueMenuItem::Adjust_SelectHelper: a push commits the value.  A heater
\* active temperature other than 0 first selects the tool the item number
\* names (the current one for 79); an unknown N only beeps.
AdjustSelectHelper(mc, it) ==
  LET n == it.val % 100
      x == it.value
      t == IF n = 79 THEN mc[ToolKey] ELSE n
  IN CASE it.val \div 100 = 1 /\ x = 0 -> Write(mc, ItemKey(mc, 1, n), 0)
       [] it.val \div 100 = 1 -> Write(SelectTool(mc, t), HeaterKey(1, t), x)
       [] it.val \div 100 = 2 -> Write(mc, ItemKey(mc, 2, n), x)
       [] it.val \div 100 \in {3, 4} -> Write(mc, it.val, x)
       [] it.val = 500 -> Write(mc, 500, x)
       [] it.val = 520 -> SelectTool(mc, x)
       [] OTHER -> mc

\* ValueMenuItem::Adjust_AlterHelper: a scroll adds the clicks, the speed
\* factor kept in 10..500 and the tool number in -1..255
AdjustAlterHelper(it, clicks) ==
  LET x == it.value + clicks
  IN [it EXCEPT !.value = CASE it.val = 500 -> Clamp(x, 10, 500)
                            [] it.val = 520 -> Clamp(x, -1, 255)
                            [] it.val \div 100 = 5 -> @
                            [] OTHER -> x]

(***************************************************************************)
(* Encoder handling (Menu::EncoderAction and its helpers).                 *)
(***************************************************************************)

\* Menu::EncoderAction_EnterItemHelper.  item->Select() returns a command
\* (button, files) that is run part by part, or nullptr (value items, and
\* a files item whose unset FileInfo says directory), after which the
\* item is selected if it CanAdjust().
EnterItemHelper(m, garbageIsDir) ==
  LET h == m.m_nHighlightedItem
      it == m.selectableItems[h + 1]
  IN IF h >= Len(m.selectableItems) THEN m
     ELSE CASE it.kind = "button" -> ExecuteAll(m, ButtonSelect(it))
            [] it.kind = "files" /\ ~(sdFiles = 0 /\ garbageIsDir) ->
                 ExecuteAll(m, it.action)
            [] OTHER ->
                 [m EXCEPT !.selectableItems[h + 1].adjusting =
                              @ \/ it.kind = "alter",
                           !.itemIsSelected = it.kind \in AdjustableKinds]

\* Mutant of HighlightWrap: "while (h > n)" for "while (h >= n)"
HighlightWrapOffByOne(h, n) ==
  IF h > n THEN h - n ELSE IF h < 0 THEN h + n ELSE h

\* Wrap of the highlight by the two while loops
HighlightWrap(h, n) == h % n

\* Menu::EncoderAction_AdjustItemHelper: the highlighted item takes what it
\* can of the scroll, the rest moves the highlight, and the newly
\* highlighted item is entered from the side the scroll came from
AdjustItemHelper(m, a) ==
  LET h == m.m_nHighlightedItem
      start == m.selectableItems[h + 1]
      adv == IF start.kind = "files" THEN Advance(start, a)
             ELSE [item |-> start, rest |-> a]
      m1 == [m EXCEPT !.selectableItems[h + 1] = adv.item]
      h2 == HighlightWrap(h + adv.rest, Len(m.selectableItems))
  IN IF adv.rest = 0 THEN m1
     ELSE [m1 EXCEPT !.m_nHighlightedItem = h2,
                     !.selectableItems[h2 + 1] = Enter(@, adv.rest > 0)]

\* item->Adjust(clicks): MenuItem::Adjust returns true; ValueMenuItem::Adjust
\* commits on a push (Adjust_SelectHelper, which stops the adjustment and
\* returns true) and alters the value on a scroll, returning false
AdjustDone(it, clicks) == it.kind # "alter" \/ clicks = 0

\* Menu::EncoderAction_ExitItemHelper: adjust the highlighted item and
\* deselect it when it is done
ExitItemHelper(m, a) ==
  LET h == m.m_nHighlightedItem
      it == m.selectableItems[h + 1]
      done == AdjustDone(it, a)
      m1 == [m EXCEPT !.selectableItems[h + 1].adjusting = @ /\ ~done,
                      !.itemIsSelected = ~done]
  IN IF h >= Len(m.selectableItems) THEN [m EXCEPT !.itemIsSelected = FALSE]
     ELSE CASE it.kind # "alter" -> m1
            [] a = 0 -> [m1 EXCEPT !.machine = AdjustSelectHelper(m.machine, it)]
            [] OTHER -> [m1 EXCEPT !.selectableItems[h + 1] =
                                     AdjustAlterHelper(@, a)]

\* The encoder action scrolls the value of a selected alter item
Alters(a) ==
  /\ itemIsSelected /\ a # 0
  /\ m_nHighlightedItem \in 0 .. Len(selectableItems) - 1
  /\ selectableItems[m_nHighlightedItem + 1].kind = "alter"

\* Menu::EncoderAction(action): a push (0) or clicks; arms the timeout
EncoderAction ==
  \E a \in Clicks, garbageIsDir \in BOOLEAN :
    /\ Set(IF Len(selectableItems) = 0 THEN Cur
           ELSE IF itemIsSelected THEN ExitItemHelper(Cur, a)
           ELSE IF a # 0 THEN AdjustItemHelper(Cur, a)
           ELSE EnterItemHelper(Cur, garbageIsDir))
    /\ m_bTimeoutEnabled' = TRUE
    /\ Alters(a) => alters < MaxAlters
    /\ alters' = IF Alters(a) THEN alters + 1 ELSE alters
    /\ UNCHANGED <<sdFiles, printing, sdChanges>>

\* Menu::Refresh after 20 s without an action: back to the main menu
Refresh ==
  /\ m_bTimeoutEnabled
  /\ Set(Load([Cur EXCEPT !.numNestedMenus = 0], MainMenu))
  /\ m_bTimeoutEnabled' = FALSE
  /\ UNCHANGED envVars

\* Menu::Refresh before the timeout (or with none armed): Draw the
\* selectable items, then the unselectable ones
RefreshDraw ==
  /\ selectableItems' = [i \in DOMAIN selectableItems |->
                           DrawItem(machine, selectableItems[i])]
  /\ unSelectableItems' = [i \in DOMAIN unSelectableItems |->
                             DrawItem(machine, unSelectableItems[i])]
  /\ UNCHANGED <<numNestedMenus, filenames, m_nHighlightedItem,
                 itemIsSelected, commandBufferIndex, loadError, machine,
                 m_bTimeoutEnabled, envVars>>

\* Environment: files added to or removed from the listed directory
SdCardChange ==
  /\ sdChanges < MaxSdChanges
  /\ \E n \in FileCounts \ {sdFiles} : sdFiles' = n
  /\ sdChanges' = sdChanges + 1
  /\ UNCHANGED <<menuVars, m_bTimeoutEnabled, printing, alters>>

\* Environment: a print starts or ends
PrinterStateChange ==
  /\ printing' = ~printing
  /\ UNCHANGED <<menuVars, m_bTimeoutEnabled, sdFiles, sdChanges, alters>>

\* Menu::Menu, then Load("main") by the display
Constructed ==
  [numNestedMenus |-> 0, filenames |-> [i \in 0 .. MaxMenuNesting - 1 |-> ""],
   selectableItems |-> <<>>, unSelectableItems |-> <<>>,
   m_nHighlightedItem |-> 0, itemIsSelected |-> FALSE,
   commandBufferIndex |-> 0, loadError |-> "none", machine |-> InitialMachine]

Init ==
  /\ sdFiles = InitialFiles /\ printing \in BOOLEAN /\ sdChanges = 0
  /\ alters = 0 /\ machine = InitialMachine
  /\ m_bTimeoutEnabled = FALSE
  /\ LET m == Load(Constructed, MainMenu)
     IN /\ numNestedMenus = m.numNestedMenus /\ filenames = m.filenames
        /\ selectableItems = m.selectableItems
        /\ unSelectableItems = m.unSelectableItems
        /\ m_nHighlightedItem = m.m_nHighlightedItem
        /\ itemIsSelected = m.itemIsSelected
        /\ commandBufferIndex = m.commandBufferIndex
        /\ loadError = m.loadError

Next == EncoderAction \/ Refresh \/ RefreshDraw \/ SdCardChange
          \/ PrinterStateChange

Spec == Init /\ [][Next]_vars

(***************************************************************************)
(* Properties.                                                             *)
(***************************************************************************)

\* The menus on screen as the abstract stack: filenames[0 .. n-1], reading
\* Garbage past the array once the count has run beyond it
MenuStackOf(n) ==
  [i \in 1 .. MinOf(n, MaxMenuNesting + 1) |->
     IF i - 1 < MaxMenuNesting THEN filenames[i - 1] ELSE Garbage]

Abs == INSTANCE MenuStack WITH stack <- MenuStackOf(numNestedMenus),
                               MenuNames <- LoadNames

\* Load, Pop and the timeout of Menu.cpp implement the menu stack: every
\* encoder action runs a command whose "return" parts pop a non-root menu
\* and whose other parts push (or are ignored at MaxMenuNesting), and the
\* timeout returns to the main menu alone.
MenuStackRefined == Abs!Spec

\* Menu::Pop decrements numNestedMenus with no check: the nesting count
\* stays between 1 and MaxMenuNesting, so Reload always reads a name the
\* menu stack holds.
NestingInRange == numNestedMenus \in 1 .. MaxMenuNesting

\* EncoderAction_AdjustItemHelper's while loops keep the highlight on a
\* selectable item, which FindHighlightedItem then never finds null.
HighlightInRange ==
  Len(selectableItems) > 0 => m_nHighlightedItem \in 0 .. Len(selectableItems) - 1

\* FilesMenuItem::Enter and Advance keep the selected file a file of the
\* list and inside the visible window of m_uDisplayLines lines, from
\* whichever side the list is entered and however far it is scrolled.
FileSelectionVisible ==
  \A i \in DOMAIN selectableItems :
    LET it == selectableItems[i]
    IN it.kind = "files" =>
         /\ it.selected < IF it.total = 0 THEN 1 ELSE it.total
         /\ it.first <= it.selected /\ it.selected < it.first + it.lines

\* Reload's "Menu buffer full" check: no item of a loaded menu refers to
\* a string AppendString cut short or placed past the end of commandBuffer.
NoTruncatedString ==
  \A it \in Range(selectableItems) \cup Range(unSelectableItems) : it.intact

\* itemIsSelected means the highlighted item is a value being adjusted,
\* so a scroll or push goes to the value the user selected (ExitItemHelper).
SelectedMeansAdjusting ==
  itemIsSelected =>
    /\ m_nHighlightedItem \in 0 .. Len(selectableItems) - 1
    /\ selectableItems[m_nHighlightedItem + 1].adjusting

\* The N table of Menu.cpp's header: an alter item changes the setting its
\* N names.  The current tool changes only when a push commits the tool
\* number item (520) or a tool heater's active temperature (100-179, which
\* Adjust_SelectHelper makes the current tool), never a bed, chamber, fan,
\* extrusion or speed value.
ToolChangedOnlyByToolItems ==
  [][machine'[ToolKey] # machine[ToolKey] =>
       LET it == selectableItems[m_nHighlightedItem + 1]
       IN it.val = ToolKey \/ it.val \in 100 .. 179]_vars
=============================================================================
