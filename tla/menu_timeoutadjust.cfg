CONSTANTS
  MenuFiles <- MC_NavFiles
  MainMenu = "main"
  Garbage = Garbage
  MaxMenuNesting = 2
  CommandBufferSize = 16
  AdjustableKinds = {"alter"}
  Clicks <- MC_Clicks
  InitialFiles = 2
  FileCounts = {2}
  MaxSdChanges = 0
  MaxParts = 2
  WordBits = 8
  Tools = {0, 1}
  InitialMachine <- MC_Machine
  MaxAlters = 2
SPECIFICATION Spec
INVARIANT SelectedMeansAdjusting
