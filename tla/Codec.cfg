SPECIFICATION CodecSpec
CONSTANTS
  GroupNames = {"readout_init", "readout"}
  MaxCommands = 2
  MaxGroups = 2
  Configs <- MCConfigs
  StackCount = 3
  MemWords = 16
  ReservedWords = 4
  ImmediateSizes = {1, 5}
  PartMax = 2
  MaxInits = 2
  MaxFaults = 2
  MaxImmediate = 1
  TimerCount = 1
  TriggerResourceCount = 1
  NIM_IO_Count = 2
  L1Luts = 3
  L2Luts = 1
  CountersCount = 1
  ECL_OUT_Count = 1
  Forms = {"vmescript", "mvlcscript"}
  Values = {0, 64000}
  ChoiceValues = {1}
  LutInputs <- MCLutInputs
  UserNames = {"alpha"}
  MaxEdits = 2
  MaxSaves = 2
INVARIANTS CommandsTranslated ReadoutInitialized SettingsSurvive
CHECK_DEADLOCK FALSE
