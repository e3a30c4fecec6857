CONSTANTS
  Sources <- MCSources
  Machines <- MCMachines
  LOAD_MAX <- MCLoadMax
  Garbage <- MCGarbage
  UnitValue <- MCUnitValue
  MEM_LIMIT <- MCMemLimit
  Readable = {257}
  Writable = {257}
SPECIFICATION ToolchainSpec
CHECK_DEADLOCK FALSE
INVARIANTS
  LabelsAgree
  FileFollowsPc
  DataArrives
  MeansWhatItSays
