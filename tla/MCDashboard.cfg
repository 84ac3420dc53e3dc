SPECIFICATION DashSpec
CONSTANTS
  Machines <- MCMachines
  Label <- MCLabel
  Rows <- MCRows
  Group <- MCGroup
  Tabs = {"dashboard", "endpoints", "nodes", "hardware", "logs"}
  Nil = Nil
INVARIANTS SelectionIsThere KeysReachOwner
