SPECIFICATION Spec
CONSTANTS
  live = live
  Process = {live, command}
  Self = live
  Item = {a, b}
  MaxBlocks = 3
  MaxRefused = 2
PROPERTIES
  ImplementsAtomicStore
  OutcomesAreHonest
  OnlyRefusedCommitsLeak
