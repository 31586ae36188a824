SPECIFICATION Spec
CONSTANTS
  Words = {"anna"}
  Addresses = {"anna@x"}
  EventSets = {"set"}
  ConfiguredSet = "no set"
  Numbers <- NumbersMC
  Changes <- ChangesMC
INVARIANTS
  OnlyDigests
  KeysIdentify
  ScoreCoversKeys
CHECK_DEADLOCK FALSE
