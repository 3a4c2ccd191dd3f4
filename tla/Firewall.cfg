SPECIFICATION Spec
CHECK_DEADLOCK FALSE
CONSTANTS
  Rules <- MCRules
  MaxRules = 4
  Kinds = {"direct", "relay", "inbound"}
  Veth = "veth"
  Uplink = "ether1"
  PlanIface = "DMZ"
  PlanAddr = "none"
  UplinkLists = {"WAN"}
  Deleted = {"*2000010"}
  Natted = TRUE
INVARIANTS TypeOK VerdictSound DropperNamed FixPasses
