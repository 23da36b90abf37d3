CONSTANTS
  CsiInstances = 2
  Boards = {"mb", "zynq", "zynqmp"}
  Dhcp = {TRUE}
  DhcpPatience = 2
  MaxTicks = 4
SPECIFICATION Spec
PROPERTY DhcpWaitEnds
CHECK_DEADLOCK FALSE
