CONSTANTS
  CsiInstances = 2
  Boards = {"mb", "zynq", "zynqmp"}
  Dhcp = {TRUE, FALSE}
  DhcpPatience = 2
  MaxTicks = 6
SPECIFICATION Spec
INVARIANTS HandlerFindsInterface SlowAtHalfRate AxisPrepared
PROPERTY TimersServed
CHECK_DEADLOCK FALSE
