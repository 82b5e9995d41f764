SPECIFICATION Spec
CONSTANTS
  lan = lan
  wifi = wifi
  Nothing = Nothing
  Order <- MCOrder
  Lines = {"cpu", "cpu0"}
  Ifaces = {lan, wifi}
  Readings = {40, 95}
  Bindings = {}
  Warn <- MCWarn
  Critical <- MCCritical
  Interval = 2
  MaxTime = 4
  MaxClicks = 2
PROPERTY ClickKeepsBaseline
CHECK_DEADLOCK FALSE
