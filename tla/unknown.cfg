SPECIFICATION LiveSpec
CONSTANTS
  Checkers = {loop, add}
  Loops = {loop}
  Adders = {add}
  Torrents = {t1}
  IPs = {"exit", "isp"}
  Networks <- VpnOrLeakOrHome
  HomeIPs = {"isp"}
  VpnIPs = {}
  TTL = 1
PROPERTIES
  UnknownPauses
