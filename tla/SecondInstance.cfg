SPECIFICATION Spec
CHECK_DEADLOCK FALSE
CONSTANTS
  i1 = i1
  i2 = i2
  a1 = a1
  Instances = {i1, i2}
  Apps = {a1}
  NoProcess = NoProcess
  Proxy = Proxy
  MaxLoads = 1
  MaxRefused = 0
  MaxHops = 1
PROPERTY ProxyRecognised
