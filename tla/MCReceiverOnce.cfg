SPECIFICATION FairSpec
CONSTANTS
  synth = synth
  effect = effect
  synthService = synthService
  effectService = effectService
  Plugins = {synth, effect}
  Instruments = {synth}
  Services = {synthService, effectService}
  ServiceOf <- MCServiceOf
  StreamMayFail = FALSE
  MaxOpens = 1
  MaxReconnects = 0
PROPERTIES Activates Closes
CHECK_DEADLOCK FALSE
