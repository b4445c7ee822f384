SPECIFICATION Spec
CONSTANTS
  synth = synth
  effect = effect
  synthService = synthService
  effectService = effectService
  Plugins = {synth, effect}
  Instruments = {synth}
  Services = {synthService, effectService}
  ServiceOf <- MCServiceOf
  StreamMayFail = FALSE
  MaxOpens = 2
  MaxReconnects = 0
INVARIANTS OneInstrument
CHECK_DEADLOCK FALSE
