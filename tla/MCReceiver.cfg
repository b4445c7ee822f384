SPECIFICATION Spec
CONSTANTS
  synth = synth
  effect = effect
  synthService = synthService
  effectService = effectService
  Plugins = {synth, effect}
  Instruments = {synth}
  Services = {synthService, effectService}
  ServiceOf <- MCServiceOf
  StreamMayFail = TRUE
  MaxOpens = 3
  MaxReconnects = 1
INVARIANTS TypeOK ActiveIsReady ProtocolAgreed ReleasedOnlyWhenQuiet ControlFaultOnlyAfterClose CallbackNeverFaults
PROPERTIES ListStableInCallback MidiThreadUndisturbed NothingDropped LifecycleSpec
CHECK_DEADLOCK FALSE
