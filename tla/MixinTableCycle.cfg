SPECIFICATION Spec
CONSTANTS
  camera = camera
  rebroadcast = rebroadcast
  detector = detector
  P = P
  Q = Q
  Devices = {camera, rebroadcast}
  Plugins = {P, Q}
  PluginOf <- TwoPlugins
  Stored <- NoneStored
  Offer <- MutualMixins
  MayFail = {}
  Removable = {}
  Base = Base
  MaxBuilt <- TwoEach
  MaxInst <- OneInst
  MaxSaving <- OneEach
INVARIANT NoMixinCycle
CHECK_DEADLOCK FALSE
