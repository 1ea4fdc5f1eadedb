SPECIFICATION Spec
CONSTANTS
  camera = camera
  rebroadcast = rebroadcast
  detector = detector
  P = P
  Q = Q
  Devices = {camera, rebroadcast, detector}
  Plugins = {P, Q}
  PluginOf <- CameraPlugins
  Stored <- CameraStored
  Offer <- CameraMixins
  MayFail = {detector}
  Removable = {detector}
  Base = Base
  MaxBuilt <- CameraBuilt
  MaxInst <- CameraInst
  MaxSaving <- CameraSaving
INVARIANTS TypeOK ChainIntact ReleasedOnce NoStaleLayer ListedIsLayered
CHECK_DEADLOCK FALSE
