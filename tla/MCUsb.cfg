SPECIFICATION Spec
CONSTANTS
  NoPacket = NoPacket
  LineSize = 3
  EchoSize = 1
  Scenarios <- UsbScenarios
INVARIANT UsbTypeOK HostServed TransfersExact HostAgrees TogglesAgree EndpointsArmed NothingLost
INVARIANT EchoInOrder MainWoken UrbsAnswered
CHECK_DEADLOCK FALSE
