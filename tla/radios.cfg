CONSTANTS
  Signals <- MCSignals
  Channel <- MCChannel
  Spreading <- MCSpreading
  GatewayPower <- MCGatewayPower
  Power <- MCDevicePower
  MaxReceptions = 1
  Windows <- MCWindows
  NoSignal = NoSignal
SPECIFICATION Spec
INVARIANTS
  GatewayCapture
  DeviceCapture
  RefusedOnlyByRival
PROPERTY ImplementsLoRaPhy
