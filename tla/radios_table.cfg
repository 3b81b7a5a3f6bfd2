CONSTANTS
  Signals <- Window2Signals
  Channel <- Window2Channel
  Spreading <- Window2Spreading
  GatewayPower <- Window2Power
  Power <- Window2Power
  MaxReceptions = 1
  Windows <- Window1
  NoSignal = NoSignal
SPECIFICATION Spec
INVARIANT RefusedOnlyByRival
