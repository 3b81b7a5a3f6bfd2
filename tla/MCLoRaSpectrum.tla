---------------------------- MODULE MCLoRaSpectrum ----------------------------
EXTENDS LoRaSpectrum

\* Signals 1 and 2 have overlapping channels and the same spreading factor;
\* 3 and 4 are orthogonal to them and to each other.
MCSignals == 1..4
MCChannel == <<8681000, 8680900, 8681000, 8681000>>
MCSpreading == <<12, 12, 10, 9>>
MCWindows == {[channel |-> 8681000, spreading |-> 12],
              [channel |-> 8680900, spreading |-> 12]}
MCGatewayPower == <<1, 5, 1, 1>>
MCDevicePower == <<8, 3, 1, 1>>

\* A downlink of window 2 and one of window 1, to a device at SF 10.
Window2Signals == 1..2
Window2Channel == <<8695250, 8681000>>
Window2Spreading == <<12, 10>>
Window1 == {[channel |-> 8681000, spreading |-> 10]}
Window2Power == <<2, 1>>

=============================================================================
