------------------------------- MODULE ClassA --------------------------------
(***************************************************************************)
(* What a class A end device promises, with neither events nor queue nor   *)
(* channels: it owns at most one frame, numbers its frames without gap or  *)
(* reuse, and sends one in exchanges of an uplink followed by two receive  *)
(* windows.  The radio is silent outside an exchange, a new exchange never *)
(* begins before the windows of the previous one are over or answered, and *)
(* a frame is dropped only when it has been answered or tried often enough.*)
(***************************************************************************)
EXTENDS Integers

CONSTANTS MaxTries, SeqMod, NoFrame

VARIABLES
  phase,    \* where the device is in an exchange
  frame,    \* the frame being sent, or NoFrame
  tries,    \* uplinks of that frame
  counter   \* the number of the next new frame

classAVars == <<phase, frame, tries, counter>>

Init ==
  /\ phase = "standby"
  /\ frame = NoFrame
  /\ tries = 0
  /\ counter = 0

(* The frame needs no further uplink. *)
Done ==
  \/ frame = NoFrame
  \/ frame.confirmed /\ tries = MaxTries
  \/ ~frame.confirmed /\ tries > 0

NewFrame ==
  /\ phase = "standby"
  /\ Done
  /\ \E confirmed, adrAck \in BOOLEAN :
       frame' = [confirmed |-> confirmed, seq |-> counter, adrAck |-> adrAck]
  /\ tries' = 0
  /\ counter' = (counter + 1) % SeqMod
  /\ UNCHANGED phase

DropFrame ==
  /\ phase = "standby"
  /\ Done
  /\ frame' = NoFrame
  /\ UNCHANGED <<phase, tries, counter>>

Uplink ==
  /\ phase = "standby"
  /\ ~Done
  /\ phase' = "uplink"
  /\ tries' = tries + 1
  /\ UNCHANGED <<frame, counter>>

(* The exchange goes on without an answer.  A reception that began in      *)
(* window 1 may run into window 2.                                         *)
Advance ==
  /\ \/ phase = "uplink"  /\ phase' = "gap1"
     \/ phase = "gap1"    /\ phase' = "window1"
     \/ phase = "window1" /\ phase' \in {"gap2", "window2"}
     \/ phase = "gap2"    /\ phase' = "window2"
     \/ phase = "window2" /\ phase' = "standby"
  /\ UNCHANGED <<frame, tries, counter>>

(* A downlink ends the exchange and answers the frame. *)
Downlink ==
  /\ phase \in {"window1", "window2"}
  /\ phase' = "standby"
  /\ frame' = NoFrame
  /\ UNCHANGED <<tries, counter>>

Next == NewFrame \/ DropFrame \/ Uplink \/ Advance \/ Downlink

Spec == Init /\ [][Next]_classAVars

=============================================================================
