-------------------------- MODULE LoRaNetDeviceDuty --------------------------
(***************************************************************************)
(* The class A device with a history of its duty cycle.  An accepted       *)
(* channel mask makes every channel it names available, also one whose     *)
(* wait has not ended (lora-net-device.cc:978).  The history tells these   *)
(* channels from the others, for which the duty cycle must hold.           *)
(***************************************************************************)
EXTENDS MCLoRaNetDevice

VARIABLE unrested   \* channels a mask made available before their wait was over

InitDuty == Init /\ unrested = {}

(* A channel stays unrested until no wait of it is left: a frame it carries *)
(* starts another one, and the end of the older makes it available.         *)
NextDuty ==
  /\ Next
  /\ unrested' = {c \in Channels :
       /\ freeing'[c] > 0
       /\ \/ c \in unrested
          \/ receiving /\ ~receiving' /\ c \in channelAvailable'}

SpecDuty == InitDuty /\ [][NextDuty]_<<vars, unrested>>

FairSpecDuty == SpecDuty /\ Fairness

(* The duty cycle: a frame is sent on a channel only when the wait that the *)
(* channel's last frame started is over, unless a mask has lifted it.       *)
DutyCycleKept ==
  [][ transmission' /\ ~transmission =>
        freeing[channelIndex'] = 0 \/ channelIndex' \in unrested ]_vars

=============================================================================
