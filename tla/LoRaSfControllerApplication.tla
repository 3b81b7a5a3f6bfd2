-------------------- MODULE LoRaSfControllerApplication --------------------
(***************************************************************************)
(* The application that selects spreading factors per group of devices     *)
(* (model/lora-sf-controller-application.cc), and the devices that follow  *)
(* it or do not.  The devices are sorted by how well they are heard and    *)
(* fall into ten groups; every ten minutes the groups' bandits of one of   *)
(* three frequencies judge the last selection and make a new one, and a    *)
(* device that has not confirmed is told at each of its frames.            *)
(*                                                                         *)
(* Frames and downlinks may be lost.  How a request travels is the subject *)
(* of LoRaCommandExchange; here the downlink holds it, or nothing.         *)
(***************************************************************************)
EXTENDS SfMab, FiniteSetsExt

CONSTANTS
  Devices,          \* addresses, in the order of the map
  Rssis,            \* Rssis[d]: strengths a frame of d may be received with
  Used,             \* the frequencies the devices' masks allow
  FrameNumbers,     \* how many numbers a frame may have, 2^16
  Words,            \* how many values a uint32_t has, 2^32
  Selectable,       \* bound: Selectable[f][g] are the arms GetSf may return
  MaxFrames,        \* bound: frames of all devices
  MaxCalculations,  \* bound: how often settings are calculated
  NoData,           \* an address m_data has no entry for
  NoRequest         \* no downlink is on its way

Frequencies == 0..2   \* indices of m_freqs
Groups == 0..9

(* What m_data keeps of a device. *)
Entries ==
  [rssi : Nat, lastPacketNumber : Nat, lastValue : [Frequencies -> Nat],
   received : [Frequencies -> Nat]]

Request == [channel : Frequencies, min : 0..5, max : 0..5]

ASSUME ControllerConstants ==
  /\ Devices \subseteq Nat /\ IsFiniteSet(Devices)
  /\ \A d \in Devices : Rssis[d] \subseteq Nat
  /\ Used \subseteq Frequencies
  /\ \A f \in Frequencies, g \in Groups :
       Selectable[f][g] \in SUBSET Arms \ {{}}
  /\ {FrameNumbers, Words, MaxFrames, MaxCalculations} \subseteq Nat \ {0}
  /\ FrameNumbers <= Words
  /\ NoData \notin Entries
  /\ NoRequest \notin Request

VARIABLES
  data,         \* m_data
  settings,     \* m_settings
  selection,    \* m_lastSelection + 1 of each bandit
  lastChannel,  \* m_lastChannel
  calculation,  \* the pending CalculateSetting: "first", "next" or "none"
  limits,       \* the data rates each device uses on each frequency
  answers,      \* how many NewChannelAns its next frame will carry
  seqNum,       \* how many frames it has sent
  downlink,     \* the request on its way to it
  calculated,   \* history: how often settings have been calculated
  updated,      \* history: the arms the last observations updated, by group
  overtaken     \* history: a setting was replaced before all had confirmed

controllerVars == <<data, settings, selection, lastChannel, calculation>>
deviceVars == <<limits, answers, seqNum>>
historyVars == <<calculated, updated, overtaken>>
vars == <<controllerVars, deviceVars, downlink, historyVars>>

Init ==
  /\ data = [d \in Devices |-> NoData]
  /\ settings = [d \in Devices |-> [sfs |-> [f \in Frequencies |-> {}], acked |-> FALSE]]
  /\ selection = [f \in Frequencies |-> [g \in Groups |-> 1]]
  /\ lastChannel = 0
  /\ calculation = "first"
  /\ limits = [d \in Devices |-> [f \in Frequencies |-> [min |-> 0, max |-> 5]]]
  /\ answers = [d \in Devices |-> 0]
  /\ seqNum = [d \in Devices |-> 0]
  /\ downlink = [d \in Devices |-> NoRequest]
  /\ calculated = 0
  /\ updated = [g \in Groups |-> <<>>]
  /\ overtaken = FALSE

-----------------------------------------------------------------------------
(* Calculating settings *)

Listed == {d \in Devices : data[d] # NoData}

(* The position of d in the list sorted by strength; sort is stable. *)
Index(d) ==
  Cardinality({e \in Listed : \/ data[e].rssi > data[d].rssi
                              \/ data[e].rssi = data[d].rssi /\ e < d})

Group(d) == (10 * Index(d)) \div Cardinality(Listed)

(* The frames a device has sent since f was judged last, an unsigned        *)
(* difference.                                                              *)
SentSince(entry, f) == (entry.lastPacketNumber - entry.lastValue[f]) % Words

TotalPackets(g, f) ==
  MapThenSumSet(LAMBDA d : SentSince(data[d], f), {d \in Listed : Group(d) = g})

(* Mutant of Judged: what was received before counts again. *)
JudgedAgain(entry, f) == [entry EXCEPT !.lastValue[f] = entry.lastPacketNumber]

(* What remains of a device's data once f has been judged. *)
Judged(entry, f) ==
  [entry EXCEPT !.lastValue[f] = entry.lastPacketNumber, !.received[f] = 0]

(* Mutant of Select: a changed selection counts as confirmed. *)
SelectSilently(setting, f, sfs) == [setting EXCEPT !.sfs[f] = sfs]

Select(setting, f, sfs) ==
  [setting EXCEPT !.sfs[f] = sfs, !.acked = setting.sfs[f] = sfs /\ @]

(* The first one runs 20 minutes after the start, so on frequency 2; each   *)
(* one schedules the next, in ten minutes, on the following frequency. A    *)
(* group that nobody is in is taken to select the arm it had, as it may.    *)
CalculateSetting ==
  /\ calculation # "none"
  /\ calculated < MaxCalculations
  /\ calculation' = "next"
  /\ lastChannel' = (calculated + 2) % 3
  /\ calculated' = calculated + 1
  /\ overtaken' = (overtaken \/ \E d \in Listed :
       ~settings[d].acked \/ downlink[d] # NoRequest \/ answers[d] > 0)
  /\ LET f == lastChannel'
         occupied == {Group(d) : d \in Listed}
     IN /\ updated' = [g \in Groups |-> IF TotalPackets(g, f) # 0
                                        THEN NewObservation(selection[f][g]) ELSE <<>>]
        /\ \E arm \in [occupied -> Arms] :
             /\ \A g \in occupied : arm[g] \in Selectable[f][g]
             /\ selection' = [selection EXCEPT
                  ![f] = [g \in Groups |-> IF g \in occupied THEN arm[g] ELSE @[g]]]
             /\ settings' = [d \in Devices |->
                  IF d \in Listed
                  THEN Select(settings[d], f, GetSpreadingFactors(arm[Group(d)]))
                  ELSE settings[d]]
        /\ data' = [d \in Devices |-> IF d \in Listed THEN Judged(data[d], f) ELSE NoData]
  /\ UNCHANGED <<deviceVars, downlink>>

(* Only the event of StartApplication is cancelled. *)
StopApplication ==
  /\ calculation = "first"
  /\ calculation' = "none"
  /\ UNCHANGED <<data, settings, selection, lastChannel, deviceVars, downlink,
                 historyVars>>

-----------------------------------------------------------------------------
(* Frames and requests *)

Highest(S) == CHOOSE b \in S : \A other \in S : b >= other

GetMinDr(sfs) == 5 - Highest(sfs)
GetMaxDr(sfs) == 5 - Lowest(sfs)

(* m_data[addr] makes an entry of zeros for an address it does not have. *)
Entry(d) ==
  IF data[d] # NoData THEN data[d]
  ELSE [rssi |-> 0, lastPacketNumber |-> 0, lastValue |-> [f \in Frequencies |-> 0],
        received |-> [f \in Frequencies |-> 0]]

ConfirmDataRate(setting) == [setting EXCEPT !.acked = TRUE]

(* The application is told of a frame received on f: any answer in it       *)
(* confirms, and a device that has not confirmed is told the selection of   *)
(* the frequency that was calculated last.                                  *)
NewPacket(d, f, rssi) ==
  LET setting == IF answers[d] > 0 THEN ConfirmDataRate(settings[d]) ELSE settings[d]
      sfs == setting.sfs[lastChannel]
  IN /\ data' = [data EXCEPT ![d] =
            [Entry(d) EXCEPT !.rssi = rssi, !.received[f] = @ + 1,
                             !.lastPacketNumber = seqNum[d] % FrameNumbers]]
     /\ settings' = [settings EXCEPT ![d] = [setting EXCEPT !.acked = @ \/ sfs = {}]]
     /\ IF setting.acked \/ sfs = {} THEN UNCHANGED downlink
        ELSE \E maxDr \in GetMinDr(sfs)..GetMaxDr(sfs) :
               downlink' = [downlink EXCEPT
                 ![d] = [channel |-> lastChannel, min |-> GetMinDr(sfs), max |-> maxDr]]

(* A new frame of d is heard on f, or lost; its answers are in it. *)
Send(d) ==
  /\ downlink[d] = NoRequest
  /\ MapThenSumSet(LAMBDA e : seqNum[e], Devices) < MaxFrames
  /\ \/ \E f \in Used, rssi \in Rssis[d] : NewPacket(d, f, rssi)
     \/ UNCHANGED <<data, settings, downlink>>
  /\ seqNum' = [seqNum EXCEPT ![d] = @ + 1]
  /\ answers' = [answers EXCEPT ![d] = 0]
  /\ UNCHANGED <<selection, lastChannel, calculation, limits, historyVars>>

(* The device executes the request: AddChannel and the data rates succeed. *)
NewChannelReq(d) ==
  /\ downlink[d] # NoRequest
  /\ limits' = [limits EXCEPT
       ![d][downlink[d].channel] = [min |-> downlink[d].min, max |-> downlink[d].max]]
  /\ answers' = [answers EXCEPT ![d] = @ + 1]
  /\ downlink' = [downlink EXCEPT ![d] = NoRequest]
  /\ UNCHANGED <<controllerVars, seqNum, historyVars>>

DownlinkLost(d) ==
  /\ downlink[d] # NoRequest
  /\ downlink' = [downlink EXCEPT ![d] = NoRequest]
  /\ UNCHANGED <<controllerVars, deviceVars, historyVars>>

-----------------------------------------------------------------------------
Next ==
  \/ CalculateSetting
  \/ StopApplication
  \/ \E d \in Devices : Send(d) \/ NewChannelReq(d) \/ DownlinkLost(d)

Spec == Init /\ [][Next]_vars

-----------------------------------------------------------------------------
(* Properties *)

Comparable(S, T) == S \subseteq T \/ T \subseteq S

(* An observation is about every selection that contains the one it was     *)
(* made of or is contained in it: each of their arms learns from it once,   *)
(* and no other arm does.                                                   *)
EachComparableArmOnce ==
  [][ \A g \in Groups :
        calculated' # calculated /\ updated'[g] # <<>> =>
          LET judged == selection[lastChannel'][g]
          IN \A arm \in Arms :
               Cardinality({k \in DOMAIN updated'[g] : updated'[g][k] = arm})
                 = IF Comparable(GetSpreadingFactors(arm), GetSpreadingFactors(judged))
                   THEN 1 ELSE 0 ]_vars

(* As long as the numbers of a device's frames, 16 bits of m_seqNum, have    *)
(* not started anew, they do not fall below the one at which a frequency    *)
(* was judged, so that the unsigned difference in CalculateSetting does not *)
(* wrap; and no more frames are counted as received on the frequency than   *)
(* it says were sent. Before the first judgement that sees another number   *)
(* than 0, it misses frame 0: one more may have been received, and the      *)
(* share exceed 1.                                                          *)
ReceivedWereSent ==
  \A d \in Listed, f \in Frequencies :
    LET first == IF data[d].lastValue[f] = 0 THEN 1 ELSE 0
    IN seqNum[d] <= FrameNumbers =>
         /\ data[d].lastValue[f] <= data[d].lastPacketNumber
         /\ data[d].received[f] <= SentSince(data[d], f) + first

(* As long as every device has confirmed each setting by the time the next  *)
(* one is calculated, whatever is lost on the way, a device that is taken   *)
(* to have confirmed uses, on the frequency that was calculated last, only  *)
(* data rates of the spreading factors selected for its group               *)
(* ("ConfirmDataRate confirms the data rate setting of a node that was      *)
(* addressed", lora-network-application.h).                                 *)
ConfirmedInTimeIsFollowed ==
  ~overtaken =>
    \A d \in Devices :
      LET sfs == settings[d].sfs[lastChannel]
          used == limits[d][lastChannel]
      IN settings[d].acked /\ downlink[d] = NoRequest /\ sfs # {} =>
           used.min..used.max \subseteq {5 - b : b \in sfs}

=============================================================================
