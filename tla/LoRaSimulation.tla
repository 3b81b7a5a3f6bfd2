---------------------------- MODULE LoRaSimulation ----------------------------
(***************************************************************************)
(* The programs of examples/: a network (LoRaNetwork) that the helper      *)
(* (helper/lora-helper.cc) builds, simulated several times in one process, *)
(* and the statistics the programs gather through its trace sources and    *)
(* write to a file.                                                        *)
(*                                                                         *)
(* What outlives a simulation is the point: the counter behind             *)
(* Mac32Address::Allocate and the programs' global maps.                   *)
(*                                                                         *)
(* Devices and gateways are numbers, in the order in which the helper      *)
(* installs them. Time is in coarse ticks; a frame is on its way for as    *)
(* long as its copies are. The trace sources fire by ScheduleNow, in the   *)
(* instant of what they report and before Simulator::Stop can intervene.   *)
(***************************************************************************)
EXTENDS LoRaNetwork, Mac32Address

CONSTANTS
  Programs,          \* the programs with their command lines
  Places,            \* where a device can be: its distance to each gateway
  Duration,          \* of a simulation
  Interval,          \* "InterPacketTime": between two packets of a device
  MaxTransmissions,  \* bound: of a device in a simulation
  MaxIterations      \* bound: simulations of a program

(* What the programs differ in. Only lora.cc has a command line, and a     *)
(* start of measurements (-1 stands for none); a reporting interval of 0    *)
(* is a report at the end only.                                            *)
Options ==
  [rslora : BOOLEAN, ack : BOOLEAN, random : BOOLEAN, start : -1..Duration,
   reporting : 0..Duration - 1, iterations : Nat]

ASSUME SimulationAssumption ==
  /\ Devices = 1..Cardinality(Devices) /\ Cardinality(Devices) \in Nat
  /\ Gateways = 1..Cardinality(Gateways) /\ Cardinality(Gateways) \in 1..7
  /\ Places \subseteq [Gateways -> Nat] /\ Places # {}
  /\ {Duration, Interval, MaxTransmissions, MaxIterations} \subseteq Nat \ {0}
  /\ Duration <= MaxFrames * Interval   \* a device never has more to send
  /\ Programs \subseteq Options

LoRaBattery ==
  [rslora |-> FALSE, ack |-> FALSE, random |-> FALSE, start |-> -1,
   reporting |-> 0, iterations |-> 10]

RsExample ==
  [rslora |-> TRUE, ack |-> FALSE, random |-> FALSE, start |-> -1,
   reporting |-> 0, iterations |-> 10]

(* lora.cc with its default of five iterations and any other options. *)
LoRa ==
  [rslora : BOOLEAN, ack : BOOLEAN, random : BOOLEAN, start : 0..Duration - 1,
   reporting : 0..Duration - 1, iterations : {5}]

VARIABLES
  program,       \* the one that runs
  phase,         \* "main" between simulations, "running" in one
  iteration,     \* iterationI
  id,            \* the static counter of Mac32Address::Allocate
  address,       \* of each device
  place,         \* of each device
  offset,        \* "Offset" of each gateway
  offset2,       \* "Offset2" of each device
  sinks,         \* gateways with a LoRaSinkApplication
  senseAt,       \* when StartApplication or else Sense runs next on each device
  now,           \* Simulator::Now ()
  stored,        \* when ScheduleStoring last ran
  delayed,       \* pending LoRaApplication::Send events
  queue,         \* packets a device has been handed and has not sent
  transmissions, \* of each device in this simulation
  deviceMap,     \* by address, the device: its simulation and number
  errorMap,      \* by address, the statistics
  rows           \* history: what StoreData has written

setup == <<program, id, address, place, offset, offset2, sinks, deviceMap>>
traffic == <<senseAt, delayed, queue, transmissions>>
clock == <<phase, iteration, now, stored>>
simulationVars == <<vars, setup, traffic, clock, errorMap, rows>>

InitSimulation ==
  /\ Init
  /\ program \in Programs
  /\ phase = "main" /\ iteration = 0 /\ id = 0 /\ now = 0 /\ stored = 0
  /\ address = [d \in Devices |-> NoAddress]
  /\ place \in [Devices -> Places]
  /\ offset = [g \in Gateways |-> 0]
  /\ offset2 = [d \in Devices |-> 0]
  /\ sinks = {}
  /\ senseAt = [d \in Devices |-> 0]
  /\ delayed = [d \in Devices |-> 0]
  /\ queue = [d \in Devices |-> 0]
  /\ transmissions = [d \in Devices |-> 0]
  /\ deviceMap = <<>> /\ errorMap = <<>> /\ rows = <<>>

-----------------------------------------------------------------------------
(* Setting up a simulation *)

(* Mutant of GatewayNode: another node is created before the gateways. *)
GatewayNodeAfterAnother(g) == g + 1

(* The network is node 0 and the gateways follow it. *)
GatewayNode(g) == g

Offsets == <<2, 3, 3, 1, 2, 2, 3>>

(* The node of the nearest gateway, the first one of several. *)
GetClosestGateway(where) ==
  GatewayNode(Min({g \in Gateways : \A h \in Gateways : where[g] <= where[h]}))

(* The offsets of new gateways, *)
InstallGateways == [g \in Gateways |-> 0]

(* which RS-LoRa ones have too; *)
InstallRsGateways == [g \in Gateways |-> 0]

(* the programs give each of those one of its own for its beacons, *)
SetOffset(gateways) == [g \in DOMAIN gateways |-> Offsets[g] - 1]

(* and each RS-LoRa device listens to those of the gateway nearest to it. *)
SetOffset2 ==
  offset2' = [d \in Devices |-> Offsets[GetClosestGateway(place'[d])] - 1]

(* Addresses for the devices, after one that is kept for the gateways; *)
Install ==
  /\ id' = id + 1 + Cardinality(Devices)
  /\ address' = [d \in Devices |-> Allocate(id + 1 + d)]

(* nothing is kept for the gateways here. *)
InstallRs ==
  /\ id' = id + Cardinality(Devices)
  /\ address' = [d \in Devices |-> Allocate(id + d)]

(* A sink application passes on what its gateway and the network say. *)
FinishGateways == sinks' = Gateways

InstallBackend ==
  /\ whiteList' = Devices
  /\ latest' = [d \in Devices |-> Unheard]

(* The maps get an entry for each device. *)
Stored(entries, map) ==
  [a \in DOMAIN entries \cup DOMAIN map |->
     IF a \in DOMAIN entries THEN entries[a] ELSE map[a]]

HookUp ==
  /\ deviceMap' = Stored([a \in Range(address') |->
       [simulation |-> iteration, dev |-> CHOOSE d \in Devices : address'[d] = a]],
       deviceMap)
  /\ errorMap' = Stored([a \in Range(address') |->
       [transmitted |-> 0, received |-> 0, unique |-> 0, closest |-> 0]], errorMap)

(* The application of a device starts at a random time up to "Max" of      *)
(* randT; the simulation may be over by then.                              *)
StartTimes(max) == 0..Min({max, Duration})

GenerateTraffic(max) == senseAt' \in [Devices -> StartTimes(max)]

(* What mainBody begins with in each program, *)
Begin ==
  /\ phase = "main"
  /\ iteration < program.iterations /\ iteration < MaxIterations
  /\ phase' = "running"
  /\ place' \in [Devices -> Places]

(* and what it ends with before Simulator::Run. *)
Connect ==
  /\ FinishGateways
  /\ InstallBackend
  /\ HookUp
  /\ UNCHANGED <<program, iteration, now, stored, delayed, queue, transmissions, rows,
                 packetToTransmit, stats, sendAck, netRx, answering, deviceVars,
                 copies, heard, reported, downlinks, owed>>

(* mainBody of lora.cc *)
MainBody ==
  /\ program \in LoRa
  /\ Begin
  /\ \/ /\ program.rslora
        /\ offset' = SetOffset(InstallRsGateways)
        /\ InstallRs /\ SetOffset2
     \/ /\ ~program.rslora
        /\ offset' = InstallGateways
        /\ Install /\ UNCHANGED offset2
  /\ GenerateTraffic(Interval - 1)
  /\ Connect

(* mainBody of lora_battery.cc, where "Max" is 600 s and an interval 120 s *)
MainBodyLoRaBattery ==
  /\ program = LoRaBattery
  /\ Begin
  /\ offset' = InstallGateways /\ Install /\ UNCHANGED offset2
  /\ GenerateTraffic(5 * Interval - 1)
  /\ Connect

(* and of rs-example.cc, which has the same ones. *)
MainBodyRsExample ==
  /\ program = RsExample
  /\ Begin
  /\ offset' = SetOffset(InstallRsGateways) /\ InstallRs /\ SetOffset2
  /\ GenerateTraffic(5 * Interval - 1)
  /\ Connect

-----------------------------------------------------------------------------
(* The statistics *)

Measuring == program \in LoRa => now > program.start

Count(a, field) == errorMap' = [errorMap EXCEPT ![a][field] = @ + 1]

(* lora_battery.cc and rs-example.cc count everything, *)
CountTransmitted(d) == Count(address[d], "transmitted")

CountReceived(c) ==
  LET a     == address[c.dev]
      where == place[deviceMap[a].dev]
  IN  errorMap' = [errorMap EXCEPT
        ![a].received = @ + 1,
        ![a].closest = @ + (IF GatewayNode(c.gw) = GetClosestGateway(where)
                            THEN 1 ELSE 0)]

CountUnique(d) == Count(address[d], "unique")

(* lora.cc from some time on. The trace MacTx of a device, at each of its   *)
(* transmissions;                                                          *)
Transmitted(d) == IF Measuring THEN CountTransmitted(d) ELSE UNCHANGED errorMap

(* Mutant of Received: counted from the beginning. *)
ReceivedAlways(c) == Count(address[c.dev], "received")

(* the trace NetPromiscRx of the network, for every copy; *)
Received(c) == IF Measuring THEN CountReceived(c) ELSE UNCHANGED errorMap

(* and the trace NetRx, for every frame it has not seen before. *)
ReceivedUnique(d) == IF Measuring THEN CountUnique(d) ELSE UNCHANGED errorMap

(* A line for each entry of the map. *)
StoreData ==
  rows' = rows \o SetToSeq(
    {[addr |-> a, device |-> deviceMap[a], time |-> now,
      transmitted |-> errorMap[a].transmitted] : a \in DOMAIN errorMap})

-----------------------------------------------------------------------------
(* A simulation *)

(* StartApplication, and Sense once every interval from then on. A random   *)
(* delay is shorter than the interval.                                     *)
Sense(d) ==
  /\ phase = "running"
  /\ now = senseAt[d] /\ now < Duration
  /\ delayed[d] = 0
  /\ senseAt' = [senseAt EXCEPT ![d] = @ + Interval]
  /\ IF program.random
     THEN delayed' = [delayed EXCEPT ![d] = @ + 1] /\ UNCHANGED queue
     ELSE queue' = [queue EXCEPT ![d] = @ + 1] /\ UNCHANGED delayed
  /\ UNCHANGED <<vars, setup, clock, transmissions, errorMap, rows>>

(* LoRaApplication::Send, after the delay. *)
DelayedSend(d) ==
  /\ delayed[d] > 0
  /\ delayed' = [delayed EXCEPT ![d] = @ - 1]
  /\ queue' = [queue EXCEPT ![d] = @ + 1]
  /\ UNCHANGED <<vars, setup, clock, senseAt, transmissions, errorMap, rows>>

(* A device sends its next packet or repeats the last one. *)
DeviceTransmits(d) ==
  /\ phase = "running"
  /\ transmissions[d] < MaxTransmissions
  /\ transmissions' = [transmissions EXCEPT ![d] = @ + 1]
  /\ \/ /\ queue[d] > 0
        /\ queue' = [queue EXCEPT ![d] = @ - 1]
        /\ NewFrame(d)
        /\ (kind'[d] = "confirmed") = program.ack
     \/ /\ Retransmission(d)
        /\ UNCHANGED queue
  /\ Transmitted(d)
  /\ UNCHANGED <<setup, clock, senseAt, delayed, rows>>

(* A copy comes through a gateway's sink application. *)
NetworkReceives(c) ==
  /\ c.gw \in sinks
  /\ MessageReceived(c)
  /\ Received(c)
  /\ UNCHANGED <<setup, clock, traffic, rows>>

NetworkReports ==
  /\ NetRx
  /\ ReceivedUnique(Head(netRx).dev)
  /\ UNCHANGED <<setup, clock, traffic, rows>>

NetworkAnswers(d) ==
  /\ Answer(d) \/ SendAck(d)
  /\ UNCHANGED <<setup, clock, traffic, errorMap, rows>>

ReportDue == program.reporting > 0 /\ now > stored /\ now % program.reporting = 0

ScheduleStoring ==
  /\ phase = "running"
  /\ now < Duration
  /\ ReportDue
  /\ StoreData
  /\ stored' = now
  /\ UNCHANGED <<vars, setup, traffic, phase, iteration, now, errorMap>>

TimePasses ==
  /\ phase = "running"
  /\ now < Duration
  /\ netRx = <<>>
  /\ ~ReportDue
  /\ \A d \in Devices : senseAt[d] > now
  /\ now' = now + 1
  /\ UNCHANGED <<vars, setup, traffic, phase, iteration, stored, errorMap, rows>>

(* Simulator::Destroy: whatever is still on its way is gone. *)
Destroy ==
  /\ whiteList' = {}
  /\ latest' = [d \in Devices |-> 0]
  /\ packetToTransmit' = [d \in Devices |-> NoMessage]
  /\ stats' = [d \in Devices |-> NoStats]
  /\ sendAck' = [d \in Devices |-> 0]
  /\ netRx' = <<>>
  /\ answering' = {}
  /\ sent' = [d \in Devices |-> 0]
  /\ kind' = [d \in Devices |-> "plain"]
  /\ copies' = {}
  /\ heard' = [d \in Devices |-> {}]
  /\ reported' = [d \in Devices |-> <<>>]
  /\ downlinks' = [d \in Devices |-> <<>>]
  /\ owed' = [d \in Devices |-> {}]
  /\ sinks' = {}
  /\ senseAt' = [d \in Devices |-> 0]
  /\ delayed' = [d \in Devices |-> 0]
  /\ queue' = [d \in Devices |-> 0]
  /\ transmissions' = [d \in Devices |-> 0]
  /\ now' = 0
  /\ stored' = 0

(* Mutant of Cleared: the next simulation adds to the map. *)
NotCleared == errorMap

Cleared == <<>>

(* Simulator::Stop ends Run; main writes the statistics and goes on. *)
Finish ==
  /\ phase = "running"
  /\ now = Duration
  /\ netRx = <<>>
  /\ StoreData
  /\ errorMap' = Cleared
  /\ Destroy
  /\ phase' = "main"
  /\ UNCHANGED <<program, id, address, place, offset, offset2, deviceMap>>

(* The loop of lora.cc: iterationCount is a double, iterationI a uint8_t. *)
EndIteration ==
  /\ program \in LoRa
  /\ Finish
  /\ iteration' = (iteration + 1) % 256

(* The loop of lora_battery.cc, *)
EndIterationLoRaBattery ==
  /\ program = LoRaBattery
  /\ Finish
  /\ iteration' = iteration + 1

(* and that of rs-example.cc. *)
EndIterationRsExample ==
  /\ program = RsExample
  /\ Finish
  /\ iteration' = iteration + 1

NextSimulation ==
  \/ MainBody \/ MainBodyLoRaBattery \/ MainBodyRsExample
  \/ \E d \in Devices :
       Sense(d) \/ DelayedSend(d) \/ DeviceTransmits(d) \/ NetworkAnswers(d)
  \/ \E c \in copies : NetworkReceives(c)
  \/ NetworkReports
  \/ ScheduleStoring
  \/ TimePasses
  \/ EndIteration \/ EndIterationLoRaBattery \/ EndIterationRsExample

SpecSimulation == InitSimulation /\ [][NextSimulation]_simulationVars

-----------------------------------------------------------------------------
(* Properties *)

(* The counts of a device bound each other as their names say. "transmitted, *)
(* received, uniquelyReceived, closestReceived" (lora.cc): nothing is received *)
(* that was not transmitted, by a gateway or at all, except what was on its *)
(* way when the measurement started: that is one transmission.             *)
StatisticsSound ==
  phase = "running" =>
    \A d \in Devices :
      LET count     == errorMap[address[d]]
          straddles == IF transmissions[d] > count.transmitted THEN 1 ELSE 0
          most      == count.transmitted + straddles
      IN  /\ count.unique <= most
          /\ count.closest <= most
          /\ count.received <= Cardinality(Gateways) * most
          /\ {count.unique, count.closest} \subseteq 0..count.received

(* An address in the output file, which holds several simulations, is that *)
(* of one device, and its lines are reports of ever later times on ever    *)
(* more transmissions.                                                     *)
LinesOfOneDevice ==
  \A i, j \in DOMAIN rows :
    i < j /\ rows[i].addr = rows[j].addr =>
      /\ rows[i].device = rows[j].device
      /\ rows[i].time < rows[j].time
      /\ rows[i].transmitted <= rows[j].transmitted

(* With RS-LoRa a device listens to the beacons of a gateway nearest to it *)
(* ("this is a dirty workaround. Make sure to create first the network and *)
(* then the gateways", lora.cc).                                           *)
ListensToNearest ==
  phase = "running" /\ program.rslora =>
    \A d \in Devices :
      \E g \in Gateways :
        /\ offset2[d] = offset[g]
        /\ \A h \in Gateways : place[d][g] <= place[d][h]

=============================================================================
