------------------------------ MODULE Station ------------------------------
(***************************************************************************)
(* The Wi-Fi station.  Hosts connect and disconnect it by commands, which  *)
(* poll the driver and save credentials that worked; a task connects it    *)
(* with the saved credentials after a start, and another one tries again   *)
(* when the event task hears that the station was disconnected.            *)
(*                                                                         *)
(* Each transport has a runtime of its own, and so has the automatic       *)
(* connection: an address that is obtained clears none of its retries.     *)
(* A network stands for its name and, as a password, for its password.     *)
(***************************************************************************)
EXTENDS Naturals, Sequences

CONSTANTS
    Networks,         \* the networks there are
    NoNetwork,        \* an empty name or password
    Commanders,       \* the transports whose hosts may command the station
    MaxEvents,        \* events waiting for the event task, at most
    FinalRetry,       \* the last retry number that reconnects (4)
    CommandsOverlap,  \* commands of two transports may run at the same time
    LateEvents,       \* a disconnect may be heard before the task that
                      \*   requested the connection has ended
    AcceptsConnected, \* the driver accepts a request while it is connected
    StationFaults     \* what may fail: requests, writes, power, reading the
                      \*   saved credentials, their configuration at a
                      \*   start, and the creation of a task

ASSUME StationAssumption ==
    /\ NoNetwork \notin Networks
    /\ MaxEvents \in Nat \ {0} /\ FinalRetry \in Nat \ {0}
    /\ {CommandsOverlap, LateEvents, AcceptsConnected} \subseteq BOOLEAN
    /\ StationFaults \subseteq {"request", "ssid", "password", "power", "read", "config", "create"}

Names == Networks \cup {NoNetwork}
Pairs == [ssid : Names, password : Names]
NoPair == [ssid |-> NoNetwork, password |-> NoNetwork]
PairOf(n) == [ssid |-> n, password |-> n]

VARIABLES
    link,       \* "down", "joining", "associated" or "address"
    joined,     \* the network of the association
    driver,     \* the station configuration of the driver
    events,     \* what the event task has to hear
    announced,  \* the address discovery announces is set
    credentials,\* the saved name and password
    retry,      \* automatic_retry_number
    delayed,    \* the delayed connection is scheduled
    unheeded,   \* history: the disconnect heard last got no task
    reconnect,  \* stage of the reconnect task; "idle": reconnect_task_active_ is false
    command,    \* stage of each transport's command
    station,    \* the runtime of each transport
    saving      \* the name and password each transport's command saves

stationVars == <<link, joined, driver, events, announced, credentials, retry, delayed,
                 unheeded, reconnect, command, station, saving>>

Stages == {"idle", "settle", "configure", "connect", "associate", "address",
           "save_ssid", "save_password", "report"}
Runtimes == [state : {"idle", "attempt_started", "associated", "address_ready", "error"},
             ssid : Names, password : Names]
IdleRuntime == [state |-> "idle", ssid |-> NoNetwork, password |-> NoNetwork]

StationTypeOK ==
    /\ link \in {"down", "joining", "associated", "address"} /\ joined \in Names
    /\ driver \in Pairs /\ credentials \in Pairs
    /\ events \in Seq({"disconnected", "got_ip"}) /\ Len(events) <= MaxEvents
    /\ announced \in BOOLEAN /\ delayed \in BOOLEAN /\ unheeded \in BOOLEAN
    /\ retry \in 0..FinalRetry + 1
    /\ reconnect \in {"idle", "created", "waiting", "requesting", "ending"}
    /\ command \in [Commanders -> Stages] /\ station \in [Commanders -> Runtimes]
    /\ saving \in [Commanders -> Pairs]

(* load_and_schedule: the saved credentials go to the driver, and a task is  *)
(* created that connects; what the driver has and whether it is scheduled.  *)
load_and_schedule(saved) ==
    IF saved.ssid = NoNetwork THEN {[driver |-> NoPair, delayed |-> FALSE]}
    ELSE {[driver |-> saved, delayed |-> TRUE]}
         \cup {[driver |-> NoPair, delayed |-> FALSE] : f \in StationFaults \cap {"read"}}
         \cup {[driver |-> NoPair, delayed |-> TRUE] : f \in StationFaults \cap {"config"}}
         \cup {[driver |-> saved, delayed |-> FALSE] : f \in StationFaults \cap {"create"}}

Started(saved) ==
    /\ link = "down" /\ joined = NoNetwork /\ events = << >> /\ announced = FALSE
    /\ \E loaded \in load_and_schedule(saved) :
          driver = loaded.driver /\ delayed = loaded.delayed
    /\ credentials = saved /\ retry = 0 /\ reconnect = "idle" /\ unheeded = FALSE
    /\ command = [c \in Commanders |-> "idle"]
    /\ station = [c \in Commanders |-> IdleRuntime]
    /\ saving = [c \in Commanders |-> NoPair]

StationInit == \E n \in Names : Started(PairOf(n))

Tell(event) == events' = Append(events, event)
Room == Len(events) < MaxEvents

-----------------------------------------------------------------------------
(* The driver.  A request is refused while the station joins or is joined;  *)
(* a disconnection is heard of.                                             *)
request_connect(accepted) ==
    \/ link = "down" /\ link' = "joining" /\ accepted
    \/ link # "down" /\ AcceptsConnected /\ accepted /\ UNCHANGED link
    \/ link # "down" /\ ~AcceptsConnected /\ ~accepted /\ UNCHANGED link
    \/ "request" \in StationFaults /\ ~accepted /\ UNCHANGED link

request_disconnect(accepted) ==
    \/ /\ accepted /\ link' = "down" /\ joined' = NoNetwork
       /\ IF link = "down" THEN UNCHANGED events ELSE Room /\ Tell("disconnected")
    \/ "request" \in StationFaults /\ ~accepted /\ UNCHANGED <<link, joined, events>>

(* The driver takes no configuration while it joins.                        *)
apply_station_config(named, applied) ==
    /\ applied = (link # "joining")
    /\ driver' = IF applied THEN [ssid |-> named.ssid, password |-> named.password] ELSE driver

(* What polling sees of the driver: nothing before the association.         *)
station_snapshot ==
    CASE link = "associated" -> "associated"
      [] link = "address" -> "address_ready"
      [] OTHER -> "idle"

DriverAssociates ==
    /\ link = "joining" /\ driver.ssid # NoNetwork /\ driver.ssid = driver.password
    /\ link' = "associated" /\ joined' = driver.ssid
    /\ UNCHANGED <<driver, events, announced, credentials, retry, delayed, unheeded,
                   reconnect, command, station, saving>>

DriverGetsAddress ==
    /\ link = "associated" /\ Room
    /\ link' = "address" /\ Tell("got_ip")
    /\ UNCHANGED <<joined, driver, announced, credentials, retry, delayed, unheeded,
                   reconnect, command, station, saving>>

(* The network refuses or drops the station.                                *)
DriverLoses ==
    /\ link # "down" /\ Room
    /\ link' = "down" /\ joined' = NoNetwork /\ Tell("disconnected")
    /\ UNCHANGED <<driver, announced, credentials, retry, delayed, unheeded, reconnect,
                   command, station, saving>>

-----------------------------------------------------------------------------
(* begin_scheduled, after its delay; nobody looks at the request's result.   *)
BeginScheduled ==
    /\ delayed /\ delayed' = FALSE /\ retry' = 1
    /\ \E accepted \in BOOLEAN : request_connect(accepted)
    /\ UNCHANGED <<joined, driver, events, announced, credentials, unheeded, reconnect,
                   command, station, saving>>

(* station_event_handler, on_station_disconnected: one reconnect task at a   *)
(* time; what is heard while it runs is left to it.  When the task cannot   *)
(* be created, nothing else is done about the disconnect.                   *)
HearDisconnected ==
    /\ events # << >> /\ Head(events) = "disconnected"
    /\ LateEvents \/ reconnect # "ending"
    /\ events' = Tail(events) /\ announced' = FALSE
    /\ \/ reconnect = "idle" /\ reconnect' = "created" /\ unheeded' = FALSE
       \/ reconnect # "idle" /\ UNCHANGED reconnect /\ unheeded' = FALSE
       \/ /\ reconnect = "idle" /\ "create" \in StationFaults
          /\ UNCHANGED reconnect /\ unheeded' = TRUE
    /\ UNCHANGED <<link, joined, driver, credentials, retry, delayed, command, station,
                   saving>>

HearAddress ==
    /\ events # << >> /\ Head(events) = "got_ip"
    /\ events' = Tail(events) /\ announced' = TRUE
    /\ UNCHANGED <<link, joined, driver, credentials, retry, delayed, unheeded,
                   reconnect, command, station, saving>>

(* handle_disconnect: a retry number outside of its range ends the retries.  *)
ReconnectDecides ==
    /\ reconnect = "created"
    /\ reconnect' = IF retry \in 1..FinalRetry THEN "waiting" ELSE "ending"
    /\ retry' = IF retry > FinalRetry THEN 0 ELSE retry
    /\ UNCHANGED <<link, joined, driver, events, announced, credentials, delayed,
                   unheeded, command, station, saving>>

ReconnectCounts ==
    /\ reconnect = "waiting" /\ reconnect' = "requesting" /\ retry' = retry + 1
    /\ UNCHANGED <<link, joined, driver, events, announced, credentials, delayed,
                   unheeded, command, station, saving>>

ReconnectRequests ==
    /\ reconnect = "requesting" /\ reconnect' = "ending"
    /\ \E accepted \in BOOLEAN : request_connect(accepted)
    /\ UNCHANGED <<joined, driver, events, announced, credentials, retry, delayed,
                   unheeded, command, station, saving>>

ReconnectEnds ==
    /\ reconnect = "ending" /\ reconnect' = "idle"
    /\ UNCHANGED <<link, joined, driver, events, announced, credentials, retry,
                   delayed, unheeded, command, station, saving>>

-----------------------------------------------------------------------------
(* The stages of a connect command of transport c.                          *)
Free(c) ==
    /\ command[c] = "idle"
    /\ CommandsOverlap \/ \A other \in Commanders : command[other] = "idle"

Goto(c, stage) == command' = [command EXCEPT ![c] = stage]
Failed(c) == Goto(c, "idle") /\ station' = [station EXCEPT ![c].state = "error"]

(* A runtime that is not idle disconnects first; the result is not looked   *)
(* at, and the command waits for the station to settle.                     *)
ConnectCommand(c, network) ==
    /\ Free(c)
    /\ IF station[c].state = "idle"
       THEN Goto(c, "configure") /\ UNCHANGED <<link, joined, events>>
       ELSE Goto(c, "settle") /\ \E accepted \in BOOLEAN : request_disconnect(accepted)
    /\ station' = [station EXCEPT ![c].ssid = network, ![c].password = network]
    /\ UNCHANGED <<driver, announced, credentials, retry, delayed, unheeded, reconnect,
                   saving>>

Configure(c) ==
    /\ command[c] \in {"settle", "configure"}
    /\ \E applied \in BOOLEAN :
          /\ apply_station_config(station[c], applied)
          /\ IF applied
             THEN /\ Goto(c, "connect")
                  /\ station' = [station EXCEPT ![c].state = "attempt_started"]
             ELSE Failed(c)
    /\ UNCHANGED <<link, joined, events, announced, credentials, retry, delayed,
                   unheeded, reconnect, saving>>

Connect(c) ==
    /\ command[c] = "connect"
    /\ \E accepted \in BOOLEAN :
          /\ request_connect(accepted)
          /\ IF accepted THEN Goto(c, "associate") /\ UNCHANGED station ELSE Failed(c)
    /\ UNCHANGED <<joined, driver, events, announced, credentials, retry, delayed,
                   unheeded, reconnect, saving>>

(* retain_snapshot: an association replaces the name, not the password.     *)
Retained(c) ==
    station' = CASE station_snapshot = "associated" ->
                       [station EXCEPT ![c].state = "associated", ![c].ssid = joined]
                 [] station_snapshot = "address_ready" ->
                       [station EXCEPT ![c].state = "address_ready"]
                 [] OTHER -> station

(* The command goes on with saving what its runtime or its host names.      *)
Saves(c, named) ==
    /\ Goto(c, "save_ssid")
    /\ saving' = [saving EXCEPT ![c] = [ssid |-> named.ssid, password |-> named.password]]

(* The two phases of polling; each ends by what it looks for or by time.    *)
PollAssociation(c) ==
    /\ command[c] = "associate"
    /\ IF station_snapshot # "idle" THEN Goto(c, "address") /\ Retained(c)
       ELSE Failed(c)
    /\ UNCHANGED <<link, joined, driver, events, announced, credentials, retry,
                   delayed, unheeded, reconnect, saving>>

PollAddress(c) ==
    /\ command[c] = "address"
    /\ IF station_snapshot = "address_ready" THEN Retained(c) /\ Saves(c, station'[c])
       ELSE /\ Failed(c) \/ (Retained(c) /\ station' # station /\ UNCHANGED command)
            /\ UNCHANGED saving
    /\ UNCHANGED <<link, joined, driver, events, announced, credentials, retry,
                   delayed, unheeded, reconnect>>

(* The command that only saves; over TCP it is taken for a connect command. *)
SaveCommand(c, network) ==
    /\ c = "usb" /\ Free(c) /\ Saves(c, PairOf(network))
    /\ UNCHANGED <<link, joined, driver, events, announced, credentials, retry,
                   delayed, unheeded, reconnect, station>>

(* save_credentials: two writes; the second follows only a good first one.   *)
(* The mutant writes the password in any case.                              *)
SaveSsidRegardless(c) ==
    /\ command[c] = "save_ssid"
    /\ \/ /\ credentials' = [credentials EXCEPT !.ssid = saving[c].ssid]
          /\ Goto(c, "save_password")
       \/ "ssid" \in StationFaults /\ Goto(c, "save_password") /\ UNCHANGED credentials
    /\ UNCHANGED <<link, joined, driver, events, announced, retry, delayed, unheeded,
                   reconnect, station, saving>>

SaveSsid(c) ==
    /\ command[c] = "save_ssid"
    /\ \/ /\ credentials' = [credentials EXCEPT !.ssid = saving[c].ssid]
          /\ Goto(c, "save_password")
       \/ "ssid" \in StationFaults /\ Goto(c, "report") /\ UNCHANGED credentials
    /\ UNCHANGED <<link, joined, driver, events, announced, retry, delayed, unheeded,
                   reconnect, station, saving>>

SavePassword(c) ==
    /\ command[c] = "save_password" /\ Goto(c, "report")
    /\ \/ credentials' = [credentials EXCEPT !.password = saving[c].password]
       \/ "password" \in StationFaults /\ UNCHANGED credentials
    /\ UNCHANGED <<link, joined, driver, events, announced, retry, delayed, unheeded,
                   reconnect, station, saving>>

(* The answer; a TCP host's command also gives the address to discovery.     *)
Answered(c) ==
    /\ command[c] = "report" /\ Goto(c, "idle") /\ saving' = [saving EXCEPT ![c] = NoPair]
    /\ announced' = (announced \/ (c = "tcp" /\ station[c].state = "address_ready"))
    /\ UNCHANGED <<link, joined, driver, events, credentials, retry, delayed, unheeded,
                   reconnect, station>>

DisconnectCommand(c) ==
    /\ Free(c)
    /\ \E accepted \in BOOLEAN :
          /\ request_disconnect(accepted)
          /\ station' = IF accepted THEN [station EXCEPT ![c] = IdleRuntime] ELSE station
          /\ announced' = (announced /\ ~(c = "tcp" /\ station'[c].state = "idle"))
    /\ UNCHANGED <<driver, credentials, retry, delayed, unheeded, reconnect, command,
                   saving>>

(* The machine restarts; only the saved credentials remain.                 *)
StationRestart ==
    /\ "power" \in StationFaults \/ \A c \in Commanders : command[c] # "save_password"
    /\ link' = "down" /\ joined' = NoNetwork /\ events' = << >> /\ announced' = FALSE
    /\ \E loaded \in load_and_schedule(credentials) :
          driver' = loaded.driver /\ delayed' = loaded.delayed
    /\ UNCHANGED credentials /\ retry' = 0 /\ reconnect' = "idle" /\ unheeded' = FALSE
    /\ command' = [c \in Commanders |-> "idle"]
    /\ station' = [c \in Commanders |-> IdleRuntime]
    /\ saving' = [c \in Commanders |-> NoPair]

StationNext ==
    \/ DriverAssociates \/ DriverGetsAddress \/ DriverLoses
    \/ BeginScheduled \/ HearDisconnected \/ HearAddress
    \/ ReconnectDecides \/ ReconnectCounts \/ ReconnectRequests \/ ReconnectEnds
    \/ \E c \in Commanders :
          \/ \E n \in Networks : ConnectCommand(c, n) \/ SaveCommand(c, n)
          \/ Configure(c) \/ Connect(c) \/ PollAssociation(c) \/ PollAddress(c)
          \/ SaveSsid(c) \/ SavePassword(c) \/ Answered(c) \/ DisconnectCommand(c)
    \/ StationRestart

StationSpec == StationInit /\ [][StationNext]_stationVars

-----------------------------------------------------------------------------
(* The saved name and password were given together (save_credentials), so   *)
(* that a restart does not try a name with the password of another network. *)
SavedPairMatches ==
    (\A c \in Commanders : command[c] # "save_password")
        => credentials.ssid = credentials.password

(* A lost connection is not forgotten while retries are left: a station     *)
(* that is down has an event to be heard, a task that will connect it, or   *)
(* a command at work (on_station_disconnected, handle_disconnect).  The one *)
(* way to lose it is that the disconnect heard last got no task.            *)
NoReconnectForgotten ==
    (link = "down" /\ retry \in 1..FinalRetry /\ ~unheeded)
        => events # << >> \/ reconnect # "idle" \/ \E c \in Commanders : command[c] # "idle"

(* Credentials stay paired and retries are made.                            *)
StationServes == SavedPairMatches /\ NoReconnectForgotten
=============================================================================
