------------------------- MODULE ConnectivityProofs -------------------------
(***************************************************************************)
(* Proofs about how the machine is reached (Connectivity): that discovery  *)
(* keeps its sockets and announces one address, that the station connects  *)
(* with a stored pair, that the access point saves what it acknowledged,   *)
(* and that provisioning takes whole messages in a negotiated connection;  *)
(* and that the output scheduler knows the hosts that are there            *)
(* (HostDestinations).                                                     *)
(***************************************************************************)
EXTENDS Connectivity, HostDestinations, FiniteSetTheorems, TLAPS

-----------------------------------------------------------------------------
(* Discovery.  The kept socket is closed and forgotten before the next is   *)
(* opened, and the temporary one before the next burst.                     *)
SocketsKnown ==
    /\ open \subseteq {longSocket, burstSocket}
    /\ ~longOpen \/ announcer = "closed" => longSocket = NoSocket
    /\ (\A c \in Callers : burst[c] \in {"idle", "wanted"}) => burstSocket = NoSocket
    /\ \A w \in Writers : setting[w].at # "idle" => burst[w] = "idle"

(* The two fields are of one address, unless a task is between them; the    *)
(* announcement is made from them only then.                                *)
FieldsAgree ==
    /\ Whole => broadcast \in {ipv4, NoAddress}
    /\ \A w \in Writers : setting[w].at = "ipv4" => setting[w].address = ipv4
    /\ announcer = "reading" => Whole /\ readAddress = ipv4
    /\ announcement[1] = announcement[2]

DiscoveryInv == DiscoveryTypeOK /\ SocketIsRenewed /\ SocketsKnown /\ FieldsAgree

LEMMA DiscoveryStarts == DiscoveryInit => DiscoveryInv
<1> SUFFICES ASSUME DiscoveryInit PROVE DiscoveryInv
  OBVIOUS
<1>1. \A w \in Writers : setting[w].at = "idle"
  BY DEF DiscoveryInit, Settled
<1>2. \A c \in Callers : burst[c] = "idle"
  BY DEF DiscoveryInit
<1>3. recreate \in BOOLEAN /\ longOpen \in BOOLEAN /\ outdated \in BOOLEAN
  BY Zenon DEF DiscoveryInit
<1>4. DiscoveryTypeOK
  BY <1>3 DEF DiscoveryInit, DiscoveryTypeOK, Settled, Fields
<1>5. SocketIsRenewed /\ SocketsKnown /\ FieldsAgree
  BY <1>1, <1>2 DEF DiscoveryInit, SocketIsRenewed, SocketsKnown, FieldsAgree, Callers
<1> QED
  BY <1>4, <1>5 DEF DiscoveryInv

(* The discovery task.                                                      *)
LEMMA AnnouncerKeeps ==
    ASSUME ~FieldRaces, DiscoveryInv,
           CloseOld \/ ClearRequest \/ OpenLong \/ ReadAddress \/ Announce
    PROVE  DiscoveryInv'
<1>0. DiscoveryTypeOK /\ NoSocket \notin Sockets
  BY DiscoveryAssumption DEF DiscoveryInv, Sockets, NoSocket
<1>1. UNCHANGED <<ipv4, broadcast, burstSocket, setting, burst>>
  BY DEF CloseOld, ClearRequest, OpenLong, ReadAddress, Announce
<1>2. CASE CloseOld
  <2>1. /\ announcer = "top" /\ announcer' \in {"closed", "cleared"}
        /\ UNCHANGED <<recreate, longOpen, readAddress, outdated, announcement>>
        /\ announcer' = "closed" <=> recreate
    BY <1>2 DEF CloseOld
  <2>2. /\ open' \subseteq open /\ longSocket' \in {longSocket, NoSocket}
        /\ open' \subseteq {longSocket', burstSocket}
        /\ announcer' = "closed" => longSocket' = NoSocket
    BY <1>0, <1>2, <2>1 DEF CloseOld, DiscoveryInv, SocketsKnown, DiscoveryTypeOK
  <2>3. DiscoveryTypeOK'
    BY <1>0, <1>1, <2>1, <2>2 DEF DiscoveryTypeOK, Fields
  <2>4. SocketIsRenewed'
    BY <1>1, <2>1 DEF DiscoveryInv, SocketIsRenewed
  <2>5. SocketsKnown'
    BY <1>1, <2>1, <2>2 DEF DiscoveryInv, SocketsKnown
  <2>6. FieldsAgree'
    BY <1>1, <2>1 DEF DiscoveryInv, FieldsAgree, Whole
  <2> QED
    BY <2>3, <2>4, <2>5, <2>6 DEF DiscoveryInv
<1>3. CASE ClearRequest
  <2>1. /\ announcer = "closed" /\ announcer' = "cleared" /\ ~longOpen'
        /\ UNCHANGED <<longSocket, open, readAddress, outdated, announcement>>
    BY <1>3 DEF ClearRequest
  <2>2. longOpen' \in BOOLEAN /\ recreate' \in BOOLEAN
    BY <1>3, Zenon DEF ClearRequest
  <2>3. DiscoveryTypeOK'
    BY <1>0, <1>1, <2>1, <2>2 DEF DiscoveryTypeOK, Fields
  <2>4. SocketIsRenewed' /\ SocketsKnown' /\ FieldsAgree'
    BY <1>1, <2>1 DEF DiscoveryInv, SocketIsRenewed, SocketsKnown, FieldsAgree, Whole
  <2> QED
    BY <2>3, <2>4 DEF DiscoveryInv
<1>4. CASE OpenLong
  <2>1. /\ announcer = "cleared" /\ announcer' \in {"ready", "top"}
        /\ UNCHANGED <<recreate, readAddress, announcement>>
    BY <1>4 DEF OpenLong
  <2>2. FieldsAgree'
    BY <1>1, <2>1 DEF DiscoveryInv, FieldsAgree, Whole
  <2>3. CASE UNCHANGED <<longOpen, longSocket, open, outdated>>
    <3>1. DiscoveryTypeOK'
      BY <1>0, <1>1, <2>1, <2>3 DEF DiscoveryTypeOK
    <3>2. SocketIsRenewed' /\ SocketsKnown'
      BY <1>1, <2>1, <2>3 DEF DiscoveryInv, SocketIsRenewed, SocketsKnown
    <3> QED
      BY <2>2, <3>1, <3>2 DEF DiscoveryInv
  <2>4. CASE ~longOpen /\ longOpen' = TRUE /\ outdated' = FALSE
             /\ \E s \in Sockets : longSocket' = s /\ open' = open \cup {s}
    <3>1. PICK s \in Sockets : longSocket' = s /\ open' = open \cup {s}
      BY <2>4
    <3>2. longOpen' \in BOOLEAN /\ outdated' \in BOOLEAN
      BY <2>4, Zenon
    <3>3. DiscoveryTypeOK'
      BY <1>0, <1>1, <2>1, <3>1, <3>2 DEF DiscoveryTypeOK
    <3>4. open \subseteq {burstSocket}
      BY <1>0, <2>4 DEF DiscoveryInv, SocketsKnown, DiscoveryTypeOK
    <3>5. SocketIsRenewed' /\ SocketsKnown'
      BY <1>1, <2>1, <2>4, <3>1, <3>4 DEF DiscoveryInv, SocketIsRenewed, SocketsKnown
    <3> QED
      BY <2>2, <3>3, <3>5 DEF DiscoveryInv
  <2> QED
    BY <1>4, <2>3, <2>4 DEF OpenLong
<1>5. CASE ReadAddress \/ Announce
  <2>1. /\ announcer \in {"ready", "reading"} /\ announcer' \in {"reading", "top"}
        /\ UNCHANGED <<recreate, longOpen, longSocket, open, outdated>>
        /\ readAddress' \in {ipv4, NoAddress}
    BY <1>5 DEF ReadAddress, Announce
  <2>2. announcement' \in {announcement, <<ipv4, ipv4>>}
    BY <1>5 DEF ReadAddress, Announce, DiscoveryInv, FieldsAgree
  <2>3. DiscoveryTypeOK'
    BY <1>0, <1>1, <2>1, <2>2 DEF DiscoveryTypeOK, Fields
  <2>4. SocketIsRenewed' /\ SocketsKnown'
    BY <1>1, <2>1 DEF DiscoveryInv, SocketIsRenewed, SocketsKnown
  <2>5. announcer' = "reading" => Whole /\ readAddress' = ipv4
    BY <1>5 DEF ReadAddress, Announce
  <2>6. FieldsAgree'
    BY <1>1, <2>2, <2>5 DEF DiscoveryInv, FieldsAgree, Whole
  <2> QED
    BY <2>3, <2>4, <2>6 DEF DiscoveryInv
<1> QED
  BY <1>2, <1>3, <1>4, <1>5

(* A task that sets the address.                                            *)
LEMMA AddressKeeps ==
    ASSUME ~FieldRaces, DiscoveryInv, NEW w \in Writers,
           (\E a \in Fields : SetAddress(w, a)) \/ SetBroadcast(w) \/ RequestSocket(w)
    PROVE  DiscoveryInv'
<1> DEFINE T == [at : {"idle", "ipv4", "broadcast"}, address : Fields]
<1>0. DiscoveryTypeOK /\ setting \in [Writers -> T]
  BY DEF DiscoveryInv, DiscoveryTypeOK
<1>1. /\ UNCHANGED <<longOpen, longSocket, burstSocket, open, announcer, readAddress>>
      /\ announcement' = announcement
  BY DEF SetAddress, SetBroadcast, RequestSocket
<1>2. ASSUME NEW a \in Fields, SetAddress(w, a)
      PROVE  DiscoveryInv'
  <2>1. PICK t : t = [at |-> "ipv4", address |-> a]
    OBVIOUS
  <2>2. t \in T /\ t.at = "ipv4" /\ t.address = a
    BY <2>1
  <2>3. /\ burst[w] = "idle" /\ announcer # "reading" /\ Whole
        /\ setting' = [setting EXCEPT ![w] = t] /\ ipv4' = a /\ outdated' = longOpen
        /\ UNCHANGED <<broadcast, recreate, burst>>
    BY <1>2, <2>1 DEF SetAddress
  <2>4. /\ setting' \in [Writers -> T] /\ setting'[w] = t
        /\ \A v \in Writers : v # w => setting'[v] = setting[v]
    BY <1>0, <2>2, <2>3
  <2>5. DiscoveryTypeOK'
    BY <1>0, <1>1, <2>3, <2>4 DEF DiscoveryTypeOK
  <2>6. SocketIsRenewed'
    BY <2>2, <2>4 DEF SocketIsRenewed
  <2>7. SocketsKnown'
    BY <1>1, <2>3, <2>4 DEF DiscoveryInv, SocketsKnown
  <2>8. FieldsAgree'
    BY <1>1, <2>2, <2>3, <2>4 DEF DiscoveryInv, FieldsAgree, Whole
  <2> QED
    BY <2>5, <2>6, <2>7, <2>8 DEF DiscoveryInv
<1>3. CASE SetBroadcast(w)
  <2>1. PICK t : t = [setting[w] EXCEPT !.at = "broadcast"]
    OBVIOUS
  <2>2. t \in T /\ t.at = "broadcast" /\ setting[w].address \in Fields
    BY <1>0, <2>1
  <2>3. /\ setting[w].at = "ipv4" /\ setting' = [setting EXCEPT ![w] = t]
        /\ broadcast' \in {setting[w].address, NoAddress}
        /\ UNCHANGED <<ipv4, recreate, burst, outdated>>
    BY <1>0, <1>3, <2>1 DEF SetBroadcast
  <2>4. /\ setting' \in [Writers -> T] /\ setting'[w] = t
        /\ \A v \in Writers : v # w => setting'[v] = setting[v]
    BY <1>0, <2>2, <2>3
  <2>5. DiscoveryTypeOK'
    BY <1>0, <1>1, <2>2, <2>3, <2>4 DEF DiscoveryTypeOK, Fields
  <2>6. SocketIsRenewed'
    BY <2>2, <2>4 DEF SocketIsRenewed
  <2>7. SocketsKnown'
    BY <1>1, <2>3, <2>4 DEF DiscoveryInv, SocketsKnown
  <2>8. announcer # "reading"
    BY <2>3 DEF DiscoveryInv, FieldsAgree, Whole
  <2>9. FieldsAgree'
    BY <1>1, <2>2, <2>3, <2>4, <2>8 DEF DiscoveryInv, FieldsAgree
  <2> QED
    BY <2>5, <2>6, <2>7, <2>9 DEF DiscoveryInv
<1>4. CASE RequestSocket(w)
  <2>1. PICK b : b = IF setting[w].address = NoAddress THEN "idle" ELSE "wanted"
    OBVIOUS
  <2>2. /\ setting[w].at = "broadcast" /\ setting' = [setting EXCEPT ![w] = Settled]
        /\ burst' = [burst EXCEPT ![w] = b] /\ recreate'
        /\ UNCHANGED <<ipv4, broadcast, outdated>>
    BY <1>4, <2>1 DEF RequestSocket
  <2>3. Settled \in T /\ Settled.at = "idle"
    BY DEF Settled, Fields
  <2>4. /\ setting' \in [Writers -> T] /\ setting'[w] = Settled
        /\ \A v \in Writers : v # w => setting'[v] = setting[v]
    BY <1>0, <2>2, <2>3
  <2>5. /\ burst \in [Callers -> {"idle", "wanted", "sending", "closing"}] /\ w \in Callers
        /\ b \in {"idle", "wanted"} /\ burst[w] = "idle"
    BY <1>0, <2>1, <2>2 DEF DiscoveryInv, SocketsKnown, DiscoveryTypeOK, Callers
  <2>6. /\ burst' \in [Callers -> {"idle", "wanted", "sending", "closing"}] /\ burst'[w] = b
        /\ \A c \in Callers : c # w => burst'[c] = burst[c]
    BY <2>2, <2>5
  <2>7. recreate' \in BOOLEAN
    BY <1>4, Zenon DEF RequestSocket
  <2>8. DiscoveryTypeOK'
    BY <1>0, <1>1, <2>2, <2>4, <2>6, <2>7 DEF DiscoveryTypeOK
  <2>9. SocketIsRenewed'
    BY <2>2 DEF SocketIsRenewed
  <2>10. SocketsKnown'
    <3>1. (\A c \in Callers : burst'[c] \in {"idle", "wanted"}) => burstSocket = NoSocket
      BY <2>5, <2>6 DEF DiscoveryInv, SocketsKnown
    <3>2. \A v \in Writers : setting'[v].at # "idle" => burst'[v] = "idle"
      BY <2>3, <2>4, <2>6 DEF DiscoveryInv, SocketsKnown, Callers
    <3> QED
      BY <1>1, <3>1, <3>2 DEF DiscoveryInv, SocketsKnown
  <2>11. Whole' => Whole
    BY <2>2, <2>4 DEF Whole
  <2>12. Whole => Whole'
    BY <2>3, <2>4 DEF Whole
  <2>13. FieldsAgree'
    BY <1>1, <2>2, <2>3, <2>4, <2>11, <2>12 DEF DiscoveryInv, FieldsAgree
  <2> QED
    BY <2>8, <2>9, <2>10, <2>13 DEF DiscoveryInv
<1> QED
  BY <1>2, <1>3, <1>4

(* A burst.                                                                 *)
LEMMA BurstKeeps ==
    ASSUME ~BurstsOverlap, DiscoveryInv, NEW c \in Callers,
           (c \in Bursters /\ AskBurst(c)) \/ BeginBurst(c) \/ SendCopies(c) \/ CloseBurst(c)
    PROVE  DiscoveryInv'
<1> DEFINE B == {"idle", "wanted", "sending", "closing"}
<1>0. DiscoveryTypeOK /\ burst \in [Callers -> B] /\ NoSocket \notin Sockets
  BY DiscoveryAssumption DEF DiscoveryInv, DiscoveryTypeOK, Sockets, NoSocket
<1>1. UNCHANGED <<ipv4, broadcast, recreate, longOpen, longSocket, announcer, readAddress,
                  setting, outdated, announcement>>
  BY DEF AskBurst, BeginBurst, SendCopies, CloseBurst
<1>2. PICK b \in B : burst' = [burst EXCEPT ![c] = b]
  BY DEF AskBurst, BeginBurst, SendCopies, CloseBurst
<1>3. burst' \in [Callers -> B] /\ burst'[c] = b /\ \A d \in Callers : d # c => burst'[d] = burst[d]
  BY <1>0, <1>2
<1>4. \A w \in Writers : setting[w].at # "idle" => burst'[w] = "idle"
  <2> SUFFICES ASSUME NEW w \in Writers, setting[w].at # "idle", w = c
               PROVE  burst'[w] = "idle"
    BY <1>3 DEF DiscoveryInv, SocketsKnown, Callers
  <2>1. burst[c] = "idle" /\ c \notin Bursters
    BY DiscoveryAssumption DEF DiscoveryInv, SocketsKnown
  <2> QED
    BY <2>1 DEF BeginBurst, SendCopies, CloseBurst
<1>5. SocketIsRenewed' /\ FieldsAgree'
  BY <1>1 DEF DiscoveryInv, SocketIsRenewed, FieldsAgree, Whole
<1>6. /\ open' \subseteq Sockets /\ burstSocket' \in Sockets \cup {NoSocket}
      /\ open' \subseteq {longSocket, burstSocket'}
      /\ (\A d \in Callers : burst'[d] \in {"idle", "wanted"}) => burstSocket' = NoSocket
  <2>1. CASE UNCHANGED <<burstSocket, open>> /\ (burst[c] \in {"idle", "wanted"} \/ SendCopies(c))
    <3>1. (\A d \in Callers : burst'[d] \in {"idle", "wanted"})
             => (\A d \in Callers : burst[d] \in {"idle", "wanted"})
      BY <1>0, <1>3, <2>1 DEF SendCopies
    <3> QED
      BY <1>0, <2>1, <3>1 DEF DiscoveryInv, SocketsKnown, DiscoveryTypeOK
  <2>2. CASE BeginBurst(c) /\ \E s \in Sockets : burstSocket' = s /\ open' = open \cup {s}
    <3>1. PICK s \in Sockets : burstSocket' = s /\ open' = open \cup {s}
      BY <2>2
    <3>2. burstSocket = NoSocket
      BY <2>2 DEF BeginBurst, DiscoveryInv, SocketsKnown
    <3>3. CASE burst' = [burst EXCEPT ![c] = "sending"]
      BY <1>0, <3>1, <3>2, <3>3 DEF DiscoveryInv, SocketsKnown, DiscoveryTypeOK
    <3>4. CASE UNCHANGED <<burstSocket, open>>
      BY <1>0, <3>1, <3>2, <3>4
    <3> QED
      BY <2>2, <3>3, <3>4 DEF BeginBurst
  <2>3. CASE CloseBurst(c)
    BY <1>0, <2>3 DEF CloseBurst, DiscoveryInv, SocketsKnown, DiscoveryTypeOK
  <2> QED
    BY <2>1, <2>2, <2>3 DEF AskBurst, BeginBurst, SendCopies
<1>7. DiscoveryTypeOK'
  BY <1>0, <1>1, <1>3, <1>6 DEF DiscoveryTypeOK
<1>8. SocketsKnown'
  BY <1>1, <1>4, <1>6 DEF DiscoveryInv, SocketsKnown
<1> QED
  BY <1>5, <1>7, <1>8 DEF DiscoveryInv

(* Every step of the announcer, of the setters and of the bursts.          *)
LEMMA DiscoveryStep ==
    ASSUME ~BurstsOverlap, ~FieldRaces
    PROVE  DiscoveryInv /\ [DiscoveryNext]_discoveryVars => DiscoveryInv'
<1> SUFFICES ASSUME DiscoveryInv, [DiscoveryNext]_discoveryVars PROVE DiscoveryInv'
  OBVIOUS
<1>1. CASE UNCHANGED discoveryVars
  BY <1>1 DEF discoveryVars, DiscoveryInv, DiscoveryTypeOK, SocketIsRenewed, SocketsKnown,
              FieldsAgree, Whole
<1>2. ASSUME NEW c \in Bursters, AskBurst(c) PROVE DiscoveryInv'
  BY <1>2, BurstKeeps DEF Callers
<1>3. ASSUME NEW c \in Callers, BeginBurst(c) \/ SendCopies(c) \/ CloseBurst(c)
      PROVE  DiscoveryInv'
  BY <1>3, BurstKeeps
<1> QED
  BY <1>1, <1>2, <1>3, AnnouncerKeeps, AddressKeeps DEF DiscoveryNext

(* The discovery task renews its socket after a change of address, loses no *)
(* socket and announces one address, for any addresses, tasks that set them *)
(* and callers of bursts, if bursts do not overlap and nobody reads the two *)
(* fields while they are set (periodic_cycle, send_temporary_burst).        *)
THEOREM DiscoveryIsSound ==
    ASSUME ~BurstsOverlap, ~FieldRaces
    PROVE  DiscoverySpec => []DiscoverySound
<1>1. DiscoveryInv => DiscoverySound
  BY DEF DiscoveryInv, SocketsKnown, FieldsAgree, DiscoverySound
<1>2. DiscoveryInv /\ [DiscoveryNext]_discoveryVars => DiscoveryInv'
  BY DiscoveryStep
<1> QED
  BY <1>1, <1>2, DiscoveryStarts, PTL DEF DiscoverySpec

-----------------------------------------------------------------------------
(* The station.  Names and passwords are given and kept together: in the    *)
(* runtimes, in what a command saves and, but for the moment between the    *)
(* two writes, in the saved credentials.                                    *)
OneCommand ==
    \A c, d \in Commanders : command[c] # "idle" /\ command[d] # "idle" => c = d
PairsStay ==
    /\ \A c \in Commanders : /\ station[c].ssid = station[c].password
                             /\ saving[c].ssid = saving[c].password
    /\ \A c \in Commanders : command[c] = "save_password" => credentials.ssid = saving[c].ssid
    /\ SavedPairMatches

(* While a command connects, the driver has its configuration and joins     *)
(* only its network.                                                        *)
DriverFollows ==
    \A c \in Commanders :
        /\ command[c] \in {"connect", "associate", "address"} => driver.ssid = station[c].ssid
        /\ command[c] \in {"associate", "address"} /\ link \in {"associated", "address"}
               => joined = driver.ssid

(* A station that is down while retries are left will be heard of, or the   *)
(* reconnect task has not yet made its request, or could not be created.    *)
LossPending ==
    link = "down" /\ retry \in 1..FinalRetry /\ ~unheeded
        => \/ \E i \in 1..Len(events) : events[i] = "disconnected"
           \/ reconnect \in {"created", "waiting", "requesting"}

StationInv ==
    /\ StationTypeOK /\ (reconnect = "waiting" => retry \in 1..FinalRetry)
    /\ OneCommand /\ PairsStay /\ DriverFollows /\ LossPending

(* What is loaded and scheduled at a start, whatever fails of it.           *)
LEMMA LoadedAtStart ==
    ASSUME NEW saved \in Pairs, NEW loaded \in load_and_schedule(saved)
    PROVE  loaded.driver \in Pairs /\ loaded.delayed \in BOOLEAN
<1>1. NoPair \in Pairs
  BY DEF NoPair, Pairs, Names
<1>2. /\ loaded.driver = saved \/ loaded.driver = NoPair
      /\ loaded.delayed = TRUE \/ loaded.delayed = FALSE
  BY DEF load_and_schedule
<1> QED
  BY <1>1, <1>2, Zenon

LEMMA StationStarts == StationInit => StationInv
<1> SUFFICES ASSUME NEW n \in Names, Started(PairOf(n)) PROVE StationInv
  BY DEF StationInit
<1>1. /\ NoPair \in Pairs /\ PairOf(n) \in Pairs /\ IdleRuntime \in Runtimes
      /\ NoPair.ssid = NoPair.password /\ PairOf(n).ssid = PairOf(n).password
      /\ IdleRuntime.ssid = IdleRuntime.password
  BY DEF NoPair, PairOf, Pairs, IdleRuntime, Runtimes, Names
<1>2. PICK loaded \in load_and_schedule(PairOf(n)) :
          driver = loaded.driver /\ delayed = loaded.delayed
  BY Zenon DEF Started
<1>6. driver \in Pairs /\ loaded.delayed \in BOOLEAN
  BY <1>1, <1>2, LoadedAtStart
<1>7. announced \in BOOLEAN /\ delayed \in BOOLEAN /\ unheeded \in BOOLEAN
  BY <1>2, <1>6, Zenon DEF Started
<1>3. StationTypeOK
  BY <1>1, <1>6, <1>7, StationAssumption DEF Started, StationTypeOK, Stages, Names
<1>4. \A c \in Commanders : command[c] = "idle" /\ station[c] = IdleRuntime /\ saving[c] = NoPair
  BY DEF Started
<1>5. OneCommand /\ PairsStay /\ DriverFollows /\ LossPending
  BY <1>1, <1>4, StationAssumption DEF Started, OneCommand, PairsStay, DriverFollows, LossPending,
                                       SavedPairMatches
<1> QED
  BY <1>3, <1>5 DEF StationInv, Started

(* A request to connect, and one to disconnect, without faults.             *)
LEMMA RequestsMade ==
    ASSUME ~AcceptsConnected, "request" \notin StationFaults, StationTypeOK, NEW accepted
    PROVE  /\ request_connect(accepted) =>
                  IF accepted THEN link = "down" /\ link' = "joining"
                  ELSE link # "down" /\ link' = link
           /\ request_disconnect(accepted) =>
                  /\ accepted /\ link' = "down" /\ joined' = NoNetwork
                  /\ IF link = "down" THEN events' = events
                     ELSE Len(events) < MaxEvents /\ events' = Append(events, "disconnected")
BY DEF request_connect, request_disconnect, Room, Tell

(* Events that are told, and heard.                                         *)
Telling(s, e) == \E i \in 1..Len(s) : s[i] = e
LEMMA EventsTold ==
    ASSUME NEW S, NEW s \in Seq(S), NEW e \in S
    PROVE  /\ Append(s, e) \in Seq(S) /\ Len(Append(s, e)) = Len(s) + 1
           /\ Telling(Append(s, e), e)
           /\ \A f : Telling(s, f) => Telling(Append(s, e), f)
<1>1. /\ Append(s, e) \in Seq(S) /\ Len(Append(s, e)) = Len(s) + 1 /\ Len(s) \in Nat
      /\ Append(s, e)[Len(s) + 1] = e
      /\ \A i \in 1..Len(s) : Append(s, e)[i] = s[i]
  OBVIOUS
<1>2. Len(s) + 1 \in 1..Len(Append(s, e)) /\ 1..Len(s) \subseteq 1..Len(Append(s, e))
  BY <1>1
<1>3. Telling(Append(s, e), e)
  BY <1>1, <1>2, Zenon DEF Telling
<1>4. ASSUME NEW f, Telling(s, f) PROVE Telling(Append(s, e), f)
  <2>1. PICK i \in 1..Len(s) : s[i] = f
    BY <1>4, Zenon DEF Telling
  <2>2. i \in 1..Len(Append(s, e)) /\ Append(s, e)[i] = f
    BY <1>1, <1>2, <2>1
  <2> QED
    BY <2>2, Zenon DEF Telling
<1> QED
  BY <1>1, <1>3, <1>4, Zenon

LEMMA EventsHeard ==
    ASSUME NEW S, NEW s \in Seq(S), s # << >>
    PROVE  /\ Tail(s) \in Seq(S) /\ Len(Tail(s)) = Len(s) - 1
           /\ \A f : Telling(s, f) /\ Head(s) # f => Telling(Tail(s), f)
<1>1. Tail(s) \in Seq(S) /\ Len(Tail(s)) = Len(s) - 1 /\ Len(s) \in Nat
      /\ \A i \in 1..Len(s) - 1 : Tail(s)[i] = s[i + 1]
  OBVIOUS
<1>2. ASSUME NEW f, Telling(s, f), Head(s) # f PROVE Telling(Tail(s), f)
  <2>1. PICK i \in 1..Len(s) : s[i] = f
    BY <1>2 DEF Telling
  <2>2. i # 1 /\ i - 1 \in 1..Len(s) - 1 /\ (i - 1) + 1 = i
    BY <1>1, <1>2, <2>1
  <2> QED
    BY <1>1, <2>1, <2>2 DEF Telling
<1> QED
  BY <1>1, <1>2

(* The driver and the event task.                                           *)
LEMMA DriverKeeps ==
    ASSUME ~LateEvents, StationInv,
           \/ DriverAssociates \/ DriverGetsAddress \/ DriverLoses
           \/ HearDisconnected \/ HearAddress
    PROVE  StationInv'
<1> DEFINE E == {"disconnected", "got_ip"}
<1>0. StationTypeOK /\ events \in Seq(E) /\ Len(events) \in Nat /\ MaxEvents \in Nat
      /\ Len(events) <= MaxEvents
  BY StationAssumption DEF StationInv, StationTypeOK
<1>1. UNCHANGED <<driver, credentials, retry, delayed, command, station, saving>>
  BY DEF DriverAssociates, DriverGetsAddress, DriverLoses, HearDisconnected, HearAddress
<1>2. OneCommand' /\ PairsStay'
  BY <1>1 DEF StationInv, OneCommand, PairsStay, SavedPairMatches
<1>3. /\ link' \in {"down", "joining", "associated", "address"}
      /\ reconnect' \in {"idle", "created", "waiting", "requesting", "ending"}
      /\ reconnect' # "created" => reconnect' = reconnect
  BY <1>0 DEF DriverAssociates, DriverGetsAddress, DriverLoses, HearDisconnected, HearAddress,
              StationTypeOK
<1>10. joined' \in Names
  <2>1. driver.ssid \in Names /\ joined \in Names /\ NoNetwork \in Names
    BY <1>0 DEF StationTypeOK, Names, Pairs
  <2> QED
    BY <2>1 DEF DriverAssociates, DriverGetsAddress, DriverLoses, HearDisconnected, HearAddress
<1>9. announced' \in BOOLEAN /\ unheeded' \in BOOLEAN
  <2>1. announced \in BOOLEAN /\ unheeded \in BOOLEAN
    BY <1>0, Zenon DEF StationTypeOK
  <2>2. announced' \in {announced, TRUE, FALSE} /\ unheeded' \in {unheeded, TRUE, FALSE}
    BY Zenon DEF DriverAssociates, DriverGetsAddress, DriverLoses, HearDisconnected, HearAddress
  <2> QED
    BY <2>1, <2>2, Zenon
<1>4. events' \in Seq(E) /\ Len(events') <= MaxEvents
  <2>1. CASE \E e \in E : Room /\ Tell(e)
    BY <1>0, <2>1 DEF Room, Tell
  <2>2. CASE events # << >> /\ events' = Tail(events)
    BY <1>0, <2>2
  <2>3. CASE events' = events
    BY <1>0, <2>3
  <2> QED
    BY <2>1, <2>2, <2>3 DEF DriverAssociates, DriverGetsAddress, DriverLoses, HearDisconnected,
                            HearAddress
<1>5. StationTypeOK'
  BY <1>0, <1>1, <1>3, <1>4, <1>9, <1>10 DEF StationTypeOK
<1>6. DriverFollows'
  <2>1. link' \in {"associated", "address"}
           => joined' = driver.ssid \/ (link \in {"associated", "address"} /\ joined' = joined)
    BY DEF DriverAssociates, DriverGetsAddress, DriverLoses, HearDisconnected, HearAddress
  <2> QED
    BY <1>1, <2>1 DEF StationInv, DriverFollows
<1>7. LossPending'
  <2> SUFFICES ASSUME link' = "down", retry \in 1..FinalRetry, ~unheeded'
               PROVE  \/ Telling(events', "disconnected")
                      \/ reconnect' \in {"created", "waiting", "requesting"}
    BY <1>1 DEF LossPending, Telling
  <2>1. CASE DriverLoses
    BY <1>0, <2>1, EventsTold DEF DriverLoses, Tell
  <2>2. CASE HearDisconnected
    BY <1>0, <2>2 DEF HearDisconnected, StationTypeOK
  <2>3. CASE HearAddress
    <3>1. /\ events # << >> /\ Head(events) # "disconnected" /\ events' = Tail(events)
          /\ link = "down" /\ reconnect' = reconnect /\ unheeded' = unheeded
      BY <2>3 DEF HearAddress
    <3>2. \/ Telling(events, "disconnected")
          \/ reconnect \in {"created", "waiting", "requesting"}
      BY <3>1 DEF StationInv, LossPending, Telling
    <3> QED
      BY <1>0, <3>1, <3>2, EventsHeard
  <2> QED
    BY <2>1, <2>2, <2>3 DEF DriverAssociates, DriverGetsAddress
<1>8. reconnect' = "waiting" => retry' \in 1..FinalRetry
  BY <1>1, <1>3 DEF StationInv
<1> QED
  BY <1>2, <1>5, <1>6, <1>7, <1>8 DEF StationInv

(* The connection that is delayed, and the reconnect task.                  *)
LEMMA RetryKeeps ==
    ASSUME ~AcceptsConnected, "request" \notin StationFaults, StationInv,
           \/ BeginScheduled \/ ReconnectDecides \/ ReconnectCounts \/ ReconnectRequests
           \/ ReconnectEnds
    PROVE  StationInv'
<1>0. StationTypeOK /\ FinalRetry \in Nat \ {0} /\ retry \in 0..FinalRetry + 1
  BY StationAssumption DEF StationInv, StationTypeOK
<1>1. UNCHANGED <<joined, driver, events, announced, credentials, unheeded, command, station,
                  saving>>
  BY DEF BeginScheduled, ReconnectDecides, ReconnectCounts, ReconnectRequests, ReconnectEnds
<1>2. OneCommand' /\ PairsStay'
  BY <1>1 DEF StationInv, OneCommand, PairsStay, SavedPairMatches
<1>3. link' = link \/ (link = "down" /\ link' = "joining")
  BY <1>0, RequestsMade DEF BeginScheduled, ReconnectDecides, ReconnectCounts, ReconnectRequests,
                            ReconnectEnds
<1>4. DriverFollows'
  BY <1>1, <1>3 DEF StationInv, DriverFollows
<1>5. /\ retry' \in 0..FinalRetry + 1
      /\ reconnect' \in {"idle", "created", "waiting", "requesting", "ending"}
      /\ reconnect' = "waiting" => retry' \in 1..FinalRetry
  BY <1>0 DEF BeginScheduled, ReconnectDecides, ReconnectCounts, ReconnectRequests, ReconnectEnds,
              StationInv, StationTypeOK
<1>6. delayed' \in BOOLEAN
  BY <1>0, Zenon DEF BeginScheduled, ReconnectDecides, ReconnectCounts, ReconnectRequests,
              ReconnectEnds, StationTypeOK
<1>7. StationTypeOK'
  BY <1>0, <1>1, <1>3, <1>5, <1>6 DEF StationTypeOK
<1>8. LossPending'
  <2>1. CASE BeginScheduled \/ ReconnectRequests
    <3>1. link' # "down"
      BY <1>0, <2>1, RequestsMade DEF BeginScheduled, ReconnectRequests
    <3> QED
      BY <3>1 DEF LossPending
  <2>2. CASE ReconnectDecides \/ ReconnectCounts \/ ReconnectEnds
    BY <1>0, <1>1, <2>2 DEF ReconnectDecides, ReconnectCounts, ReconnectEnds, StationInv,
                            LossPending
  <2> QED
    BY <2>1, <2>2
<1> QED
  BY <1>2, <1>4, <1>5, <1>7, <1>8 DEF StationInv

(* A step of a command: its stage and its runtime, and what follows from    *)
(* their not being another's.                                               *)
CommandStep(c, stage, t, p) ==
    /\ stage \in Stages /\ t \in Runtimes /\ p \in Pairs
    /\ command' = [command EXCEPT ![c] = stage] /\ station' = [station EXCEPT ![c] = t]
    /\ saving' = [saving EXCEPT ![c] = p]
    /\ t.ssid = t.password /\ p.ssid = p.password /\ driver' \in Pairs /\ credentials' \in Pairs
    /\ command[c] = "idle" => \A d \in Commanders : command[d] = "idle"
    /\ UNCHANGED <<retry, delayed, unheeded, reconnect>> /\ announced' \in BOOLEAN
    /\ \/ UNCHANGED <<link, joined, events>>
       \/ link = "down" /\ link' = "joining" /\ UNCHANGED <<joined, events>>
       \/ /\ link' = "down" /\ joined' = NoNetwork
          /\ IF link = "down" THEN events' = events
             ELSE Len(events) < MaxEvents /\ events' = Append(events, "disconnected")
    /\ stage \in {"connect", "associate", "address"} => driver'.ssid = t.ssid
    /\ stage \in {"associate", "address"} /\ link' \in {"associated", "address"}
           => joined' = driver'.ssid
    /\ stage = "save_password" => credentials'.ssid = p.ssid
    /\ stage # "save_password" => credentials'.ssid = credentials'.password

LEMMA CommandMoves ==
    ASSUME StationInv, NEW c \in Commanders, NEW stage, NEW t, NEW p, CommandStep(c, stage, t, p)
    PROVE  StationInv'
<1> USE DEF CommandStep
<1> DEFINE E == {"disconnected", "got_ip"}
<1>0. /\ StationTypeOK /\ command \in [Commanders -> Stages] /\ station \in [Commanders -> Runtimes]
      /\ saving \in [Commanders -> Pairs] /\ events \in Seq(E) /\ Len(events) \in Nat
      /\ MaxEvents \in Nat /\ Len(events) <= MaxEvents
  BY StationAssumption DEF StationInv, StationTypeOK
<1>1. /\ command' \in [Commanders -> Stages] /\ station' \in [Commanders -> Runtimes]
      /\ saving' \in [Commanders -> Pairs]
      /\ command'[c] = stage /\ station'[c] = t /\ saving'[c] = p
      /\ \A d \in Commanders : d # c =>
            command'[d] = command[d] /\ station'[d] = station[d] /\ saving'[d] = saving[d]
  BY <1>0
<1>2. \A d \in Commanders : d # c => command[d] = "idle"
  BY DEF StationInv, OneCommand
<1>3. events' \in Seq(E) /\ Len(events') <= MaxEvents
  <2>1. CASE events' = events
    BY <1>0, <2>1
  <2>2. CASE Len(events) < MaxEvents /\ events' = Append(events, "disconnected")
    BY <1>0, <2>2
  <2> QED
    BY <2>1, <2>2
<1>4. link' \in {"down", "joining", "associated", "address"} /\ joined' \in Names
  BY <1>0 DEF StationTypeOK, Names
<1>5. StationTypeOK'
  BY <1>0, <1>1, <1>3, <1>4 DEF StationTypeOK
<1>6. OneCommand'
  BY <1>1, <1>2 DEF OneCommand
<1>7. PairsStay'
  <2>1. \A d \in Commanders : /\ station'[d].ssid = station'[d].password
                              /\ saving'[d].ssid = saving'[d].password
    BY <1>1 DEF StationInv, PairsStay
  <2>2. \A d \in Commanders : command'[d] = "save_password" => credentials'.ssid = saving'[d].ssid
    BY <1>1, <1>2
  <2>3. SavedPairMatches'
    BY <1>1 DEF SavedPairMatches
  <2> QED
    BY <2>1, <2>2, <2>3 DEF PairsStay
<1>8. DriverFollows'
  BY <1>1, <1>2 DEF DriverFollows
<1>9. LossPending'
  <2> SUFFICES ASSUME link' = "down", retry \in 1..FinalRetry, ~unheeded
               PROVE  \/ Telling(events', "disconnected")
                      \/ reconnect \in {"created", "waiting", "requesting"}
    BY DEF LossPending, Telling
  <2>1. CASE link = "down" /\ events' = events
    BY <2>1 DEF StationInv, LossPending, Telling
  <2>2. CASE events' = Append(events, "disconnected")
    BY <1>0, <2>2, EventsTold
  <2> QED
    BY <2>1, <2>2
<1> QED
  BY <1>5, <1>6, <1>7, <1>8, <1>9 DEF StationInv

LEMMA SameValue == ASSUME NEW S, NEW T, NEW f \in [S -> T], NEW c \in S
                   PROVE  f = [f EXCEPT ![c] = f[c]]
OBVIOUS

(* The stages of a connect command.                                         *)
LEMMA ConnectKeeps ==
    ASSUME ~CommandsOverlap, ~AcceptsConnected, "request" \notin StationFaults, StationInv,
           NEW c \in Commanders,
           \/ \E n \in Networks : ConnectCommand(c, n)
           \/ Configure(c) \/ Connect(c) \/ PollAssociation(c) \/ PollAddress(c)
    PROVE  StationInv'
<1>0. /\ StationTypeOK /\ command \in [Commanders -> Stages] /\ station \in [Commanders -> Runtimes]
      /\ saving \in [Commanders -> Pairs] /\ command[c] \in Stages /\ saving[c] \in Pairs
      /\ station[c] \in Runtimes /\ driver \in Pairs /\ credentials \in Pairs
  BY DEF StationInv, StationTypeOK
<1>1. /\ command = [command EXCEPT ![c] = command[c]] /\ station = [station EXCEPT ![c] = station[c]]
      /\ saving = [saving EXCEPT ![c] = saving[c]]
  BY <1>0, SameValue
<1>2. /\ station[c].ssid = station[c].password /\ saving[c].ssid = saving[c].password
      /\ station[c].ssid \in Names
  BY <1>0 DEF StationInv, PairsStay, Runtimes
<1>3. command[c] \notin {"idle", "save_password"} => credentials.ssid = credentials.password
  BY DEF StationInv, PairsStay, SavedPairMatches, OneCommand
<1>4. (\A d \in Commanders : command[d] = "idle") => credentials.ssid = credentials.password
  BY DEF StationInv, PairsStay, SavedPairMatches
<1>5. announced \in BOOLEAN
  BY <1>0 DEF StationTypeOK
<1>6. {"idle", "settle", "configure", "connect", "associate", "address", "save_ssid"} \subseteq Stages
  BY DEF Stages
<1>7. ASSUME NEW x \in {"idle", "attempt_started", "associated", "address_ready", "error"},
             NEW n \in Names
      PROVE  /\ [station[c] EXCEPT !.state = x] \in Runtimes
             /\ [station[c] EXCEPT !.state = x].ssid = station[c].ssid
             /\ [station[c] EXCEPT !.state = x].password = station[c].password
             /\ [station[c] EXCEPT !.ssid = n, !.password = n] \in Runtimes
             /\ [station[c] EXCEPT !.ssid = n, !.password = n].ssid = n
             /\ [station[c] EXCEPT !.ssid = n, !.password = n].password = n
  BY <1>0 DEF Runtimes
<1>8. ASSUME NEW n \in Networks, ConnectCommand(c, n) PROVE StationInv'
  <2>1. PICK t : t = [station[c] EXCEPT !.ssid = n, !.password = n]
    OBVIOUS
  <2>2. t \in Runtimes /\ t.ssid = n /\ t.password = n
    BY <1>7, <2>1 DEF Names
  <2>3. /\ station' = [station EXCEPT ![c] = t] /\ saving' = saving
        /\ UNCHANGED <<driver, announced, credentials, retry, delayed, unheeded, reconnect>>
        /\ \A d \in Commanders : command[d] = "idle"
    BY <1>0, <1>8, <2>1 DEF ConnectCommand, Free
  <2>4. \/ /\ command' = [command EXCEPT ![c] = "configure"]
           /\ UNCHANGED <<link, joined, events>>
        \/ /\ command' = [command EXCEPT ![c] = "settle"]
           /\ \E accepted \in BOOLEAN : request_disconnect(accepted)
    BY <1>8 DEF ConnectCommand, Goto
  <2>7. /\ saving' = [saving EXCEPT ![c] = saving[c]] /\ driver' \in Pairs /\ credentials' \in Pairs
        /\ announced' \in BOOLEAN /\ credentials'.ssid = credentials'.password
        /\ UNCHANGED <<retry, delayed, unheeded, reconnect>>
    BY <1>0, <1>1, <1>4, <1>5, <2>3
  <2>8. ASSUME NEW stage \in {"configure", "settle"}, command' = [command EXCEPT ![c] = stage],
               \/ UNCHANGED <<link, joined, events>>
               \/ /\ link' = "down" /\ joined' = NoNetwork
                  /\ IF link = "down" THEN events' = events
                     ELSE Len(events) < MaxEvents /\ events' = Append(events, "disconnected")
        PROVE  StationInv'
    <3>1. CommandStep(c, stage, t, saving[c])
      BY <1>0, <1>2, <1>6, <2>2, <2>3, <2>7, <2>8 DEF CommandStep
    <3> QED
      BY <3>1, CommandMoves
  <2>5. CASE command' = [command EXCEPT ![c] = "configure"] /\ UNCHANGED <<link, joined, events>>
    BY <2>5, <2>8
  <2>6. CASE /\ command' = [command EXCEPT ![c] = "settle"]
             /\ \E accepted \in BOOLEAN : request_disconnect(accepted)
    <3>1. /\ link' = "down" /\ joined' = NoNetwork
          /\ IF link = "down" THEN events' = events
             ELSE Len(events) < MaxEvents /\ events' = Append(events, "disconnected")
      BY <1>0, <2>6, RequestsMade
    <3> QED
      BY <2>6, <2>8, <3>1
  <2> QED
    BY <2>4, <2>5, <2>6
<1>9. CASE Configure(c)
  <2>1. PICK t1 : t1 = [station[c] EXCEPT !.state = "attempt_started"]
    OBVIOUS
  <2>2. PICK t2 : t2 = [station[c] EXCEPT !.state = "error"]
    OBVIOUS
  <2>3. PICK p : p = [ssid |-> station[c].ssid, password |-> station[c].password]
    OBVIOUS
  <2>4. /\ t1 \in Runtimes /\ t1.ssid = station[c].ssid /\ t1.password = station[c].password
        /\ t2 \in Runtimes /\ t2.ssid = station[c].ssid /\ t2.password = station[c].password
    BY <1>2, <1>7, <2>1, <2>2
  <2>5. p \in Pairs /\ p.ssid = station[c].ssid
    BY <1>2, <2>3 DEF Pairs
  <2>6. /\ command[c] \notin {"idle", "save_password"} /\ saving' = saving
        /\ UNCHANGED <<link, joined, events, announced, credentials, retry, delayed,
                       unheeded, reconnect>>
        /\ \/ /\ driver' = p /\ station' = [station EXCEPT ![c] = t1]
              /\ command' = [command EXCEPT ![c] = "connect"]
           \/ /\ driver' = driver /\ station' = [station EXCEPT ![c] = t2]
              /\ command' = [command EXCEPT ![c] = "idle"]
    BY <1>0, <1>9, <2>1, <2>2, <2>3 DEF Configure, apply_station_config, Goto, Failed
  <2> QED
    BY <1>0, <1>1, <1>2, <1>3, <1>5, <1>6, <2>4, <2>5, <2>6, CommandMoves DEF CommandStep
<1>10. CASE Connect(c)
  <2>1. PICK t : t = [station[c] EXCEPT !.state = "error"]
    OBVIOUS
  <2>2. t \in Runtimes /\ t.ssid = station[c].ssid /\ t.password = station[c].password
    BY <1>2, <1>7, <2>1
  <2>3. /\ command[c] = "connect" /\ saving' = saving
        /\ UNCHANGED <<joined, driver, events, announced, credentials, retry, delayed,
                       unheeded, reconnect>>
        /\ \E accepted \in BOOLEAN :
              /\ request_connect(accepted)
              /\ \/ /\ accepted /\ command' = [command EXCEPT ![c] = "associate"]
                    /\ station' = station
                 \/ /\ ~accepted /\ command' = [command EXCEPT ![c] = "idle"]
                    /\ station' = [station EXCEPT ![c] = t]
    BY <1>0, <1>10, <2>1 DEF Connect, Goto, Failed
  <2>4. \/ /\ link = "down" /\ link' = "joining" /\ station' = station
           /\ command' = [command EXCEPT ![c] = "associate"]
        \/ /\ link' = link /\ command' = [command EXCEPT ![c] = "idle"]
           /\ station' = [station EXCEPT ![c] = t]
    BY <1>0, <2>3, RequestsMade
  <2>5. driver.ssid = station[c].ssid
    BY <2>3 DEF StationInv, DriverFollows
  <2> QED
    BY <1>0, <1>1, <1>2, <1>3, <1>5, <1>6, <2>2, <2>3, <2>4, <2>5, CommandMoves DEF CommandStep
<1>11. CASE PollAssociation(c) \/ PollAddress(c)
  <2>1. /\ command[c] \in {"associate", "address"}
        /\ UNCHANGED <<link, joined, driver, events, announced, credentials, retry,
                       delayed, unheeded,
                       reconnect>>
    BY <1>11 DEF PollAssociation, PollAddress
  <2>2. driver.ssid = station[c].ssid
        /\ (link \in {"associated", "address"} => joined = driver.ssid)
    BY <2>1 DEF StationInv, DriverFollows
  <2>3. PICK t1 : t1 = [station[c] EXCEPT !.state = "error"]
    OBVIOUS
  <2>4. PICK t2 : t2 = [station[c] EXCEPT !.state = "associated", !.ssid = joined]
    OBVIOUS
  <2>5. PICK t3 : t3 = [station[c] EXCEPT !.state = "address_ready"]
    OBVIOUS
  <2>6. /\ t1 \in Runtimes /\ t1.ssid = station[c].ssid /\ t1.password = station[c].password
        /\ t3 \in Runtimes /\ t3.ssid = station[c].ssid /\ t3.password = station[c].password
    BY <1>2, <1>7, <2>3, <2>5
  <2>7. link = "associated" =>
            t2 \in Runtimes /\ t2.ssid = station[c].ssid /\ t2.password = station[c].password
    BY <1>0, <1>2, <2>2, <2>4 DEF Runtimes
  <2>8. Retained(c) => \E t \in Runtimes :
            /\ station' = [station EXCEPT ![c] = t]
            /\ t.ssid = station[c].ssid /\ t.password = station[c].password
    <3>1. CASE link = "associated"
      <4>1. Retained(c) => station' = [station EXCEPT ![c] = t2]
        BY <1>0, <2>4, <3>1 DEF Retained, station_snapshot
      <4> QED
        BY <2>7, <3>1, <4>1
    <3>2. CASE link = "address"
      <4>1. Retained(c) => station' = [station EXCEPT ![c] = t3]
        BY <1>0, <2>5, <3>2 DEF Retained, station_snapshot
      <4> QED
        BY <2>6, <4>1
    <3>3. CASE link \notin {"associated", "address"}
      <4>1. Retained(c) => station' = station
        BY <3>3 DEF Retained, station_snapshot
      <4> QED
        BY <1>0, <1>1, <4>1
    <3> QED
      BY <3>1, <3>2, <3>3
  <2>9. ASSUME NEW t \in Runtimes, station' = [station EXCEPT ![c] = t],
               t.ssid = station[c].ssid, t.password = station[c].password,
               NEW stage \in {"idle", "associate", "address"},
               command' = [command EXCEPT ![c] = stage], saving' = saving
        PROVE  StationInv'
    <3>1. /\ saving' = [saving EXCEPT ![c] = saving[c]] /\ driver' \in Pairs
          /\ credentials' \in Pairs /\ announced' \in BOOLEAN
          /\ credentials'.ssid = credentials'.password /\ command[c] # "idle"
          /\ UNCHANGED <<link, joined, events, retry, delayed, unheeded, reconnect>>
          /\ driver'.ssid = t.ssid /\ t.ssid = t.password
          /\ link' \in {"associated", "address"} => joined' = driver'.ssid
      BY <1>0, <1>1, <1>2, <1>3, <1>5, <2>1, <2>2, <2>9
    <3>2. stage \in Stages /\ stage # "save_password"
      BY <1>6
    <3> QED
      BY <1>0, <1>2, <2>9, <3>1, <3>2, CommandMoves DEF CommandStep
  <2>10. Failed(c) /\ saving' = saving => StationInv'
    <3> SUFFICES ASSUME Failed(c), saving' = saving PROVE StationInv'
      OBVIOUS
    <3>1. command' = [command EXCEPT ![c] = "idle"] /\ station' = [station EXCEPT ![c] = t1]
      BY <1>0, <2>3 DEF Failed, Goto
    <3> QED
      BY <2>6, <2>9, <3>1
  <2>11. CASE PollAssociation(c)
    <3>1. saving' = saving
          /\ ((command' = [command EXCEPT ![c] = "address"] /\ Retained(c)) \/ Failed(c))
      BY <2>11 DEF PollAssociation, Goto
    <3> QED
      BY <2>8, <2>9, <2>10, <3>1
  <2>12. CASE PollAddress(c)
    <3>1. CASE Retained(c) /\ Saves(c, station'[c])
      <4>1. PICK t \in Runtimes : /\ station' = [station EXCEPT ![c] = t]
                                  /\ t.ssid = station[c].ssid /\ t.password = station[c].password
        BY <2>8, <3>1
      <4>2. station'[c] = t
        BY <1>0, <4>1
      <4>3. PICK p : p = [ssid |-> t.ssid, password |-> t.password]
        OBVIOUS
      <4>4. p \in Pairs /\ p.ssid = p.password
        BY <1>2, <4>1, <4>3 DEF Pairs
      <4>5. command' = [command EXCEPT ![c] = "save_ssid"] /\ saving' = [saving EXCEPT ![c] = p]
        BY <3>1, <4>2, <4>3 DEF Saves, Goto
      <4> QED
        BY <1>0, <1>1, <1>2, <1>3, <1>5, <1>6, <2>1, <4>1, <4>4, <4>5, CommandMoves DEF CommandStep
    <3>2. CASE Failed(c) /\ saving' = saving
      BY <2>10, <3>2
    <3>3. CASE Retained(c) /\ command' = command /\ saving' = saving
      BY <1>1, <2>1, <2>8, <2>9, <3>3
    <3> QED
      BY <2>12, <3>1, <3>2, <3>3 DEF PollAddress
  <2> QED
    BY <1>11, <2>11, <2>12
<1> QED
  BY <1>8, <1>9, <1>10, <1>11

(* Saving, answering, disconnecting and restarting.                         *)
LEMMA SaveKeeps ==
    ASSUME ~CommandsOverlap, "request" \notin StationFaults, "password" \notin StationFaults,
           ~AcceptsConnected, StationInv, NEW c \in Commanders,
           \/ \E n \in Networks : SaveCommand(c, n)
           \/ SaveSsid(c) \/ SavePassword(c) \/ Answered(c) \/ DisconnectCommand(c)
    PROVE  StationInv'
<1>0. /\ StationTypeOK /\ command \in [Commanders -> Stages] /\ station \in [Commanders -> Runtimes]
      /\ saving \in [Commanders -> Pairs] /\ command[c] \in Stages /\ saving[c] \in Pairs
      /\ station[c] \in Runtimes /\ driver \in Pairs /\ credentials \in Pairs
  BY DEF StationInv, StationTypeOK
<1>1. /\ command = [command EXCEPT ![c] = command[c]] /\ station = [station EXCEPT ![c] = station[c]]
      /\ saving = [saving EXCEPT ![c] = saving[c]]
  BY <1>0, SameValue
<1>2. station[c].ssid = station[c].password /\ saving[c].ssid = saving[c].password
  BY DEF StationInv, PairsStay
<1>3. command[c] \notin {"idle", "save_password"} => credentials.ssid = credentials.password
  BY DEF StationInv, PairsStay, SavedPairMatches, OneCommand
<1>4. (\A d \in Commanders : command[d] = "idle") => credentials.ssid = credentials.password
  BY DEF StationInv, PairsStay, SavedPairMatches
<1>5. announced \in BOOLEAN
  BY <1>0 DEF StationTypeOK
<1>6. {"idle", "save_ssid", "save_password", "report"} \subseteq Stages
  BY DEF Stages
<1>7. NoPair \in Pairs /\ NoPair.ssid = NoPair.password
      /\ IdleRuntime \in Runtimes /\ IdleRuntime.ssid = IdleRuntime.password
  BY DEF NoPair, Pairs, Names, IdleRuntime, Runtimes
<1>8. ASSUME NEW n \in Networks, SaveCommand(c, n) PROVE StationInv'
  <2>1. PICK p : p = [ssid |-> PairOf(n).ssid, password |-> PairOf(n).password]
    OBVIOUS
  <2>2. p \in Pairs /\ p.ssid = p.password
    BY <2>1 DEF PairOf, Pairs, Names
  <2>3. /\ command' = [command EXCEPT ![c] = "save_ssid"] /\ saving' = [saving EXCEPT ![c] = p]
        /\ station' = station /\ \A d \in Commanders : command[d] = "idle"
        /\ UNCHANGED <<link, joined, driver, events, announced, credentials, retry,
                       delayed, unheeded,
                       reconnect>>
    BY <1>8, <2>1 DEF SaveCommand, Saves, Goto, Free
  <2>4. /\ station' = [station EXCEPT ![c] = station[c]] /\ driver' \in Pairs
        /\ credentials' \in Pairs /\ announced' \in BOOLEAN
        /\ credentials'.ssid = credentials'.password
    BY <1>0, <1>1, <1>4, <1>5, <2>3
  <2>5. CommandStep(c, "save_ssid", station[c], p)
    BY <1>0, <1>2, <1>6, <2>2, <2>3, <2>4 DEF CommandStep
  <2> QED
    BY <2>5, CommandMoves
<1>9. CASE SaveSsid(c)
  <2>1. PICK p : p = [credentials EXCEPT !.ssid = saving[c].ssid]
    OBVIOUS
  <2>2. p \in Pairs /\ p.ssid = saving[c].ssid
    BY <1>0, <2>1 DEF Pairs
  <2>3. /\ command[c] = "save_ssid" /\ station' = station /\ saving' = saving
        /\ UNCHANGED <<link, joined, driver, events, announced, retry, delayed, unheeded,
                       reconnect>>
        /\ \/ credentials' = p /\ command' = [command EXCEPT ![c] = "save_password"]
           \/ credentials' = credentials /\ command' = [command EXCEPT ![c] = "report"]
    BY <1>9, <2>1 DEF SaveSsid, Goto
  <2>4. /\ station' = [station EXCEPT ![c] = station[c]] /\ driver' \in Pairs
        /\ saving' = [saving EXCEPT ![c] = saving[c]]
        /\ credentials' \in Pairs /\ announced' \in BOOLEAN
    BY <1>0, <1>1, <1>5, <2>2, <2>3
  <2>5. CASE credentials' = p /\ command' = [command EXCEPT ![c] = "save_password"]
    <3>1. CommandStep(c, "save_password", station[c], saving[c])
      BY <1>0, <1>2, <1>6, <2>2, <2>3, <2>4, <2>5 DEF CommandStep
    <3> QED
      BY <3>1, CommandMoves
  <2>6. CASE credentials' = credentials /\ command' = [command EXCEPT ![c] = "report"]
    <3>1. credentials'.ssid = credentials'.password
      BY <1>3, <2>3, <2>6
    <3>2. CommandStep(c, "report", station[c], saving[c])
      BY <1>0, <1>2, <1>6, <2>3, <2>4, <2>6, <3>1 DEF CommandStep
    <3> QED
      BY <3>2, CommandMoves
  <2> QED
    BY <2>3, <2>5, <2>6
<1>10. CASE SavePassword(c)
  <2>1. PICK p : p = [credentials EXCEPT !.password = saving[c].password]
    OBVIOUS
  <2>2. p \in Pairs /\ p.password = saving[c].password /\ p.ssid = credentials.ssid
    BY <1>0, <2>1 DEF Pairs
  <2>3. /\ command[c] = "save_password" /\ station' = station /\ saving' = saving
        /\ UNCHANGED <<link, joined, driver, events, announced, retry, delayed, unheeded,
                       reconnect>>
        /\ credentials' = p /\ command' = [command EXCEPT ![c] = "report"]
    BY <1>10, <2>1 DEF SavePassword, Goto
  <2>4. credentials.ssid = saving[c].ssid
    BY <2>3 DEF StationInv, PairsStay
  <2>5. /\ station' = [station EXCEPT ![c] = station[c]] /\ driver' \in Pairs
        /\ saving' = [saving EXCEPT ![c] = saving[c]]
        /\ credentials' \in Pairs /\ announced' \in BOOLEAN
        /\ credentials'.ssid = credentials'.password
    BY <1>0, <1>1, <1>2, <1>5, <2>2, <2>3, <2>4
  <2>6. CommandStep(c, "report", station[c], saving[c])
    BY <1>0, <1>2, <1>6, <2>3, <2>5 DEF CommandStep
  <2> QED
    BY <2>6, CommandMoves
<1>11. CASE Answered(c)
  <2>1. /\ command[c] = "report" /\ station' = station /\ saving' = [saving EXCEPT ![c] = NoPair]
        /\ UNCHANGED <<link, joined, driver, events, credentials, retry, delayed, unheeded,
                       reconnect>>
        /\ command' = [command EXCEPT ![c] = "idle"]
    BY <1>11 DEF Answered, Goto
  <2>2. announced' \in BOOLEAN
    BY <1>11, Zenon DEF Answered
  <2>3. /\ station' = [station EXCEPT ![c] = station[c]] /\ driver' \in Pairs
        /\ credentials' \in Pairs /\ credentials'.ssid = credentials'.password
    BY <1>0, <1>1, <1>3, <2>1
  <2>4. CommandStep(c, "idle", station[c], NoPair)
    BY <1>0, <1>2, <1>6, <1>7, <2>1, <2>2, <2>3 DEF CommandStep
  <2> QED
    BY <2>4, CommandMoves
<1>12. CASE DisconnectCommand(c)
  <2>1. /\ \E accepted \in BOOLEAN :
              /\ request_disconnect(accepted)
              /\ station' = IF accepted THEN [station EXCEPT ![c] = IdleRuntime] ELSE station
        /\ command[c] = "idle" /\ \A d \in Commanders : command[d] = "idle"
        /\ UNCHANGED <<driver, credentials, retry, delayed, unheeded, reconnect, command,
                       saving>>
    BY <1>12 DEF DisconnectCommand, Free
  <2>2. announced' \in BOOLEAN
    BY <1>12, Zenon DEF DisconnectCommand
  <2>3. /\ station' = [station EXCEPT ![c] = IdleRuntime]
        /\ link' = "down" /\ joined' = NoNetwork
        /\ IF link = "down" THEN events' = events
           ELSE Len(events) < MaxEvents /\ events' = Append(events, "disconnected")
    BY <1>0, <2>1, RequestsMade
  <2>4. /\ command' = [command EXCEPT ![c] = "idle"] /\ driver' \in Pairs
        /\ saving' = [saving EXCEPT ![c] = saving[c]]
        /\ credentials' \in Pairs /\ credentials'.ssid = credentials'.password
    BY <1>0, <1>1, <1>4, <2>1
  <2>5. CommandStep(c, "idle", IdleRuntime, saving[c])
    BY <1>0, <1>2, <1>6, <1>7, <2>1, <2>2, <2>3, <2>4 DEF CommandStep
  <2> QED
    BY <2>5, CommandMoves
<1> QED
  BY <1>8, <1>9, <1>10, <1>11, <1>12

LEMMA RestartKeeps ==
    ASSUME "power" \notin StationFaults, StationInv, StationRestart
    PROVE  StationInv'
<1>1. /\ \A c \in Commanders : command[c] # "save_password"
      /\ credentials' = credentials /\ credentials \in Pairs
  BY DEF StationRestart, StationInv, StationTypeOK
<1>2. credentials.ssid = credentials.password /\ credentials.ssid \in Names
  BY <1>1 DEF StationInv, PairsStay, SavedPairMatches, Pairs
<1>3. /\ NoPair \in Pairs /\ IdleRuntime \in Runtimes
      /\ NoPair.ssid = NoPair.password /\ IdleRuntime.ssid = IdleRuntime.password
  BY DEF NoPair, PairOf, Pairs, IdleRuntime, Runtimes, Names
<1>4. PICK loaded \in load_and_schedule(credentials) :
          driver' = loaded.driver /\ delayed' = loaded.delayed
  BY Zenon DEF StationRestart
<1>9. driver' \in Pairs /\ loaded.delayed \in BOOLEAN
  BY <1>1, <1>4, LoadedAtStart
<1>10. announced' \in BOOLEAN /\ delayed' \in BOOLEAN /\ unheeded' \in BOOLEAN
  BY <1>4, <1>9, Zenon DEF StationRestart
<1>5. StationTypeOK'
  BY <1>1, <1>3, <1>9, <1>10, StationAssumption DEF StationRestart, StationTypeOK, Stages, Names
<1>6. \A c \in Commanders : command'[c] = "idle" /\ station'[c] = IdleRuntime /\ saving'[c] = NoPair
  BY DEF StationRestart
<1>7. OneCommand' /\ PairsStay' /\ DriverFollows'
  BY <1>1, <1>2, <1>3, <1>6 DEF OneCommand, PairsStay, DriverFollows, SavedPairMatches
<1>8. LossPending' /\ (reconnect' = "waiting" => retry' \in 1..FinalRetry)
  BY StationAssumption DEF StationRestart, LossPending
<1> QED
  BY <1>5, <1>7, <1>8 DEF StationInv

(* Every step of the driver, of the commands and of the reconnection.      *)
LEMMA StationStep ==
    ASSUME ~CommandsOverlap, ~LateEvents, ~AcceptsConnected,
           {"request", "password", "power"} \cap StationFaults = {}
    PROVE  StationInv /\ [StationNext]_stationVars => StationInv'
<1> SUFFICES ASSUME StationInv, [StationNext]_stationVars PROVE StationInv'
  OBVIOUS
<1>0. "request" \notin StationFaults /\ "password" \notin StationFaults
      /\ "power" \notin StationFaults
  OBVIOUS
<1>1. CASE UNCHANGED stationVars
  BY <1>1 DEF stationVars, StationInv, StationTypeOK, OneCommand, PairsStay, DriverFollows,
              LossPending, SavedPairMatches
<1>2. CASE \/ DriverAssociates \/ DriverGetsAddress \/ DriverLoses
           \/ HearDisconnected \/ HearAddress
  BY <1>2, DriverKeeps
<1>3. CASE \/ BeginScheduled \/ ReconnectDecides \/ ReconnectCounts \/ ReconnectRequests
           \/ ReconnectEnds
  BY <1>0, <1>3, RetryKeeps
<1>4. CASE StationRestart
  BY <1>0, <1>4, RestartKeeps
<1>5. ASSUME NEW c \in Commanders,
             \/ \E n \in Networks : ConnectCommand(c, n)
             \/ Configure(c) \/ Connect(c) \/ PollAssociation(c) \/ PollAddress(c)
      PROVE  StationInv'
  BY <1>0, <1>5, ConnectKeeps
<1>6. ASSUME NEW c \in Commanders,
             \/ \E n \in Networks : SaveCommand(c, n)
             \/ SaveSsid(c) \/ SavePassword(c) \/ Answered(c) \/ DisconnectCommand(c)
      PROVE  StationInv'
  BY <1>0, <1>6, SaveKeeps
<1> QED
  BY <1>1, <1>2, <1>3, <1>4, <1>5, <1>6 DEF StationNext

(* The saved name and password were given together, and a lost connection   *)
(* is forgotten while retries are left only when the task that would retry  *)
(* could not be created, for any networks, transports and number of retries *)
(* and although a write of the name, what is done at a start and the        *)
(* creation of tasks may fail: if commands do not overlap, the driver       *)
(* refuses to connect twice, and neither a request, nor the second write,   *)
(* nor the power between the two writes fails (save_credentials,            *)
(* on_station_disconnected, load_and_schedule).                             *)
THEOREM StationIsServed ==
    ASSUME ~CommandsOverlap, ~LateEvents, ~AcceptsConnected,
           {"request", "password", "power"} \cap StationFaults = {}
    PROVE  StationSpec => []StationServes
<1>1. StationInv => StationServes
  <2> SUFFICES ASSUME StationInv PROVE StationServes
    OBVIOUS
  <2>1. SavedPairMatches
    BY DEF StationInv, PairsStay
  <2>2. (\E i \in 1..Len(events) : events[i] = "disconnected") => events # << >>
    OBVIOUS
  <2>3. NoReconnectForgotten
    BY <2>2 DEF StationInv, LossPending, NoReconnectForgotten
  <2> QED
    BY <2>1, <2>3 DEF StationServes
<1>2. StationInv /\ [StationNext]_stationVars => StationInv'
  BY StationStep
<1> QED
  BY <1>1, <1>2, StationStarts, PTL DEF StationSpec

-----------------------------------------------------------------------------
(* The access point.  A job is at one place of the queue or at the task,    *)
(* and it has a second reference while the command that made it waits.      *)
Queued(j) == \E i \in 1..Len(apQueue) : apQueue[i] = j
JobsCounted ==
    /\ \A i, k \in 1..Len(apQueue) : apQueue[i] = apQueue[k] => i = k
    /\ \A i \in 1..Len(apQueue) : apQueue[i] # worker.job
    /\ \A j \in ApJobs : j \in DOMAIN apJobs <=> Queued(j) \/ worker.job = j \/ apRequest.job = j
    /\ \A j \in DOMAIN apJobs :
          /\ apJobs[j].references =
                IF apRequest.job = j /\ (apRequest.stage = "admit" \/ Queued(j) \/ worker.job = j)
                THEN 2 ELSE 1
          /\ apJobs[j].key # "ssid"

(* The command at work: its setting has been changed, has not yet been      *)
(* answered, and is what its job saves.                                     *)
QueueQuiet == apQueue = << >> /\ worker.stage # "write"
CommandAtWork ==
    /\ apOwner = NoHost => apRequest = NoRequest
    /\ apRequest.stage \in {"admit", "wait"} <=> apRequest.job # NoJob
    /\ worker.stage = "waiting" <=> worker.job = NoJob
    /\ apRequest.stage # "none" => /\ apRequest.key \in ApKeys \ apTold
                                   /\ apState[apRequest.key] = apRequest.value
    /\ apRequest.stage = "name" => apRequest.key = "ssid"
    /\ apRequest.stage \in {"create", "admit", "wait", "apply"} => apRequest.key # "ssid"
    /\ apRequest.stage \in {"admit", "wait"} => /\ apJobs[apRequest.job].key = apRequest.key
                                                /\ apJobs[apRequest.job].value = apRequest.value
    /\ apRequest.stage = "admit" =>
          /\ ~Queued(apRequest.job) /\ worker.job # apRequest.job
          /\ ~apJobs[apRequest.job].succeeded
    /\ apRequest.stage = "apply" =>
          apRequest.key = "enabled" /\ apStored["enabled"] = apRequest.value /\ QueueQuiet

(* Its job is the last: what was given up before is written before it.      *)
LastInLine ==
    apRequest.stage = "wait" =>
        /\ \A i \in 1..Len(apQueue) : apQueue[i] = apRequest.job => i = Len(apQueue)
        /\ worker.job = apRequest.job => apQueue = << >>
        /\ apJobs[apRequest.job].succeeded =>
              apStored[apRequest.key] = apRequest.value /\ QueueQuiet

(* What is still to be written is of no setting that was told to be saved.  *)
NothingLate ==
    /\ \A i \in 1..Len(apQueue) : apJobs[apQueue[i]].key \notin apTold
    /\ worker.stage = "write" => apJobs[worker.job].key \notin apTold

ApInv == ApTypeOK /\ JobsCounted /\ CommandAtWork /\ LastInLine /\ NothingLate /\ SavedIsLoaded

LEMMA LoadedValue ==
    ASSUME NEW s, NEW k \in ApKeys
    PROVE  /\ s[k] \in ApValues => Loaded(s)[k] = s[k]
           /\ \A t : s[k] = t[k] => Loaded(s)[k] = Loaded(t)[k]
BY DEF Loaded, ApValues

LEMMA NoJobHere == NoJob \notin ApJobs /\ NoRequest.stage = "none" /\ NoRequest.job = NoJob
                   /\ NoWork.stage = "waiting" /\ NoWork.job = NoJob
BY DEF NoJob, ApJobs, NoRequest, NoWork

LEMMA RequestTypes ==
    /\ NoRequest \in [key : ApKeys \cup {"none"}, value : ApValues, job : ApJobs \cup {NoJob},
                      stage : {"none", "create", "admit", "wait", "name", "apply"}]
    /\ NoWork \in [job : ApJobs \cup {NoJob}, stage : {"waiting", "write", "give", "release"}]
BY DEF NoRequest, NoWork, ApValues

(* What a step leaves of the jobs when only the table's entry j changes.    *)
LEMMA Released ==
    ASSUME ApTypeOK, NEW j \in DOMAIN apJobs, NEW r \in 1..2, Release(j, r)
    PROVE  /\ DOMAIN apJobs' = IF r = 1 THEN DOMAIN apJobs \ {j} ELSE DOMAIN apJobs
           /\ apJobs' \in [DOMAIN apJobs' -> Jobs]
           /\ \A i \in DOMAIN apJobs' : /\ apJobs'[i].key = apJobs[i].key
                                        /\ apJobs'[i].value = apJobs[i].value
                                        /\ apJobs'[i].succeeded = apJobs[i].succeeded
                                        /\ i # j => apJobs'[i].references = apJobs[i].references
           /\ r = 2 => apJobs'[j].references = 1
<1>0. apJobs \in [DOMAIN apJobs -> Jobs] /\ apJobs[j] \in Jobs
  BY DEF ApTypeOK
<1>1. CASE r = 1
  <2>1. apJobs' = [i \in DOMAIN apJobs \ {j} |-> apJobs[i]]
    BY <1>1 DEF Release
  <2> QED
    BY <1>0, <1>1, <2>1
<1>2. CASE r = 2
  <2>1. PICK t : t = [apJobs[j] EXCEPT !.references = 1]
    OBVIOUS
  <2>2. t \in Jobs /\ t.references = 1 /\ t.key = apJobs[j].key /\ t.value = apJobs[j].value
    BY <1>0, <2>1 DEF Jobs
  <2>3. t.succeeded = apJobs[j].succeeded
    BY <1>0, <2>1 DEF Jobs
  <2>4. apJobs' = [apJobs EXCEPT ![j] = t]
    BY <1>0, <1>2, <2>1 DEF Release
  <2>5. /\ DOMAIN apJobs' = DOMAIN apJobs /\ apJobs'[j] = t
        /\ \A i \in DOMAIN apJobs : i # j => apJobs'[i] = apJobs[i]
        /\ apJobs' \in [DOMAIN apJobs -> Jobs]
    BY <1>0, <2>2, <2>4
  <2> QED
    BY <1>2, <2>2, <2>3, <2>5
<1> QED
  BY <1>1, <1>2

LEMMA ApStarts == ApInit => ApInv
<1> SUFFICES ASSUME ApInit PROVE ApInv
  OBVIOUS
<1>1. /\ apJobs = << >> /\ apQueue = << >> /\ worker = NoWork /\ apRequest = NoRequest
      /\ apTold = {} /\ apOwner = NoHost
  BY DEF ApInit
<1>2. /\ DOMAIN apJobs = {} /\ Len(apQueue) = 0 /\ apQueue \in Seq(ApJobs)
      /\ apJobs \in [DOMAIN apJobs -> Jobs]
  BY <1>1
<1>3. apState \in [ApKeys -> ApValues] /\ apStored \in [ApKeys -> Stored]
  BY DEF ApInit, Loaded, ApValues
<1>4. radio \in BOOLEAN
  BY Zenon DEF ApInit, Startup
<1>5. ApTypeOK
  BY <1>1, <1>2, <1>3, <1>4, RequestTypes, ApAssumption DEF ApTypeOK
<1>6. JobsCounted
  BY <1>1, <1>2, NoJobHere DEF JobsCounted, Queued
<1>7. CommandAtWork /\ LastInLine /\ NothingLate /\ SavedIsLoaded
  BY <1>1, <1>2, NoJobHere DEF CommandAtWork, LastInLine, NothingLate, SavedIsLoaded
<1> QED
  BY <1>5, <1>6, <1>7 DEF ApInv

(* A restart.                                                               *)
LEMMA ApRestartKeeps ==
    ASSUME ApInv, ApRestart
    PROVE  ApInv'
<1>1. /\ apJobs' = << >> /\ apQueue' = << >> /\ worker' = NoWork /\ apRequest' = NoRequest
      /\ apTold' = {} /\ apOwner' = NoHost
  BY DEF ApRestart
<1>2. /\ DOMAIN apJobs' = {} /\ Len(apQueue') = 0 /\ apQueue' \in Seq(ApJobs)
      /\ apJobs' \in [DOMAIN apJobs' -> Jobs]
  BY <1>1
<1>3. apState' \in [ApKeys -> ApValues] /\ apStored' \in [ApKeys -> Stored]
  BY DEF ApRestart, Loaded, ApValues, ApInv, ApTypeOK
<1>4. radio' \in BOOLEAN
  BY Zenon DEF ApRestart, Startup
<1>5. ApTypeOK'
  BY <1>1, <1>2, <1>3, <1>4, RequestTypes, ApAssumption DEF ApTypeOK
<1>6. JobsCounted'
  BY <1>1, <1>2, NoJobHere DEF JobsCounted, Queued
<1>7. CommandAtWork' /\ LastInLine' /\ NothingLate' /\ SavedIsLoaded'
  BY <1>1, <1>2, NoJobHere DEF CommandAtWork, LastInLine, NothingLate, SavedIsLoaded
<1> QED
  BY <1>5, <1>6, <1>7 DEF ApInv

(* The command gives its reference back.                                    *)
LEMMA CommandLetsGo ==
    ASSUME ApInv, apRequest.stage \in {"admit", "wait"}, UNCHANGED <<apQueue, worker>>,
           Release(apRequest.job,
                   IF apRequest.stage = "admit" THEN 1 ELSE apJobs[apRequest.job].references),
           apRequest'.job = NoJob
    PROVE  /\ JobsCounted' /\ apJobs' \in [DOMAIN apJobs' -> Jobs]
           /\ DOMAIN apJobs' \subseteq DOMAIN apJobs
           /\ \A i \in 1..Len(apQueue) : apJobs'[apQueue[i]].key = apJobs[apQueue[i]].key
           /\ worker.job # NoJob => apJobs'[worker.job].key = apJobs[worker.job].key
<1> DEFINE j == apRequest.job
           r == IF apRequest.stage = "admit" THEN 1 ELSE apJobs[apRequest.job].references
           held == Queued(j) \/ worker.job = j
<1>0. /\ ApTypeOK /\ j \in ApJobs /\ worker.job \in ApJobs \cup {NoJob}
      /\ \A i \in 1..Len(apQueue) : apQueue[i] \in ApJobs
  BY DEF ApInv, ApTypeOK, CommandAtWork
<1>1. j \in DOMAIN apJobs
  BY <1>0 DEF ApInv, JobsCounted
<1>2. r \in 1..2 /\ (r = 2 <=> held)
  BY <1>1 DEF ApInv, JobsCounted, CommandAtWork
<1>3. /\ DOMAIN apJobs' = IF r = 1 THEN DOMAIN apJobs \ {j} ELSE DOMAIN apJobs
      /\ apJobs' \in [DOMAIN apJobs' -> Jobs]
      /\ \A i \in DOMAIN apJobs' : /\ apJobs'[i].key = apJobs[i].key
                                   /\ i # j => apJobs'[i].references = apJobs[i].references
      /\ r = 2 => apJobs'[j].references = 1
  BY <1>0, <1>1, <1>2, Released
<1>4. \A i : Queued(i)' <=> Queued(i)
  BY DEF Queued
<1>5. \A i \in ApJobs : i \in DOMAIN apJobs' <=> Queued(i) \/ worker.job = i
  BY <1>1, <1>2, <1>3 DEF ApInv, JobsCounted
<1>6. \A i \in DOMAIN apJobs' : apJobs'[i].references = 1 /\ apJobs'[i].key # "ssid"
  <2> SUFFICES ASSUME NEW i \in DOMAIN apJobs'
               PROVE  apJobs'[i].references = 1 /\ apJobs'[i].key # "ssid"
    OBVIOUS
  <2>1. i \in DOMAIN apJobs /\ (i = j => r = 2)
    BY <1>2, <1>3
  <2> QED
    BY <1>3, <2>1 DEF ApInv, JobsCounted
<1>7. DOMAIN apJobs' \subseteq ApJobs
  BY <1>0, <1>3 DEF ApTypeOK
<1>8. JobsCounted'
  <2>1. /\ \A i, k \in 1..Len(apQueue') : apQueue'[i] = apQueue'[k] => i = k
        /\ \A i \in 1..Len(apQueue') : apQueue'[i] # worker'.job
    BY DEF ApInv, JobsCounted
  <2>2. \A i \in ApJobs : i \in DOMAIN apJobs' <=> Queued(i)' \/ worker'.job = i \/ apRequest'.job = i
    BY <1>4, <1>5, NoJobHere
  <2>3. \A i \in DOMAIN apJobs' :
          /\ apJobs'[i].references =
                IF apRequest'.job = i /\ (apRequest'.stage = "admit" \/ Queued(i)' \/ worker'.job = i)
                THEN 2 ELSE 1
          /\ apJobs'[i].key # "ssid"
    BY <1>6, <1>7, NoJobHere
  <2> QED
    BY <2>1, <2>2, <2>3 DEF JobsCounted
<1>9. \A i \in 1..Len(apQueue) : apQueue[i] \in DOMAIN apJobs'
  BY <1>0, <1>5 DEF Queued
<1>10. worker.job # NoJob => worker.job \in DOMAIN apJobs'
  BY <1>0, <1>5
<1> QED
  BY <1>3, <1>8, <1>9, <1>10

(* The command is answered: what it was told to be saved is saved and stays.*)
LEMMA AnswerKeeps ==
    ASSUME ApInv, NEW success \in BOOLEAN, Answer(success), apRequest.stage # "none",
           UNCHANGED <<apState, apQueue, worker>>, JobsCounted',
           apJobs' \in [DOMAIN apJobs' -> Jobs], DOMAIN apJobs' \subseteq DOMAIN apJobs,
           \A i \in 1..Len(apQueue) : apJobs'[apQueue[i]].key = apJobs[apQueue[i]].key,
           worker.job # NoJob => apJobs'[worker.job].key = apJobs[worker.job].key,
           apStored' \in [ApKeys -> Stored], radio' \in BOOLEAN,
           \A k \in apTold : apStored'[k] = apStored[k] /\ (k = "enabled" => radio' = radio),
           success =>
               /\ apStored'[apRequest.key] = apRequest.value
               /\ apRequest.key = "enabled" => radio' = (apRequest.value = "set")
               /\ QueueQuiet \/ apRequest.key = "ssid"
    PROVE  ApInv'
<1> DEFINE key == apRequest.key
<1>0. /\ ApTypeOK /\ key \in ApKeys \ apTold /\ apState[key] = apRequest.value
      /\ apRequest.value \in ApValues
  BY DEF ApInv, ApTypeOK, CommandAtWork
<1>1. /\ apRequest' = NoRequest /\ apOwner' = NoHost /\ apTold' \subseteq apTold \cup {key}
      /\ key \in apTold' => success
      /\ apTold' \subseteq ApKeys
  BY <1>0 DEF Answer, ApInv, ApTypeOK
<1>2. ApTypeOK'
  BY <1>0, <1>1, RequestTypes DEF ApTypeOK
<1>3. CommandAtWork'
  BY <1>1, NoJobHere DEF ApInv, CommandAtWork
<1>4. LastInLine'
  BY <1>1, NoJobHere DEF LastInLine
<1>5. NothingLate'
  <2>1. ASSUME NEW i \in 1..Len(apQueue) PROVE apJobs'[apQueue[i]].key \notin apTold'
    <3>1. apJobs[apQueue[i]].key \notin apTold
      BY <2>1 DEF ApInv, NothingLate
    <3>2. apQueue[i] \in DOMAIN apJobs
      BY <2>1 DEF ApInv, JobsCounted, Queued, ApTypeOK
    <3>3. success => apJobs[apQueue[i]].key # key
      BY <2>1, <3>2 DEF QueueQuiet, ApInv, JobsCounted
    <3> QED
      BY <1>1, <2>1, <3>1, <3>3
  <2>2. ASSUME worker.stage = "write" PROVE apJobs'[worker.job].key \notin apTold'
    <3>1. apJobs[worker.job].key \notin apTold /\ worker.job # NoJob
      BY <2>2 DEF ApInv, NothingLate, CommandAtWork
    <3>2. worker.job \in DOMAIN apJobs
      BY <3>1 DEF ApInv, JobsCounted, ApTypeOK
    <3>3. success => apJobs[worker.job].key # key
      BY <2>2, <3>2 DEF QueueQuiet, ApInv, JobsCounted
    <3> QED
      BY <1>1, <3>1, <3>3
  <2> QED
    BY <2>1, <2>2 DEF NothingLate
<1>6. SavedIsLoaded'
  <2> SUFFICES ASSUME NEW k \in apTold'
               PROVE  /\ Loaded(apStored')[k] = apState[k]
                      /\ k = "enabled" => radio' = (apState[k] = "set")
    BY DEF SavedIsLoaded
  <2>1. CASE k \in apTold
    <3>1. k \in ApKeys /\ apStored'[k] = apStored[k] /\ (k = "enabled" => radio' = radio)
      BY <1>0, <2>1 DEF ApTypeOK
    <3>2. Loaded(apStored')[k] = Loaded(apStored)[k]
      BY <3>1, LoadedValue
    <3>3. SavedIsLoaded
      BY DEF ApInv
    <3>4. Loaded(apStored)[k] = apState[k]
      BY <2>1, <3>3 DEF SavedIsLoaded
    <3>5. CASE k = "enabled"
      <4>1. "enabled" \in apTold
        BY <2>1, <3>5
      <4>2. radio = (apState["enabled"] = "set")
        BY <3>3, <4>1, Zenon DEF SavedIsLoaded
      <4>3. radio' = radio
        BY <3>1, <3>5
      <4>4. radio' = (apState["enabled"] = "set")
        BY <4>2, <4>3, Zenon
      <4> QED
        BY <3>2, <3>4, <3>5, <4>4
    <3> QED
      BY <3>2, <3>4, <3>5
  <2>2. CASE k = key /\ success
    <3>1. Loaded(apStored')[k] = apRequest.value
      BY <1>0, <2>2, LoadedValue
    <3>2. k = "enabled" => radio' = (apRequest.value = "set")
      BY <2>2
    <3> QED
      BY <1>0, <2>2, <3>1, <3>2
  <2> QED
    BY <1>1, <2>1, <2>2
<1> QED
  BY <1>2, <1>3, <1>4, <1>5, <1>6 DEF ApInv

(* The jobs do not change.                                                  *)
LEMMA JobsUntouched ==
    ASSUME ApInv, UNCHANGED <<apQueue, worker, apJobs>>, apRequest.job = NoJob, apRequest'.job = NoJob
    PROVE  JobsCounted'
<1>1. \A j \in DOMAIN apJobs : j # NoJob
  BY NoJobHere DEF ApInv, ApTypeOK
<1> QED
  BY <1>1, NoJobHere DEF ApInv, JobsCounted, Queued

LEMMA CommandKeeps ==
    ASSUME ApInv, NEW h \in ApHosts, NEW k \in ApKeys, NEW v \in ApValues, ApCommand(h, k, v)
    PROVE  ApInv'
<1>1. PICK r : r = [key |-> k, value |-> v, job |-> NoJob,
                    stage |-> IF k = "ssid" THEN "name" ELSE "create"]
  OBVIOUS
<1>2. /\ r.key = k /\ r.value = v /\ r.job = NoJob /\ r.stage \in {"name", "create"}
      /\ r.stage = "name" <=> k = "ssid"
      /\ r \in [key : ApKeys \cup {"none"}, value : ApValues, job : ApJobs \cup {NoJob},
                stage : {"none", "create", "admit", "wait", "name", "apply"}]
  BY <1>1
<1>3. /\ apRequest' = r /\ apOwner' = h /\ apOwner = NoHost /\ apTold' = apTold \ {k}
      /\ apState' = [apState EXCEPT ![k] = v]
      /\ UNCHANGED <<apStored, radio, apJobs, apQueue, worker>>
  BY <1>1 DEF ApCommand
<1>4. ApTypeOK /\ apRequest = NoRequest
  BY <1>3 DEF ApInv, CommandAtWork
<1>5. /\ apState' \in [ApKeys -> ApValues] /\ apState'[k] = v
      /\ \A m \in ApKeys : m # k => apState'[m] = apState[m]
  BY <1>3, <1>4 DEF ApTypeOK
<1>6. ApTypeOK'
  BY <1>2, <1>3, <1>4, <1>5 DEF ApTypeOK
<1>7. JobsCounted'
  BY <1>2, <1>3, <1>4, NoJobHere, JobsUntouched
<1>8. CommandAtWork'
  BY <1>2, <1>3, <1>5, ApAssumption DEF ApInv, CommandAtWork
<1>9. LastInLine' /\ NothingLate'
  BY <1>2, <1>3 DEF ApInv, LastInLine, NothingLate
<1>10. SavedIsLoaded'
  BY <1>3, <1>4, <1>5 DEF ApInv, SavedIsLoaded, ApTypeOK
<1> QED
  BY <1>6, <1>7, <1>8, <1>9, <1>10 DEF ApInv

LEMMA SaveNameKeeps ==
    ASSUME ApInv, SaveName
    PROVE  ApInv'
<1>0. /\ ApTypeOK /\ apRequest.stage = "name" /\ apRequest.key = "ssid" /\ apRequest.job = NoJob
      /\ "ssid" \in ApKeys \ apTold /\ apRequest.value \in ApValues
      /\ UNCHANGED <<apState, radio, apJobs, apQueue, worker>>
  BY DEF SaveName, ApInv, CommandAtWork, ApTypeOK
<1>1. JobsCounted'
  <2>1. apRequest'.job = NoJob
    BY NoJobHere DEF SaveName, Answer
  <2> QED
    BY <1>0, <2>1, JobsUntouched
<1>2. CASE apStored' = [apStored EXCEPT !["ssid"] = apRequest.value] /\ Answer(TRUE)
  <2>1. /\ apStored' \in [ApKeys -> Stored] /\ apStored'["ssid"] = apRequest.value
        /\ \A k \in apTold : apStored'[k] = apStored[k]
    BY <1>0, <1>2 DEF ApTypeOK, Stored
  <2> QED
    BY <1>0, <1>1, <1>2, <2>1, AnswerKeeps DEF ApTypeOK
<1>3. CASE UNCHANGED apStored /\ Answer(FALSE)
  BY <1>0, <1>1, <1>3, AnswerKeeps DEF ApTypeOK
<1> QED
  BY <1>2, <1>3 DEF SaveName

LEMMA ApplyEnabledKeeps ==
    ASSUME ApInv, ApplyEnabled
    PROVE  ApInv'
<1>0. /\ ApTypeOK /\ apRequest.stage = "apply" /\ apRequest.key = "enabled"
      /\ apRequest.job = NoJob /\ QueueQuiet /\ apStored["enabled"] = apRequest.value
      /\ UNCHANGED <<apState, apStored, apJobs, apQueue, worker>> /\ "enabled" \notin apTold
  BY DEF ApplyEnabled, ApInv, CommandAtWork
<1>1. JobsCounted'
  <2>1. apRequest'.job = NoJob
    BY NoJobHere DEF ApplyEnabled, Answer
  <2> QED
    BY <1>0, <2>1, JobsUntouched
<1>2. CASE radio' = (apRequest.value = "set") /\ Answer(TRUE)
  <2>1. radio' \in BOOLEAN
    BY <1>2, Zenon
  <2> QED
    BY <1>0, <1>1, <1>2, <2>1, AnswerKeeps DEF ApTypeOK
<1>3. CASE radio' \in BOOLEAN /\ Answer(FALSE)
  BY <1>0, <1>1, <1>3, AnswerKeeps DEF ApTypeOK
<1>4. radio \in BOOLEAN
  BY <1>0 DEF ApTypeOK
<1> QED
  BY <1>2, <1>3, <1>4 DEF ApplyEnabled

(* A job is made, and admitted to the queue.                                *)
LEMMA CreateKeeps ==
    ASSUME ApInv, CreateJob
    PROVE  ApInv'
<1>0. /\ ApTypeOK /\ apRequest.stage = "create" /\ apRequest.job = NoJob
      /\ apRequest.key \in ApKeys \ apTold /\ apRequest.key # "ssid"
      /\ apState[apRequest.key] = apRequest.value /\ apOwner # NoHost
      /\ apRequest.value \in ApValues
      /\ UNCHANGED <<apState, apStored, radio, apQueue, worker>>
  BY NoJobHere DEF CreateJob, ApInv, CommandAtWork, ApTypeOK
<1>1. CASE Answer(FALSE) /\ UNCHANGED apJobs
  <2>1. apRequest'.job = NoJob
    BY <1>1, NoJobHere DEF Answer
  <2>2. JobsCounted'
    BY <1>0, <1>1, <2>1, JobsUntouched
  <2> QED
    BY <1>0, <1>1, <2>2, AnswerKeeps DEF ApTypeOK
<1>2. ASSUME NEW j \in ApJobs \ DOMAIN apJobs,
             apJobs' = [i \in DOMAIN apJobs \cup {j} |->
                          IF i = j THEN [key |-> apRequest.key, value |-> apRequest.value,
                                         references |-> 2, given |-> FALSE, succeeded |-> FALSE]
                          ELSE apJobs[i]],
             apRequest' = [apRequest EXCEPT !.stage = "admit", !.job = j],
             UNCHANGED <<apOwner, apTold>>
      PROVE  ApInv'
  <2>1. PICK t : t = [key |-> apRequest.key, value |-> apRequest.value,
                      references |-> 2, given |-> FALSE, succeeded |-> FALSE]
    OBVIOUS
  <2>2. t \in Jobs /\ t.key = apRequest.key /\ t.value = apRequest.value /\ t.references = 2
    BY <1>0, <2>1 DEF Jobs
  <2>3. ~t.succeeded
    BY <2>1
  <2>4. /\ DOMAIN apJobs' = DOMAIN apJobs \cup {j} /\ apJobs'[j] = t
        /\ \A i \in DOMAIN apJobs : apJobs'[i] = apJobs[i]
        /\ apJobs' \in [DOMAIN apJobs' -> Jobs]
    BY <1>0, <1>2, <2>1, <2>2 DEF ApTypeOK
  <2>5. /\ apRequest'.stage = "admit" /\ apRequest'.job = j /\ apRequest'.key = apRequest.key
        /\ apRequest'.value = apRequest.value
        /\ apRequest' \in [key : ApKeys \cup {"none"}, value : ApValues, job : ApJobs \cup {NoJob},
                           stage : {"none", "create", "admit", "wait", "name", "apply"}]
    BY <1>0, <1>2 DEF ApTypeOK
  <2>6. ApTypeOK'
    BY <1>0, <1>2, <2>4, <2>5 DEF ApTypeOK
  <2>7. \A i : Queued(i)' <=> Queued(i)
    BY <1>0 DEF Queued
  <2>8. ~Queued(j) /\ worker.job # j /\ j # NoJob
    BY NoJobHere DEF ApInv, JobsCounted
  <2>9. JobsCounted'
    <3>1. \A i \in ApJobs :
             i \in DOMAIN apJobs' <=> Queued(i)' \/ worker'.job = i \/ apRequest'.job = i
      BY <1>0, <2>4, <2>5, <2>7, NoJobHere DEF ApInv, JobsCounted
    <3>2. \A i \in DOMAIN apJobs' :
            /\ apJobs'[i].references =
                  IF apRequest'.job = i
                     /\ (apRequest'.stage = "admit" \/ Queued(i)' \/ worker'.job = i)
                  THEN 2 ELSE 1
            /\ apJobs'[i].key # "ssid"
      <4> SUFFICES ASSUME NEW i \in DOMAIN apJobs, i # j, i \in ApJobs
                   PROVE  apJobs[i].references = 1 /\ apJobs[i].key # "ssid"
        BY <1>0, <1>2, <2>2, <2>4, <2>5 DEF ApTypeOK
      <4> QED
        BY <1>0, NoJobHere DEF ApInv, JobsCounted
    <3> QED
      BY <1>0, <3>1, <3>2 DEF ApInv, JobsCounted
  <2>10. CommandAtWork'
    BY <1>0, <1>2, <2>2, <2>3, <2>4, <2>5, <2>7, <2>8 DEF ApInv, CommandAtWork
  <2>11. LastInLine'
    BY <2>5 DEF LastInLine
  <2>12. NothingLate'
    <3>1. \A i \in 1..Len(apQueue) : apQueue[i] \in DOMAIN apJobs
      BY DEF ApInv, JobsCounted, Queued, ApTypeOK
    <3>2. worker.stage = "write" => worker.job \in DOMAIN apJobs
      BY DEF ApInv, JobsCounted, CommandAtWork, ApTypeOK
    <3> QED
      BY <1>0, <1>2, <2>4, <3>1, <3>2 DEF ApInv, NothingLate
  <2>13. SavedIsLoaded'
    <3>1. SavedIsLoaded
      BY DEF ApInv
    <3> QED
      BY <1>0, <1>2, <3>1, Zenon DEF SavedIsLoaded, Loaded
  <2> QED
    BY <2>6, <2>9, <2>10, <2>11, <2>12, <2>13 DEF ApInv
<1> QED
  BY <1>1, <1>2 DEF CreateJob

LEMMA AdmitKeeps ==
    ASSUME ApInv, AdmitJob
    PROVE  ApInv'
<1> DEFINE j == apRequest.job
<1>0. /\ ApTypeOK /\ apRequest.stage = "admit" /\ Len(apQueue) < ApCapacity
      /\ j \in ApJobs /\ apQueue \in Seq(ApJobs) /\ Len(apQueue) \in Nat
      /\ apQueue' = Append(apQueue, j)
      /\ UNCHANGED <<apState, apStored, radio, apOwner, apJobs, worker, apTold>>
  BY DEF AdmitJob, ApInv, CommandAtWork, ApTypeOK
<1>1. /\ apRequest'.stage = "wait" /\ apRequest'.job = j /\ apRequest'.key = apRequest.key
      /\ apRequest'.value = apRequest.value
      /\ apRequest' \in [key : ApKeys \cup {"none"}, value : ApValues, job : ApJobs \cup {NoJob},
                         stage : {"none", "create", "admit", "wait", "name", "apply"}]
  BY DEF AdmitJob, ApInv, ApTypeOK
<1>2. /\ Len(apQueue') = Len(apQueue) + 1 /\ apQueue' \in Seq(ApJobs)
      /\ apQueue'[Len(apQueue) + 1] = j
      /\ \A i \in 1..Len(apQueue) : apQueue'[i] = apQueue[i]
  BY <1>0
<1>3. /\ ~Queued(j) /\ worker.job # j /\ ~apJobs[j].succeeded
      /\ \A i \in 1..Len(apQueue) : apQueue[i] # j
  BY <1>0 DEF ApInv, CommandAtWork, Queued
<1>4. \A i : Queued(i)' <=> Queued(i) \/ i = j
  BY <1>0, <1>2 DEF Queued
<1>5. ApTypeOK'
  BY <1>0, <1>1, <1>2, ApAssumption DEF ApTypeOK
<1>6. JobsCounted'
  <2>1. \A i, k \in 1..Len(apQueue') : apQueue'[i] = apQueue'[k] => i = k
    <3> SUFFICES ASSUME NEW i \in 1..Len(apQueue) + 1, NEW k \in 1..Len(apQueue) + 1,
                        apQueue'[i] = apQueue'[k]
                 PROVE  i = k
      BY <1>2
    <3>1. (i \in 1..Len(apQueue) \/ i = Len(apQueue) + 1)
          /\ (k \in 1..Len(apQueue) \/ k = Len(apQueue) + 1)
      BY <1>0
    <3> QED
      BY <1>2, <1>3, <3>1 DEF ApInv, JobsCounted
  <2>2. \A i \in 1..Len(apQueue') : apQueue'[i] # worker'.job
    <3> SUFFICES ASSUME NEW i \in 1..Len(apQueue) + 1 PROVE apQueue'[i] # worker.job
      BY <1>0, <1>2
    <3>1. i \in 1..Len(apQueue) \/ i = Len(apQueue) + 1
      BY <1>0
    <3> QED
      BY <1>2, <1>3, <3>1 DEF ApInv, JobsCounted
  <2>3. \A i \in ApJobs :
           i \in DOMAIN apJobs' <=> Queued(i)' \/ worker'.job = i \/ apRequest'.job = i
    BY <1>0, <1>1, <1>4 DEF ApInv, JobsCounted
  <2>4. \A i \in DOMAIN apJobs' :
          /\ apJobs'[i].references =
                IF apRequest'.job = i
                   /\ (apRequest'.stage = "admit" \/ Queued(i)' \/ worker'.job = i)
                THEN 2 ELSE 1
          /\ apJobs'[i].key # "ssid"
    BY <1>0, <1>1, <1>4 DEF ApInv, JobsCounted
  <2> QED
    BY <2>1, <2>2, <2>3, <2>4 DEF JobsCounted
<1>7. CommandAtWork'
  BY <1>0, <1>1, NoJobHere DEF ApInv, CommandAtWork
<1>8. LastInLine'
  <2>1. ASSUME NEW i \in 1..Len(apQueue'), apQueue'[i] = j PROVE i = Len(apQueue')
    BY <1>0, <1>2, <1>3, <2>1
  <2> QED
    BY <1>0, <1>1, <1>3, <2>1 DEF LastInLine
<1>9. NothingLate'
  <2>1. apJobs[j].key \notin apTold
    BY <1>0 DEF ApInv, CommandAtWork
  <2>2. ASSUME NEW i \in 1..Len(apQueue') PROVE apJobs[apQueue'[i]].key \notin apTold
    <3>1. i \in 1..Len(apQueue) \/ i = Len(apQueue) + 1
      BY <1>0, <1>2, <2>2
    <3> QED
      BY <1>2, <2>1, <3>1 DEF ApInv, NothingLate
  <2> QED
    BY <1>0, <2>2 DEF ApInv, NothingLate
<1>10. SavedIsLoaded'
  <2>1. SavedIsLoaded
    BY DEF ApInv
  <2> QED
    BY <1>0, <2>1, Zenon DEF SavedIsLoaded, Loaded
<1> QED
  BY <1>5, <1>6, <1>7, <1>8, <1>9, <1>10 DEF ApInv

(* The command is refused by the queue, waits no longer, or is served.      *)
LEMMA RequestEnds ==
    ASSUME ApInv, RefuseJob \/ WorkerTimeout \/ JobCompleted
    PROVE  ApInv'
<1>0. /\ ApTypeOK /\ apRequest.stage \in {"admit", "wait"}
      /\ UNCHANGED <<apState, apStored, radio, apQueue, worker>>
      /\ apRequest.value \in ApValues /\ apRequest.key \in ApKeys \ apTold
      /\ apState[apRequest.key] = apRequest.value /\ apRequest.key # "ssid"
  BY DEF RefuseJob, WorkerTimeout, JobCompleted, ApInv, CommandAtWork, ApTypeOK
<1>1. Release(apRequest.job,
              IF apRequest.stage = "admit" THEN 1 ELSE apJobs[apRequest.job].references)
  BY DEF RefuseJob, WorkerTimeout, JobCompleted
<1>2. CASE Answer(FALSE)
  <2>1. apRequest'.job = NoJob
    BY <1>2, NoJobHere DEF Answer
  <2> QED
    BY <1>0, <1>1, <1>2, <2>1, CommandLetsGo, AnswerKeeps DEF ApTypeOK
<1>3. CASE JobCompleted
  <2> DEFINE ok == apJobs[apRequest.job].succeeded
  <2>1. apRequest.stage = "wait"
    BY <1>3 DEF JobCompleted
  <2>2. ok => apStored[apRequest.key] = apRequest.value /\ QueueQuiet
    BY <2>1 DEF ApInv, LastInLine
  <2>3. ok \in BOOLEAN
    <3>1. apRequest.job \in DOMAIN apJobs
      BY <2>1 DEF ApInv, JobsCounted, CommandAtWork, ApTypeOK
    <3> QED
      BY <1>0, <3>1 DEF ApTypeOK, Jobs
  <2>4. CASE ~(ok /\ apRequest.key = "enabled")
    <3>1. Answer(ok)
      BY <1>3, <2>4 DEF JobCompleted
    <3>2. apRequest'.job = NoJob
      BY <3>1, NoJobHere DEF Answer
    <3>3. PICK b \in BOOLEAN : b = ok
      BY <2>3
    <3>4. CASE b
      BY <1>0, <1>1, <2>2, <2>4, <3>1, <3>2, <3>3, <3>4, CommandLetsGo, AnswerKeeps DEF ApTypeOK
    <3>5. CASE ~b
      BY <1>0, <1>1, <3>1, <3>2, <3>3, <3>5, CommandLetsGo, AnswerKeeps DEF ApTypeOK
    <3> QED
      BY <3>4, <3>5
  <2>5. CASE ok /\ apRequest.key = "enabled"
    <3>1. /\ apRequest' = [apRequest EXCEPT !.stage = "apply", !.job = NoJob]
          /\ UNCHANGED <<apOwner, apTold>>
      BY <1>3, <2>5 DEF JobCompleted
    <3>2. /\ apRequest'.stage = "apply" /\ apRequest'.job = NoJob
          /\ apRequest'.key = apRequest.key /\ apRequest'.value = apRequest.value
          /\ apRequest' \in [key : ApKeys \cup {"none"}, value : ApValues,
                             job : ApJobs \cup {NoJob},
                             stage : {"none", "create", "admit", "wait", "name", "apply"}]
      BY <1>0, <3>1 DEF ApTypeOK
    <3>3. /\ JobsCounted' /\ apJobs' \in [DOMAIN apJobs' -> Jobs]
          /\ DOMAIN apJobs' \subseteq DOMAIN apJobs
      BY <1>0, <1>1, <3>2, CommandLetsGo
    <3>4. ApTypeOK'
      BY <1>0, <3>1, <3>2, <3>3 DEF ApTypeOK
    <3>5. CommandAtWork'
      <4>1. apOwner # NoHost
        BY <2>1, NoJobHere DEF ApInv, CommandAtWork
      <4> QED
        BY <1>0, <2>2, <2>5, <3>1, <3>2, <4>1 DEF ApInv, CommandAtWork, QueueQuiet
    <3>6. LastInLine'
      BY <3>2 DEF LastInLine
    <3>7. NothingLate'
      BY <1>0, <2>2, <2>5 DEF NothingLate, QueueQuiet
    <3>8. SavedIsLoaded'
      <4>1. SavedIsLoaded
        BY DEF ApInv
      <4> QED
        BY <1>0, <3>1, <4>1, Zenon DEF SavedIsLoaded, Loaded
    <3> QED
      BY <3>3, <3>4, <3>5, <3>6, <3>7, <3>8 DEF ApInv
  <2> QED
    BY <2>4, <2>5
<1> QED
  BY <1>2, <1>3 DEF RefuseJob, WorkerTimeout

LEMMA Tailed ==
    ASSUME NEW S, NEW q \in Seq(S), q # << >>
    PROVE  /\ Tail(q) \in Seq(S) /\ Len(q) \in Nat \ {0} /\ Head(q) = q[1] /\ Head(q) \in S
           /\ Len(Tail(q)) = Len(q) - 1 /\ 1 \in 1..Len(q) /\ (Len(q) = 1 => Tail(q) = << >>)
           /\ \A i \in 1..Len(Tail(q)) :
                 /\ i + 1 \in 1..Len(q) /\ i + 1 # 1 /\ Tail(q)[i] = q[i + 1]
                 /\ i + 1 = Len(q) => i = Len(Tail(q))
           /\ \A k \in 1..Len(q) : k # 1 => k - 1 \in 1..Len(Tail(q)) /\ Tail(q)[k - 1] = q[k]
<1>1. Tail(q) \in Seq(S) /\ Len(q) \in Nat \ {0} /\ Head(q) = q[1] /\ Head(q) \in S
      /\ Len(Tail(q)) = Len(q) - 1 /\ \A i \in 1..Len(q) - 1 : Tail(q)[i] = q[i + 1]
  OBVIOUS
<1>2. Len(q) = 1 => Tail(q) = << >>
  <2>1. \A s \in Seq(S) : Len(s) = 0 => s = << >>
    OBVIOUS
  <2>2. Len(q) = 1 => Len(Tail(q)) = 0
    BY <1>1
  <2> QED
    BY <1>1, <2>1, <2>2
<1>3. PICK n \in Nat : n = Len(q) - 1
  <2>1. Len(q) \in Nat \ {0}
    BY <1>1
  <2>2. Len(q) - 1 \in Nat
    BY <2>1
  <2> QED
    BY <2>2
<1>4. Len(Tail(q)) = n /\ Len(q) = n + 1 /\ \A i \in 1..n : Tail(q)[i] = q[i + 1]
  BY <1>1, <1>3
<1>5. \A i \in 1..n : i + 1 \in 1..n + 1 /\ i + 1 # 1 /\ (i + 1 = n + 1 => i = n)
  OBVIOUS
<1>6. \A k \in 1..n + 1 : k # 1 => k - 1 \in 1..n /\ (k - 1) + 1 = k
  OBVIOUS
<1> QED
  BY <1>1, <1>2, <1>4, <1>5, <1>6

(* The task takes the first job of the queue.                               *)
LEMMA WorkerTakesKeeps ==
    ASSUME ApInv, WorkerTakes
    PROVE  ApInv'
<1> DEFINE j == Head(apQueue)
<1>0. /\ ApTypeOK /\ worker.stage = "waiting" /\ worker.job = NoJob /\ apQueue # << >>
      /\ apQueue \in Seq(ApJobs) /\ Len(apQueue) \in Nat \ {0} /\ apQueue' = Tail(apQueue)
      /\ worker' = [job |-> j, stage |-> "write"]
      /\ UNCHANGED <<apState, apStored, radio, apOwner, apRequest, apJobs, apTold>>
  BY DEF WorkerTakes, ApInv, CommandAtWork, ApTypeOK
<1>1. /\ j = apQueue[1] /\ j \in ApJobs /\ Len(apQueue') = Len(apQueue) - 1
      /\ apQueue' \in Seq(ApJobs) /\ 1 \in 1..Len(apQueue)
      /\ Len(apQueue) = 1 => apQueue' = << >>
  BY <1>0, Tailed
<1>2. /\ worker'.job = j /\ worker'.stage = "write"
      /\ worker' \in [job : ApJobs \cup {NoJob}, stage : {"waiting", "write", "give", "release"}]
  BY <1>0, <1>1
<1>3. \A i \in 1..Len(apQueue') :
         /\ i + 1 \in 1..Len(apQueue) /\ i + 1 # 1 /\ apQueue'[i] = apQueue[i + 1]
         /\ i + 1 = Len(apQueue) => i = Len(apQueue')
  BY <1>0, Tailed
<1>4. \A i : Queued(i) <=> Queued(i)' \/ i = j
  <2>1. \A i : Queued(i)' => Queued(i)
    BY <1>1, <1>3 DEF Queued
  <2>2. Queued(j)
    BY <1>1 DEF Queued
  <2>3. ASSUME NEW i, Queued(i), i # j PROVE Queued(i)'
    <3>1. PICK k \in 1..Len(apQueue) : apQueue[k] = i
      BY <2>3 DEF Queued
    <3>2. k - 1 \in 1..Len(apQueue') /\ apQueue'[k - 1] = i
      BY <1>0, <1>1, <2>3, <3>1, Tailed
    <3> QED
      BY <3>2 DEF Queued
  <2> QED
    BY <2>1, <2>2, <2>3
<1>5. ApTypeOK'
  <2>1. Len(apQueue') <= ApCapacity
    BY <1>0, <1>1, ApAssumption DEF ApTypeOK
  <2> QED
    BY <1>0, <1>1, <1>2, <2>1 DEF ApTypeOK
<1>6. JobsCounted'
  <2>1. \A i, k \in 1..Len(apQueue') : apQueue'[i] = apQueue'[k] => i = k
    <3> SUFFICES ASSUME NEW i \in 1..Len(apQueue'), NEW k \in 1..Len(apQueue'),
                        apQueue'[i] = apQueue'[k]
                 PROVE  i = k
      OBVIOUS
    <3>1. \A m, n \in 1..Len(apQueue) : apQueue[m] = apQueue[n] => m = n
      BY Zenon DEF ApInv, JobsCounted
    <3>2. /\ i + 1 \in 1..Len(apQueue) /\ k + 1 \in 1..Len(apQueue)
          /\ apQueue[i + 1] = apQueue[k + 1]
      BY <1>3
    <3>3. i + 1 = k + 1
      BY <3>1, <3>2, Zenon
    <3> QED
      BY <1>1, <3>3
  <2>2. \A i \in 1..Len(apQueue') : apQueue'[i] # j
    BY <1>1, <1>3 DEF ApInv, JobsCounted
  <2>4. \A i \in ApJobs :
           i \in DOMAIN apJobs' <=> Queued(i)' \/ worker'.job = i \/ apRequest'.job = i
    BY <1>0, <1>2, <1>4, NoJobHere DEF ApInv, JobsCounted
  <2>5. \A i \in DOMAIN apJobs' :
          /\ apJobs'[i].references =
                IF apRequest'.job = i
                   /\ (apRequest'.stage = "admit" \/ Queued(i)' \/ worker'.job = i)
                THEN 2 ELSE 1
          /\ apJobs'[i].key # "ssid"
    <3>1. \A i \in DOMAIN apJobs : Queued(i) \/ worker.job = i <=> Queued(i)' \/ worker'.job = i
      BY <1>0, <1>2, <1>4, NoJobHere DEF ApTypeOK
    <3> QED
      BY <1>0, <3>1 DEF ApInv, JobsCounted
  <2> QED
    BY <1>2, <2>1, <2>2, <2>4, <2>5 DEF JobsCounted
<1>7. ASSUME NEW r, r = apRequest.job, apRequest.stage = "admit"
      PROVE  j # r /\ ~Queued(r)'
  <2>1. ~Queued(r)
    BY <1>7 DEF ApInv, CommandAtWork
  <2> QED
    BY <1>4, <2>1
<1>8. CommandAtWork'
  <2>1. apRequest.stage # "apply"
    BY <1>0 DEF ApInv, CommandAtWork, QueueQuiet
  <2>2. PICK r : r = apRequest.job
    OBVIOUS
  <2>3. apRequest.stage = "admit" => ~Queued(apRequest.job)' /\ worker'.job # apRequest'.job
    BY <1>0, <1>2, <1>7, <2>2 DEF Queued
  <2> QED
    BY <1>0, <1>1, <1>2, <2>1, <2>3, NoJobHere DEF ApInv, CommandAtWork
<1>9. LastInLine'
  <2> SUFFICES ASSUME apRequest.stage = "wait"
               PROVE  /\ \A i \in 1..Len(apQueue') : apQueue'[i] = apRequest.job => i = Len(apQueue')
                      /\ j = apRequest.job => apQueue' = << >>
                      /\ ~apJobs[apRequest.job].succeeded
    BY <1>0, <1>2 DEF LastInLine
  <2>1. /\ \A i \in 1..Len(apQueue) : apQueue[i] = apRequest.job => i = Len(apQueue)
        /\ ~apJobs[apRequest.job].succeeded
    BY <1>0 DEF ApInv, LastInLine, QueueQuiet
  <2>2. \A i \in 1..Len(apQueue') : apQueue'[i] = apRequest.job => i = Len(apQueue')
    BY <1>3, <2>1
  <2>3. j = apRequest.job => apQueue' = << >>
    BY <1>1, <2>1
  <2> QED
    BY <2>1, <2>2, <2>3
<1>10. NothingLate'
  BY <1>0, <1>1, <1>2, <1>3 DEF ApInv, NothingLate
<1>11. SavedIsLoaded'
  <2>1. SavedIsLoaded
    BY DEF ApInv
  <2> QED
    BY <1>0, <2>1, Zenon DEF SavedIsLoaded, Loaded
<1> QED
  BY <1>5, <1>6, <1>8, <1>9, <1>10, <1>11 DEF ApInv

(* The task marks its job, which keeps its place.                           *)
LEMMA MarkKeeps ==
    ASSUME ApInv, worker.job # NoJob, NEW t \in Jobs, apJobs' = [apJobs EXCEPT ![worker.job] = t],
           t.key = apJobs[worker.job].key, t.value = apJobs[worker.job].value,
           t.references = apJobs[worker.job].references,
           worker'.job = worker.job, UNCHANGED <<apQueue, apRequest>>
    PROVE  /\ JobsCounted' /\ DOMAIN apJobs' = DOMAIN apJobs /\ apJobs' \in [DOMAIN apJobs -> Jobs]
           /\ worker.job \in DOMAIN apJobs /\ apJobs'[worker.job] = t
           /\ \A i \in DOMAIN apJobs : /\ apJobs'[i].key = apJobs[i].key
                                       /\ apJobs'[i].value = apJobs[i].value
                                       /\ i # worker.job => apJobs'[i] = apJobs[i]
<1>1. worker.job \in DOMAIN apJobs /\ apJobs \in [DOMAIN apJobs -> Jobs]
  BY DEF ApInv, JobsCounted, ApTypeOK
<1>2. /\ DOMAIN apJobs' = DOMAIN apJobs /\ apJobs' \in [DOMAIN apJobs -> Jobs]
      /\ apJobs'[worker.job] = t
      /\ \A i \in DOMAIN apJobs : i # worker.job => apJobs'[i] = apJobs[i]
  BY <1>1
<1>3. \A i \in DOMAIN apJobs : /\ apJobs'[i].key = apJobs[i].key
                               /\ apJobs'[i].value = apJobs[i].value
                               /\ apJobs'[i].references = apJobs[i].references
  BY <1>2
<1>4. \A i : Queued(i)' <=> Queued(i)
  BY DEF Queued
<1>5. JobsCounted'
  BY <1>2, <1>3, <1>4 DEF ApInv, JobsCounted
<1> QED
  BY <1>1, <1>2, <1>3, <1>5

LEMMA WorkerWritesKeeps ==
    ASSUME ApInv, WorkerWrites
    PROVE  ApInv'
<1> DEFINE w == worker.job
<1>0. /\ ApTypeOK /\ worker.stage = "write" /\ w # NoJob /\ w \in ApJobs
      /\ UNCHANGED <<apState, radio, apOwner, apRequest, apQueue, apTold>>
      /\ worker' = [worker EXCEPT !.stage = "give"]
  BY DEF WorkerWrites, ApInv, CommandAtWork, ApTypeOK
<1>1. w \in DOMAIN apJobs /\ apJobs[w] \in Jobs /\ apJobs \in [DOMAIN apJobs -> Jobs]
  BY <1>0 DEF ApInv, JobsCounted, ApTypeOK
<1>2. /\ worker'.job = w /\ worker'.stage = "give"
      /\ worker' \in [job : ApJobs \cup {NoJob}, stage : {"waiting", "write", "give", "release"}]
  BY <1>0 DEF ApTypeOK
<1>3. PICK s : s = [apJobs[w] EXCEPT !.succeeded = TRUE]
  OBVIOUS
<1>4. /\ s \in Jobs /\ s.key = apJobs[w].key /\ s.value = apJobs[w].value
      /\ s.references = apJobs[w].references
  BY <1>1, <1>3 DEF Jobs
<1>5. PICK t \in {s, apJobs[w]} :
         /\ apJobs' = [apJobs EXCEPT ![w] = t]
         /\ \/ t = s /\ apStored' = [apStored EXCEPT ![apJobs[w].key] = apJobs[w].value]
            \/ t = apJobs[w] /\ apStored' = apStored
  BY <1>1, <1>3, SameValue DEF WorkerWrites
<1>6. /\ t \in Jobs /\ t.key = apJobs[w].key /\ t.value = apJobs[w].value
      /\ t.references = apJobs[w].references
  BY <1>1, <1>4
<1>7. /\ JobsCounted' /\ DOMAIN apJobs' = DOMAIN apJobs /\ apJobs' \in [DOMAIN apJobs -> Jobs]
      /\ apJobs'[w] = t
      /\ \A i \in DOMAIN apJobs : /\ apJobs'[i].key = apJobs[i].key
                                  /\ apJobs'[i].value = apJobs[i].value
                                  /\ i # w => apJobs'[i] = apJobs[i]
  BY <1>0, <1>2, <1>5, <1>6, MarkKeeps
<1>8. /\ apStored' \in [ApKeys -> Stored] /\ apJobs[w].key \in ApKeys
      /\ \A k \in ApKeys : k # apJobs[w].key => apStored'[k] = apStored[k]
      /\ t = s \/ t = apJobs[w]
      /\ t # apJobs[w] => apStored'[apJobs[w].key] = apJobs[w].value
  <2>1. apStored \in [ApKeys -> Stored] /\ apJobs[w].key \in ApKeys /\ apJobs[w].value \in Stored
    BY <1>0, <1>1 DEF ApTypeOK, Jobs, Stored
  <2> QED
    BY <1>5, <2>1
<1>9. ApTypeOK'
  BY <1>0, <1>2, <1>7, <1>8 DEF ApTypeOK
<1>10. apRequest.stage # "none" /\ apRequest.job # NoJob => apRequest.job \in DOMAIN apJobs
  BY DEF ApInv, JobsCounted, ApTypeOK
<1>11. CommandAtWork'
  <2>1. apRequest.stage # "apply"
    BY <1>0 DEF ApInv, CommandAtWork, QueueQuiet
  <2>2. apRequest.stage \in {"admit", "wait"} => /\ apJobs'[apRequest.job].key = apRequest.key
                                                 /\ apJobs'[apRequest.job].value = apRequest.value
    BY <1>7, <1>10 DEF ApInv, CommandAtWork
  <2>3. apRequest.stage = "admit" =>
          /\ w # apRequest.job /\ apRequest.job \in DOMAIN apJobs /\ ~Queued(apRequest.job)
          /\ ~apJobs[apRequest.job].succeeded
    BY <1>10 DEF ApInv, CommandAtWork
  <2>4. apRequest.stage = "admit" => ~apJobs'[apRequest.job].succeeded
    BY <1>7, <2>3
  <2>5. Queued(apRequest.job)' <=> Queued(apRequest.job)
    BY <1>0 DEF Queued
  <2> QED
    BY <1>0, <1>2, <2>1, <2>2, <2>3, <2>4, <2>5 DEF ApInv, CommandAtWork
<1>12. LastInLine'
  <2> SUFFICES ASSUME apRequest.stage = "wait"
               PROVE  /\ \A i \in 1..Len(apQueue) : apQueue[i] = apRequest.job => i = Len(apQueue)
                      /\ w = apRequest.job => apQueue = << >>
                      /\ apJobs'[apRequest.job].succeeded =>
                            apStored'[apRequest.key] = apRequest.value /\ apQueue = << >>
    BY <1>0, <1>2 DEF LastInLine, QueueQuiet
  <2>1. /\ \A i \in 1..Len(apQueue) : apQueue[i] = apRequest.job => i = Len(apQueue)
        /\ w = apRequest.job => apQueue = << >>
        /\ ~apJobs[apRequest.job].succeeded
    BY <1>0 DEF ApInv, LastInLine, QueueQuiet
  <2>2. apRequest.job \in DOMAIN apJobs /\ apJobs[apRequest.job].key = apRequest.key
        /\ apJobs[apRequest.job].value = apRequest.value
    BY <1>10 DEF ApInv, CommandAtWork
  <2>3. CASE apRequest.job # w
    BY <1>7, <2>1, <2>2, <2>3
  <2>4. CASE apRequest.job = w /\ t = apJobs[w]
    BY <1>7, <2>1, <2>2, <2>4
  <2>5. CASE apRequest.job = w /\ t # apJobs[w]
    BY <1>8, <2>1, <2>2, <2>5
  <2> QED
    BY <1>8, <2>3, <2>4, <2>5
<1>13. NothingLate'
  <2>1. \A i \in 1..Len(apQueue) : apQueue[i] \in DOMAIN apJobs
    BY DEF ApInv, JobsCounted, Queued, ApTypeOK
  <2> QED
    BY <1>0, <1>2, <1>7, <2>1 DEF ApInv, NothingLate
<1>14. SavedIsLoaded'
  <2>1. apJobs[w].key \notin apTold
    BY <1>0 DEF ApInv, NothingLate
  <2>2. ASSUME NEW k \in apTold PROVE Loaded(apStored')[k] = Loaded(apStored)[k]
    <3>1. k \in ApKeys /\ k # apJobs[w].key
      BY <1>0, <2>1, <2>2 DEF ApTypeOK
    <3>2. apStored'[k] = apStored[k]
      BY <1>8, <3>1
    <3> QED
      BY <3>1, <3>2, LoadedValue
  <2>3. SavedIsLoaded
    BY DEF ApInv
  <2> QED
    BY <1>0, <2>2, <2>3, Zenon DEF SavedIsLoaded
<1> QED
  BY <1>7, <1>9, <1>11, <1>12, <1>13, <1>14 DEF ApInv

LEMMA WorkerGivesKeeps ==
    ASSUME ApInv, WorkerGives
    PROVE  ApInv'
<1> DEFINE w == worker.job
<1>0. /\ ApTypeOK /\ worker.stage = "give" /\ w # NoJob /\ w \in ApJobs
      /\ UNCHANGED <<apState, apStored, radio, apOwner, apRequest, apQueue, apTold>>
      /\ worker' = [worker EXCEPT !.stage = "release"]
  BY DEF WorkerGives, ApInv, CommandAtWork, ApTypeOK
<1>1. w \in DOMAIN apJobs /\ apJobs[w] \in Jobs /\ apJobs \in [DOMAIN apJobs -> Jobs]
  BY <1>0 DEF ApInv, JobsCounted, ApTypeOK
<1>2. /\ worker'.job = w /\ worker'.stage = "release"
      /\ worker' \in [job : ApJobs \cup {NoJob}, stage : {"waiting", "write", "give", "release"}]
  BY <1>0 DEF ApTypeOK
<1>3. PICK t : t = [apJobs[w] EXCEPT !.given = TRUE]
  OBVIOUS
<1>4. /\ t \in Jobs /\ t.key = apJobs[w].key /\ t.value = apJobs[w].value
      /\ t.references = apJobs[w].references /\ t.succeeded = apJobs[w].succeeded
  BY <1>1, <1>3 DEF Jobs
<1>5. apJobs' = [apJobs EXCEPT ![w] = t]
  BY <1>1, <1>3 DEF WorkerGives
<1>7. /\ JobsCounted' /\ DOMAIN apJobs' = DOMAIN apJobs /\ apJobs' \in [DOMAIN apJobs -> Jobs]
      /\ apJobs'[w] = t
      /\ \A i \in DOMAIN apJobs : /\ apJobs'[i].key = apJobs[i].key
                                  /\ apJobs'[i].value = apJobs[i].value
                                  /\ i # w => apJobs'[i] = apJobs[i]
  BY <1>0, <1>2, <1>4, <1>5, MarkKeeps
<1>8. \A i \in DOMAIN apJobs : apJobs'[i].succeeded => apJobs[i].succeeded
  BY <1>4, <1>7
<1>9. ApTypeOK'
  BY <1>0, <1>2, <1>7 DEF ApTypeOK
<1>10. apRequest.stage \in {"admit", "wait"} => apRequest.job \in DOMAIN apJobs
  BY DEF ApInv, JobsCounted, ApTypeOK, CommandAtWork
<1>11. CommandAtWork'
  <2>1. apRequest.stage \in {"admit", "wait"} => /\ apJobs'[apRequest.job].key = apRequest.key
                                                 /\ apJobs'[apRequest.job].value = apRequest.value
    BY <1>7, <1>10 DEF ApInv, CommandAtWork
  <2>2. apRequest.stage = "admit" => ~apJobs'[apRequest.job].succeeded
    BY <1>8, <1>10 DEF ApInv, CommandAtWork
  <2>3. Queued(apRequest.job)' <=> Queued(apRequest.job)
    BY <1>0 DEF Queued
  <2> QED
    BY <1>0, <1>2, <2>1, <2>2, <2>3 DEF ApInv, CommandAtWork, QueueQuiet
<1>12. LastInLine'
  <2> SUFFICES ASSUME apRequest.stage = "wait"
               PROVE  /\ \A i \in 1..Len(apQueue) : apQueue[i] = apRequest.job => i = Len(apQueue)
                      /\ w = apRequest.job => apQueue = << >>
                      /\ apJobs'[apRequest.job].succeeded =>
                            apStored[apRequest.key] = apRequest.value /\ apQueue = << >>
    BY <1>0, <1>2 DEF LastInLine, QueueQuiet
  <2> QED
    BY <1>8, <1>10 DEF ApInv, LastInLine, QueueQuiet
<1>13. NothingLate'
  <2>1. \A i \in 1..Len(apQueue) : apQueue[i] \in DOMAIN apJobs
    BY DEF ApInv, JobsCounted, Queued, ApTypeOK
  <2> QED
    BY <1>0, <1>2, <1>7, <2>1 DEF ApInv, NothingLate
<1>14. SavedIsLoaded'
  <2>1. SavedIsLoaded
    BY DEF ApInv
  <2> QED
    BY <1>0, <2>1, Zenon DEF SavedIsLoaded, Loaded
<1> QED
  BY <1>7, <1>9, <1>11, <1>12, <1>13, <1>14 DEF ApInv

(* The task gives its reference back.                                       *)
LEMMA WorkerReleasesKeeps ==
    ASSUME ApInv, WorkerReleases
    PROVE  ApInv'
<1> DEFINE w == worker.job
           r == apJobs[worker.job].references
<1>0. /\ ApTypeOK /\ worker.stage = "release" /\ w # NoJob /\ w \in ApJobs
      /\ UNCHANGED <<apState, apStored, radio, apOwner, apRequest, apQueue, apTold>>
      /\ worker' = NoWork /\ Release(w, r)
      /\ \A i \in 1..Len(apQueue) : apQueue[i] \in ApJobs
  BY DEF WorkerReleases, ApInv, CommandAtWork, ApTypeOK
<1>1. w \in DOMAIN apJobs /\ r \in 1..2 /\ (r = 2 <=> apRequest.job = w)
  BY <1>0 DEF ApInv, JobsCounted
<1>2. /\ DOMAIN apJobs' = IF r = 1 THEN DOMAIN apJobs \ {w} ELSE DOMAIN apJobs
      /\ apJobs' \in [DOMAIN apJobs' -> Jobs]
      /\ \A i \in DOMAIN apJobs' : /\ apJobs'[i].key = apJobs[i].key
                                   /\ apJobs'[i].value = apJobs[i].value
                                   /\ apJobs'[i].succeeded = apJobs[i].succeeded
                                   /\ i # w => apJobs'[i].references = apJobs[i].references
      /\ r = 2 => apJobs'[w].references = 1
  BY <1>0, <1>1, Released
<1>3. \A i : Queued(i)' <=> Queued(i)
  BY <1>0 DEF Queued
<1>4. ~Queued(w)
  BY DEF ApInv, JobsCounted, Queued
<1>5. ApTypeOK'
  BY <1>0, <1>2, RequestTypes DEF ApTypeOK
<1>6. \A i \in ApJobs : i \in DOMAIN apJobs' <=> Queued(i) \/ apRequest.job = i
  BY <1>0, <1>1, <1>2, <1>4 DEF ApInv, JobsCounted
<1>7. JobsCounted'
  <2>1. \A i \in ApJobs :
           i \in DOMAIN apJobs' <=> Queued(i)' \/ worker'.job = i \/ apRequest'.job = i
    BY <1>0, <1>3, <1>6, NoJobHere
  <2>2. /\ \A i, k \in 1..Len(apQueue') : apQueue'[i] = apQueue'[k] => i = k
        /\ \A i \in 1..Len(apQueue') : apQueue'[i] # worker'.job
    BY <1>0, NoJobHere DEF ApInv, JobsCounted
  <2>3. ASSUME NEW i \in DOMAIN apJobs'
        PROVE  /\ apJobs'[i].references =
                     IF apRequest'.job = i
                        /\ (apRequest'.stage = "admit" \/ Queued(i)' \/ worker'.job = i)
                     THEN 2 ELSE 1
               /\ apJobs'[i].key # "ssid"
    <3>1. i \in DOMAIN apJobs /\ i \in ApJobs /\ i # NoJob
      BY <1>0, <1>2, <2>3, NoJobHere DEF ApTypeOK
    <3>2. CASE i # w
      BY <1>0, <1>2, <1>3, <2>3, <3>1, <3>2, NoJobHere DEF ApInv, JobsCounted
    <3>3. CASE i = w
      <4>1. r = 2 /\ apRequest.job = w
        BY <1>1, <1>2, <2>3, <3>3
      <4>2. apRequest.stage # "admit"
        BY <4>1 DEF ApInv, CommandAtWork
      <4> QED
        BY <1>0, <1>2, <1>3, <1>4, <3>1, <3>3, <4>1, <4>2, NoJobHere DEF ApInv, JobsCounted
    <3> QED
      BY <3>2, <3>3
  <2> QED
    BY <2>1, <2>2, <2>3 DEF JobsCounted
<1>8. apRequest.stage \in {"admit", "wait"} => apRequest.job \in DOMAIN apJobs'
  BY <1>6 DEF ApInv, ApTypeOK, CommandAtWork
<1>9. CommandAtWork'
  <2>1. apRequest.stage \in {"admit", "wait"} => /\ apJobs'[apRequest.job].key = apRequest.key
                                                 /\ apJobs'[apRequest.job].value = apRequest.value
    BY <1>2, <1>8 DEF ApInv, CommandAtWork
  <2>2. apRequest.stage = "admit" => ~apJobs'[apRequest.job].succeeded
    BY <1>2, <1>8 DEF ApInv, CommandAtWork
  <2>3. Queued(apRequest.job)' <=> Queued(apRequest.job)
    BY <1>0 DEF Queued
  <2>4. apRequest.stage = "admit" => worker'.job # apRequest.job
    BY <1>0, NoJobHere DEF ApInv, CommandAtWork
  <2> QED
    BY <1>0, <2>1, <2>2, <2>3, <2>4, NoJobHere DEF ApInv, CommandAtWork, QueueQuiet
<1>10. LastInLine'
  <2> SUFFICES ASSUME apRequest.stage = "wait"
               PROVE  /\ \A i \in 1..Len(apQueue) : apQueue[i] = apRequest.job => i = Len(apQueue)
                      /\ NoJob = apRequest.job => apQueue = << >>
                      /\ apJobs'[apRequest.job].succeeded =>
                            apStored[apRequest.key] = apRequest.value /\ apQueue = << >>
    BY <1>0, NoJobHere DEF LastInLine, QueueQuiet
  <2>1. apRequest.job # NoJob
    BY DEF ApInv, CommandAtWork
  <2> QED
    BY <1>2, <1>8, <2>1 DEF ApInv, LastInLine, QueueQuiet
<1>11. NothingLate'
  <2>1. \A i \in 1..Len(apQueue) : apQueue[i] \in DOMAIN apJobs'
    BY <1>0, <1>6 DEF Queued
  <2> QED
    BY <1>0, <1>2, <2>1, NoJobHere DEF ApInv, NothingLate
<1>12. SavedIsLoaded'
  <2>1. SavedIsLoaded
    BY DEF ApInv
  <2> QED
    BY <1>0, <2>1, Zenon DEF SavedIsLoaded, Loaded
<1> QED
  BY <1>5, <1>7, <1>9, <1>10, <1>11, <1>12 DEF ApInv

(* The counts of JobsCounted are those of JobsHeld.                         *)
LEMMA HoldersCounted == ApInv => JobsHeld
<1> SUFFICES ASSUME ApInv PROVE JobsHeld
  OBVIOUS
<1>1. \A j : Queued(j) <=> \E i \in DOMAIN apQueue : apQueue[i] = j
  BY DEF Queued, ApInv, ApTypeOK
<1>2. \A j : /\ "queue" \in Holders(j) <=> Queued(j)
             /\ "worker" \in Holders(j) <=> worker.job = j
             /\ "command" \in Holders(j) <=> apRequest.job = j
             /\ Holders(j) \subseteq {"queue", "worker", "command"}
  BY <1>1 DEF Holders
<1>3. DOMAIN apJobs = {j \in ApJobs : Holders(j) # {}}
  <2>1. DOMAIN apJobs \subseteq ApJobs
    BY DEF ApInv, ApTypeOK
  <2>2. \A j \in ApJobs : j \in DOMAIN apJobs <=> Holders(j) # {}
    <3> SUFFICES ASSUME NEW j \in ApJobs PROVE j \in DOMAIN apJobs <=> Holders(j) # {}
      OBVIOUS
    <3>1. Holders(j) # {} <=> Queued(j) \/ worker.job = j \/ apRequest.job = j
      BY <1>2
    <3> QED
      BY <3>1 DEF ApInv, JobsCounted
  <2> QED
    BY <2>1, <2>2
<1>4. ASSUME NEW j \in DOMAIN apJobs
      PROVE  apJobs[j].references = Cardinality(Holders(j))
                 + (IF apRequest.job = j /\ apRequest.stage = "admit" THEN 1 ELSE 0)
  <2>1. ~(Queued(j) /\ worker.job = j) /\ (Queued(j) \/ worker.job = j \/ apRequest.job = j)
    BY <1>4 DEF ApInv, JobsCounted, Queued, ApTypeOK
  <2>2. apRequest.job = j /\ apRequest.stage = "admit" => ~Queued(j) /\ worker.job # j
    BY DEF ApInv, CommandAtWork
  <2>3. apJobs[j].references =
          IF apRequest.job = j /\ (apRequest.stage = "admit" \/ Queued(j) \/ worker.job = j)
          THEN 2 ELSE 1
    BY <1>4 DEF ApInv, JobsCounted
  <2>4. CASE apRequest.job # j \/ ~(Queued(j) \/ worker.job = j)
    <3>1. PICK h : Holders(j) = {h}
      BY <1>2, <2>1, <2>4
    <3>2. Cardinality(Holders(j)) = 1
      BY <3>1, FS_Singleton
    <3> QED
      BY <2>2, <2>3, <2>4, <3>2
  <2>5. CASE apRequest.job = j /\ (Queued(j) \/ worker.job = j)
    <3>1. PICK h : Holders(j) = {h} \cup {"command"} /\ h # "command"
      <4>1. CASE Queued(j)
        BY <1>2, <2>1, <2>5, <4>1
      <4>2. CASE worker.job = j
        BY <1>2, <2>1, <2>5, <4>2
      <4> QED
        BY <2>5, <4>1, <4>2
    <3>2. /\ IsFiniteSet({h}) /\ Cardinality({h}) = 1 /\ "command" \notin {h}
      BY <3>1, FS_Singleton
    <3>3. Cardinality({h} \cup {"command"}) = Cardinality({h}) + 1
      BY <3>2, FS_AddElement
    <3> QED
      BY <2>2, <2>3, <2>5, <3>1, <3>2, <3>3
  <2> QED
    BY <2>4, <2>5
<1> QED
  BY <1>3, <1>4 DEF JobsHeld

(* Every step of a command, of the worker and a restart.                   *)
LEMMA ApStep == ApInv /\ [ApNext]_apVars => ApInv'
<1> SUFFICES ASSUME ApInv, [ApNext]_apVars PROVE ApInv'
  OBVIOUS
<1>1. CASE UNCHANGED apVars
  <2>1. UNCHANGED <<apState, apStored, radio, apOwner, apRequest, apJobs, apQueue, worker, apTold>>
    BY <1>1 DEF apVars
  <2>2. /\ ApTypeOK' /\ JobsCounted' /\ CommandAtWork' /\ LastInLine' /\ NothingLate'
    BY <2>1 DEF ApInv, ApTypeOK, JobsCounted, Queued, CommandAtWork, LastInLine, QueueQuiet, NothingLate
  <2>3. SavedIsLoaded
    BY DEF ApInv
  <2>4. SavedIsLoaded'
    BY <2>1, <2>3, Zenon DEF SavedIsLoaded, Loaded
  <2> QED
    BY <2>2, <2>4 DEF ApInv
<1>2. ASSUME NEW h \in ApHosts, NEW k \in ApKeys, NEW v \in ApValues, ApCommand(h, k, v)
      PROVE  ApInv'
  BY <1>2, CommandKeeps
<1> QED
  BY <1>1, <1>2, SaveNameKeeps, CreateKeeps, AdmitKeeps, RequestEnds, ApplyEnabledKeeps,
     WorkerTakesKeeps, WorkerWritesKeeps, WorkerGivesKeeps, WorkerReleasesKeeps, ApRestartKeeps
     DEF ApNext

(* A job is allocated exactly as long as somebody has it, and what a        *)
(* command was told is saved is what a restart loads, for any hosts,        *)
(* settings, queue and memory and any of the faults: a task that is late    *)
(* finds its job, and writes before the command that came later             *)
(* (persist_async, access_point_persistence_task).                          *)
THEOREM AccessPointIsKept == ApSpec => []AccessPointKeeps
<1>1. ApInv => AccessPointKeeps
  BY HoldersCounted DEF ApInv, AccessPointKeeps
<1>2. ApInv /\ [ApNext]_apVars => ApInv'
  BY ApStep
<1> QED
  BY <1>1, <1>2, ApStarts, PTL DEF ApSpec

-----------------------------------------------------------------------------
(* Provisioning.  The client's fragments arrive in step with its numbers.   *)
Fragments == Subtypes \X Nat \X Nat
BlufiShape ==
    /\ partial \in [active : BOOLEAN, allocated : BOOLEAN, subtype : Subtypes, size : Nat,
                    data : Seq(Fragments)]
    /\ sending \in [subtype : Subtypes, data : Seq(Fragments)]
    /\ dispatched \in [subtype : Subtypes, data : Seq(Fragments)]
    /\ clientSequence = incoming

(* What was joined and what the client still has to send are the message    *)
(* that the first fragment announced; while nothing is joined the client    *)
(* has all of its message to send.                                          *)
FragmentsFollow ==
    /\ partial.allocated =>
          /\ partial.active /\ partial.data # << >> /\ sending.data # << >>
          /\ sending.subtype = partial.subtype
          /\ Len(partial.data) + Len(sending.data) = partial.size
          /\ \A i \in 1..Len(partial.data) : partial.data[i] = <<partial.subtype, i, partial.size>>
          /\ \A i \in 1..Len(sending.data) :
                sending.data[i] = <<partial.subtype, Len(partial.data) + i, partial.size>>
    /\ ~partial.allocated =>
          \A i \in 1..Len(sending.data) :
                sending.data[i] = <<sending.subtype, i, Len(sending.data)>>

(* With the sessions of this program, a key that was derived was reported,  *)
(* in this connection.                                                      *)
KeyReported ==
    /\ context \in [initialized : BOOLEAN, parameters : BOOLEAN, ready : BOOLEAN]
    /\ blufiClient \in BOOLEAN /\ notified \in BOOLEAN /\ securityReady \in BOOLEAN
    /\ wiring = "stack" /\ blufiClient =>
          (notified <=> context.ready) /\ (securityReady <=> context.ready)

(* With the callbacks nothing is reported, and so nothing is gained.        *)
Unserved == [ssid |-> FALSE, password |-> FALSE]
NothingGained ==
    wiring = "callbacks" => ~securityReady /\ staged = Unserved /\ applied = Unserved

(* A prepared frame is one the client has to send.                          *)
FramePrepared == prepared # 0 => sending.data # << >>

BlufiInv ==
    /\ BlufiShape /\ FragmentsFollow /\ KeyReported /\ NothingGained
    /\ FramePrepared /\ WholeMessages

LEMMA NothingSaid ==
    /\ NoMessage \in [subtype : Subtypes, data : Seq(Fragments)] /\ NoMessage.data = << >>
    /\ NoPartial \in [active : BOOLEAN, allocated : BOOLEAN, subtype : Subtypes, size : Nat,
                      data : Seq(Fragments)]
    /\ ~NoPartial.allocated
BY DEF NoMessage, NoPartial, Subtypes

LEMMA NoKey ==
    ASSUME NEW b \in BOOLEAN, NEW c, c = [initialized |-> b, parameters |-> FALSE, ready |-> FALSE]
    PROVE  c \in [initialized : BOOLEAN, parameters : BOOLEAN, ready : BOOLEAN] /\ ~c.ready
OBVIOUS

LEMMA BlufiStarts == BlufiInit => BlufiInv
<1> SUFFICES ASSUME BlufiInit PROVE BlufiInv
  OBVIOUS
<1>1. /\ context \in [initialized : BOOLEAN, parameters : BOOLEAN, ready : BOOLEAN]
      /\ ~context.ready
  BY NoKey DEF BlufiInit
<1>2. blufiClient \in BOOLEAN /\ notified \in BOOLEAN /\ securityReady \in BOOLEAN /\ ~blufiClient
  BY Zenon DEF BlufiInit
<1>3. KeyReported
  BY <1>1, <1>2 DEF KeyReported
<1>4. BlufiShape
  BY NothingSaid DEF BlufiInit, BlufiShape
<1>5. FragmentsFollow /\ WholeMessages /\ FramePrepared
  BY NothingSaid DEF BlufiInit, FragmentsFollow, WholeMessages, FramePrepared
<1>6. NothingGained
  BY DEF BlufiInit, NothingGained, Unserved
<1> QED
  BY <1>3, <1>4, <1>5, <1>6 DEF BlufiInv

LEMMA WholeMessage ==
    ASSUME NEW s \in Subtypes, NEW d \in Seq(Fragments),
           \A i \in 1..Len(d) : d[i] = <<s, i, Len(d)>>
    PROVE  [subtype |-> s, data |-> d] = Message(s, Len(d))
<1>1. Len(d) \in Nat /\ DOMAIN d = 1..Len(d) /\ d = [i \in DOMAIN d |-> d[i]]
  OBVIOUS
<1>2. d = [i \in 1..Len(d) |-> <<s, i, Len(d)>>]
  BY <1>1, Zenon
<1> QED
  BY <1>2 DEF Message

(* The client connects, disconnects and begins a message.                   *)
LEMMA ClientKeeps ==
    ASSUME BlufiInv,
           \/ AdvertisingInstalled \/ ClientConnected \/ ClientDisconnected
           \/ \E subtype \in Subtypes, fragments \in 1..MaxFragments : ClientSays(subtype, fragments)
           \/ prepare_write
    PROVE  BlufiInv'
<1>1. CASE AdvertisingInstalled \/ prepare_write
  <2>1. UNCHANGED <<wiring, partial, sending, dispatched, clientSequence, incoming, context,
                    blufiClient, notified, securityReady, staged, applied>>
    BY <1>1 DEF AdvertisingInstalled, prepare_write
  <2>2. FramePrepared'
    BY <1>1 DEF AdvertisingInstalled, prepare_write, BlufiInv, FramePrepared
  <2> QED
    BY <2>1, <2>2 DEF BlufiInv, BlufiShape, FragmentsFollow, KeyReported, NothingGained,
       WholeMessages, Message
<1>2. CASE ClientConnected
  <2>1. /\ context' \in [initialized : BOOLEAN, parameters : BOOLEAN, ready : BOOLEAN]
        /\ ~context'.ready
    BY <1>2, NoKey DEF ClientConnected
  <2>2. /\ blufiClient' \in BOOLEAN /\ notified' \in BOOLEAN /\ securityReady' \in BOOLEAN
        /\ ~notified' /\ ~securityReady'
    BY <1>2, Zenon DEF ClientConnected, SessionReset
  <2>3. KeyReported'
    BY <2>1, <2>2 DEF KeyReported
  <2>4. /\ partial' = NoPartial /\ sending' = NoMessage /\ dispatched' = NoMessage
        /\ clientSequence' = 0 /\ incoming' = 0 /\ prepared' = 0
    BY <1>2 DEF ClientConnected, SessionReset
  <2>5. BlufiShape'
    BY <2>4, NothingSaid DEF BlufiShape
  <2>6. FragmentsFollow' /\ WholeMessages' /\ FramePrepared'
    BY <2>4, NothingSaid DEF FragmentsFollow, WholeMessages, FramePrepared
  <2>7. NothingGained'
    BY <1>2, <2>2 DEF ClientConnected, BlufiInv, NothingGained, Unserved
  <2> QED
    BY <2>3, <2>5, <2>6, <2>7 DEF BlufiInv
<1>3. CASE ClientDisconnected
  <2>1. UNCHANGED <<partial, sending, dispatched, clientSequence, incoming, notified, prepared>>
    BY <1>3 DEF ClientDisconnected
  <2>2. context' \in [initialized : BOOLEAN, parameters : BOOLEAN, ready : BOOLEAN]
    BY <1>3, NoKey DEF ClientDisconnected
  <2>3. /\ blufiClient' \in BOOLEAN /\ notified' \in BOOLEAN /\ securityReady' \in BOOLEAN
        /\ ~blufiClient'
    BY <1>3, Zenon DEF ClientDisconnected, BlufiInv, KeyReported
  <2>4. KeyReported'
    BY <2>2, <2>3 DEF KeyReported
  <2>5. BlufiShape' /\ FragmentsFollow' /\ WholeMessages' /\ FramePrepared'
    BY <2>1 DEF BlufiInv, BlufiShape, FragmentsFollow, WholeMessages, Message, FramePrepared
  <2>6. NothingGained'
    BY <1>3 DEF ClientDisconnected, BlufiInv, NothingGained, Unserved
  <2> QED
    BY <2>4, <2>5, <2>6 DEF BlufiInv
<1>4. ASSUME NEW s \in Subtypes, NEW n \in 1..MaxFragments, ClientSays(s, n)
      PROVE  BlufiInv'
  <2>1. /\ UNCHANGED <<wiring, partial, clientSequence, incoming, context, blufiClient,
                       notified, securityReady, staged, applied>>
        /\ sending' = Message(s, n) /\ dispatched' = NoMessage /\ sending.data = << >>
        /\ prepared' = 0
    BY <1>4 DEF ClientSays
  <2>2. n \in Nat /\ n > 0
    BY <1>4, BlufiAssumption
  <2>3. PICK d : d = [i \in 1..n |-> <<s, i, n>>]
    OBVIOUS
  <2>4. d \in Seq(Fragments) /\ Len(d) = n /\ \A i \in 1..Len(d) : d[i] = <<s, i, Len(d)>>
    BY <2>2, <2>3 DEF Fragments
  <2>5. sending' = [subtype |-> s, data |-> d]
    BY <2>1, <2>3 DEF Message
  <2>6. sending' \in [subtype : Subtypes, data : Seq(Fragments)] /\ sending'.subtype = s
        /\ sending'.data = d
    BY <2>4, <2>5
  <2>7. BlufiShape' /\ WholeMessages'
    BY <2>1, <2>6, NothingSaid DEF BlufiInv, BlufiShape, WholeMessages
  <2>8. ~partial.allocated
    BY <2>1 DEF BlufiInv, FragmentsFollow
  <2>9. FragmentsFollow'
    BY <2>1, <2>4, <2>6, <2>8 DEF FragmentsFollow
  <2>10. KeyReported' /\ NothingGained' /\ FramePrepared'
    BY <2>1 DEF BlufiInv, KeyReported, NothingGained, FramePrepared
  <2> QED
    BY <2>7, <2>9, <2>10 DEF BlufiInv
<1> QED
  BY <1>1, <1>2, <1>3, <1>4

(* A key that is derived is reported as soon as it is, by the sessions.     *)
LEMMA DispatchKeepsKey ==
    ASSUME KeyReported, UNCHANGED <<wiring, blufiClient>>, NEW m,
           dispatch(m) \/ Undispatched
    PROVE  KeyReported'
<1>1. CASE UNCHANGED <<context, notified, securityReady>>
  BY <1>1 DEF KeyReported
<1>2. ASSUME NEW s, receive_negotiation(s) PROVE KeyReported'
  <2>1. PICK success \in BOOLEAN :
          /\ context' = [context EXCEPT
               !.parameters = IF s = "parameter_length" THEN success ELSE @,
               !.ready = @ \/ ((s = "parameter_data" /\ context.parameters) /\ success)]
          /\ notified' = (notified \/ (context'.ready /\ ~notified /\ wiring = "stack"))
          /\ securityReady' =
                (\/ securityReady
                 \/ (context'.ready /\ ~notified /\ wiring = "stack") /\ blufiClient)
    BY <1>2 DEF receive_negotiation
  <2>2. /\ context' \in [initialized : BOOLEAN, parameters : BOOLEAN, ready : BOOLEAN]
        /\ context.ready => context'.ready
    BY <2>1 DEF KeyReported
  <2>3. /\ notified' \in BOOLEAN /\ securityReady' \in BOOLEAN
        /\ wiring = "stack" =>
              /\ notified' <=> (notified \/ context'.ready)
              /\ securityReady' <=> (securityReady \/ (context'.ready /\ ~notified /\ blufiClient))
    BY <2>1, Zenon DEF KeyReported
  <2>4. wiring = "stack" /\ blufiClient =>
          (notified <=> context.ready) /\ (securityReady <=> context.ready)
    BY DEF KeyReported
  <2>5. wiring' = "stack" /\ blufiClient' =>
          (notified' <=> context'.ready) /\ (securityReady' <=> context'.ready)
    BY <2>2, <2>3, <2>4, Zenon
  <2>6. blufiClient' \in BOOLEAN
    BY DEF KeyReported
  <2> QED
    BY <2>2, <2>3, <2>5, <2>6, Zenon DEF KeyReported
<1>3. CASE dispatch(m)
  <2>1. \/ \E s : receive_negotiation(s)
        \/ UNCHANGED <<context, notified, securityReady>>
    BY <1>3, Zenon DEF dispatch, stage_credential, connect_station
  <2> QED
    BY <1>1, <1>2, <2>1
<1>4. CASE Undispatched
  BY <1>1, <1>4 DEF Undispatched
<1> QED
  BY <1>3, <1>4

(* The callbacks report nothing, and the commands refuse what follows.      *)
LEMMA DispatchGains ==
    ASSUME NothingGained, wiring' = wiring, NEW m, dispatch(m) \/ Undispatched
    PROVE  NothingGained'
<1> SUFFICES ASSUME wiring = "callbacks"
             PROVE  ~securityReady' /\ staged' = staged /\ applied' = applied
  BY DEF NothingGained
<1>1. ~securityReady /\ wiring # "stack"
  BY DEF NothingGained
<1>2. ASSUME NEW s, receive_negotiation(s)
      PROVE  ~securityReady' /\ staged' = staged /\ applied' = applied
  BY <1>1, <1>2, Zenon DEF receive_negotiation
<1>3. CASE dispatch(m)
  <2>1. \/ \E s : receive_negotiation(s)
        \/ \E s : stage_credential(s)
        \/ connect_station
        \/ UNCHANGED <<securityReady, staged, applied>>
    BY <1>3, Zenon DEF dispatch
  <2>2. ASSUME NEW s, stage_credential(s)
        PROVE  ~securityReady' /\ staged' = staged /\ applied' = applied
    BY <1>1, <2>2, Zenon DEF stage_credential
  <2>3. CASE connect_station
    BY <1>1, <2>3, Zenon DEF connect_station
  <2>4. CASE UNCHANGED <<securityReady, staged, applied>>
    BY <1>1, <2>4
  <2> QED
    BY <1>2, <2>1, <2>2, <2>3, <2>4
<1>4. CASE Undispatched
  BY <1>1, <1>4 DEF Undispatched
<1> QED
  BY <1>3, <1>4

(* A fragment is joined behind the others.                                  *)
LEMMA Joined ==
    ASSUME NEW S, NEW p \in Seq(S), NEW x \in S
    PROVE  /\ p \o <<x>> \in Seq(S) /\ Len(p) \in Nat /\ Len(p \o <<x>>) = Len(p) + 1
           /\ p \o <<x>> # << >>
           /\ \A i \in 1..Len(p) : (p \o <<x>>)[i] = p[i]
           /\ (p \o <<x>>)[Len(p) + 1] = x
           /\ \A i \in 1..Len(p) + 1 : i \in 1..Len(p) \/ i = Len(p) + 1
<1>1. /\ p \o <<x>> \in Seq(S) /\ Len(p) \in Nat /\ Len(p \o <<x>>) = Len(p) + 1
      /\ \A i \in 1..Len(p) : (p \o <<x>>)[i] = p[i]
      /\ (p \o <<x>>)[Len(p) + 1] = x
  OBVIOUS
<1>2. \A i \in 1..Len(p) + 1 : i \in 1..Len(p) \/ i = Len(p) + 1
  BY <1>1
<1>3. p \o <<x>> # << >>
  BY <1>1
<1> QED
  BY <1>1, <1>2, <1>3

(* A frame of the client is counted, and joined or dispatched.              *)
LEMMA DecodeKeeps ==
    ASSUME BlufiInv, Faults \subseteq {"allocate"}, sending.data # << >>,
           NEW damage \in Damages, Decode(damage), prepared' = 0
    PROVE  BlufiInv'
<1>1. damage = "none"
  BY DEF Damages
<1>2. PICK f : f = [subtype |-> sending.subtype, data |-> <<Head(sending.data)>>,
                    more |-> Len(sending.data) > 1, remaining |-> Len(sending.data)]
  OBVIOUS
<1>3. clientSequence = incoming
  BY DEF BlufiInv, BlufiShape
<1>4. /\ incoming' = (incoming + 1) % SequenceLimit
      /\ clientSequence' = (clientSequence + 1) % SequenceLimit
      /\ receive_characteristic(f) /\ UNCHANGED <<wiring, blufiClient>>
      /\ sending' = [sending EXCEPT !.data = IF reported' THEN << >> ELSE Tail(@)]
  BY <1>1, <1>2, <1>3 DEF Decode
<1>5. PICK q : q = sending.data
  OBVIOUS
<1>6. q \in Seq(Fragments) /\ q # << >> /\ sending.subtype \in Subtypes
  BY <1>5 DEF BlufiInv, BlufiShape
<1>7. /\ f.subtype = sending.subtype /\ f.data = <<Head(q)>> /\ f.remaining = Len(q)
      /\ f.more <=> Len(q) > 1
  BY <1>2, <1>5
<1>8. /\ Tail(q) \in Seq(Fragments) /\ Len(q) \in Nat \ {0} /\ Head(q) = q[1] /\ Head(q) \in Fragments
      /\ Len(Tail(q)) = Len(q) - 1 /\ 1 \in 1..Len(q) /\ (Len(q) = 1 => Tail(q) = << >>)
      /\ \A i \in 1..Len(Tail(q)) : i + 1 \in 1..Len(q) /\ Tail(q)[i] = q[i + 1]
  BY <1>6, Tailed
<1>9. /\ sending' \in [subtype : Subtypes, data : Seq(Fragments)]
      /\ sending'.subtype = sending.subtype
      /\ sending'.data = IF reported' THEN << >> ELSE Tail(q)
  <2>1. PICK rest : rest = IF reported' THEN << >> ELSE Tail(q)
    OBVIOUS
  <2>2. rest \in Seq(Fragments)
    BY <1>8, <2>1
  <2>3. sending' = [sending EXCEPT !.data = rest]
    BY <1>4, <1>5, <2>1
  <2>4. sending \in [subtype : Subtypes, data : Seq(Fragments)]
    BY DEF BlufiInv, BlufiShape
  <2> QED
    BY <2>1, <2>2, <2>3, <2>4
<1>10. clientSequence' = incoming'
  BY <1>3, <1>4
<1>11. PICK p : p = partial.data
  OBVIOUS
<1>12. /\ partial \in [active : BOOLEAN, allocated : BOOLEAN, subtype : Subtypes, size : Nat,
                       data : Seq(Fragments)]
       /\ p \in Seq(Fragments) /\ Len(p) \in Nat
  BY <1>11 DEF BlufiInv, BlufiShape
<1>13. WholeMessages /\ dispatched \in [subtype : Subtypes, data : Seq(Fragments)]
  BY DEF BlufiInv, BlufiShape
<1>14. KeyReported' /\ NothingGained' /\ FramePrepared'
  <2>1. \/ Undispatched
        \/ \E m : dispatch(m)
    BY <1>4, Zenon DEF receive_characteristic, JoinFragment, CompleteMessage
  <2> QED
    BY <1>4, <2>1, DispatchKeepsKey, DispatchGains DEF BlufiInv, FramePrepared
<1>15. ASSUME ~partial'.allocated, sending'.data = << >>
       PROVE  FragmentsFollow'
  BY <1>15 DEF FragmentsFollow
<1>16. ASSUME UNCHANGED dispatched
       PROVE  WholeMessages' /\ dispatched' \in [subtype : Subtypes, data : Seq(Fragments)]
  BY <1>13, <1>16 DEF WholeMessages, Message
<1>17. CASE Len(q) > 1 /\ ~partial.allocated
  <2>1. /\ UNCHANGED dispatched
        /\ \/ /\ partial' = [active |-> TRUE, allocated |-> TRUE, subtype |-> f.subtype,
                             size |-> f.remaining, data |-> f.data]
              /\ reported' = FALSE
           \/ /\ partial' = [NoPartial EXCEPT !.active = TRUE, !.subtype = f.subtype]
              /\ reported' = TRUE
    BY <1>4, <1>7, <1>17 DEF receive_characteristic, JoinFragment, Undispatched, report_error,
       no_error
  <2>2. \A i \in 1..Len(q) : q[i] = <<sending.subtype, i, Len(q)>>
    BY <1>5, <1>17 DEF BlufiInv, FragmentsFollow
  <2>3. CASE /\ partial' = [active |-> TRUE, allocated |-> TRUE, subtype |-> f.subtype,
                            size |-> f.remaining, data |-> f.data]
             /\ reported' = FALSE
    <3>1. /\ partial'.active /\ partial'.allocated /\ partial'.subtype = sending.subtype
          /\ partial'.size = Len(q) /\ partial'.data = <<Head(q)>>
      BY <1>7, <2>3
    <3>2. /\ <<Head(q)>> \in Seq(Fragments) /\ Len(<<Head(q)>>) = 1 /\ <<Head(q)>> # << >>
          /\ <<Head(q)>>[1] = Head(q) /\ \A i \in 1..1 : i = 1
      BY <1>8
    <3>3. partial' \in [active : BOOLEAN, allocated : BOOLEAN, subtype : Subtypes, size : Nat,
                        data : Seq(Fragments)]
      BY <1>6, <1>7, <1>8, <2>3, <3>2
    <3>4. sending'.data = Tail(q)
      BY <1>9, <2>3
    <3>5. Tail(q) # << >> /\ 1 + Len(Tail(q)) = Len(q)
      <4>1. Len(Tail(q)) # 0 /\ 1 + Len(Tail(q)) = Len(q)
        BY <1>8, <1>17
      <4>2. Len(<< >>) = 0
        OBVIOUS
      <4> QED
        BY <4>1, <4>2
    <3>6. Head(q) = <<sending.subtype, 1, Len(q)>>
      BY <1>8, <2>2
    <3>7. \A i \in 1..Len(Tail(q)) : Tail(q)[i] = <<sending.subtype, 1 + i, Len(q)>>
      <4> SUFFICES ASSUME NEW i \in 1..Len(Tail(q))
                   PROVE  Tail(q)[i] = <<sending.subtype, 1 + i, Len(q)>>
        OBVIOUS
      <4>1. i + 1 = 1 + i
        BY <1>8
      <4> QED
        BY <1>8, <2>2, <4>1
    <3>8. FragmentsFollow'
      BY <1>9, <3>1, <3>2, <3>4, <3>5, <3>6, <3>7 DEF FragmentsFollow
    <3>9. BlufiShape'
      BY <1>9, <1>10, <1>16, <2>1, <3>3 DEF BlufiShape
    <3> QED
      BY <1>14, <1>16, <2>1, <3>8, <3>9 DEF BlufiInv
  <2>4. CASE /\ partial' = [NoPartial EXCEPT !.active = TRUE, !.subtype = f.subtype]
             /\ reported' = TRUE
    <3>1. /\ partial' \in [active : BOOLEAN, allocated : BOOLEAN, subtype : Subtypes, size : Nat,
                           data : Seq(Fragments)]
          /\ ~partial'.allocated
      BY <1>6, <1>7, <2>4, NothingSaid
    <3>2. sending'.data = << >>
      BY <1>9, <2>4
    <3>3. BlufiShape'
      BY <1>9, <1>10, <1>16, <2>1, <3>1 DEF BlufiShape
    <3> QED
      BY <1>14, <1>15, <1>16, <2>1, <3>1, <3>2, <3>3 DEF BlufiInv
  <2> QED
    BY <2>1, <2>3, <2>4
<1>18. ASSUME partial.allocated
       PROVE  /\ partial.active /\ p # << >> /\ sending.subtype = partial.subtype
              /\ Len(p) + Len(q) = partial.size
              /\ \A i \in 1..Len(p) : p[i] = <<partial.subtype, i, partial.size>>
              /\ \A i \in 1..Len(q) : q[i] = <<partial.subtype, Len(p) + i, partial.size>>
              /\ Head(q) = <<partial.subtype, Len(p) + 1, partial.size>>
              /\ Len(f.data) = 1 /\ partial.size - Len(p) = Len(q)
  <2>1. /\ partial.active /\ p # << >> /\ sending.subtype = partial.subtype
        /\ Len(p) + Len(q) = partial.size
        /\ \A i \in 1..Len(p) : p[i] = <<partial.subtype, i, partial.size>>
        /\ \A i \in 1..Len(q) : q[i] = <<partial.subtype, Len(p) + i, partial.size>>
    BY <1>5, <1>11, <1>18 DEF BlufiInv, FragmentsFollow
  <2>2. Len(f.data) = 1
    BY <1>7
  <2>3. partial.size - Len(p) = Len(q)
    BY <1>8, <1>12, <2>1
  <2> QED
    BY <1>8, <2>1, <2>2, <2>3
<1>19. PICK j : j = p \o <<Head(q)>>
  OBVIOUS
<1>20. /\ j \in Seq(Fragments) /\ Len(j) = Len(p) + 1 /\ j # << >>
       /\ \A i \in 1..Len(p) : j[i] = p[i]
       /\ j[Len(p) + 1] = Head(q)
       /\ \A i \in 1..Len(p) + 1 : i \in 1..Len(p) \/ i = Len(p) + 1
  BY <1>8, <1>12, <1>19, Joined
<1>21. ASSUME partial.allocated
       PROVE  \A i \in 1..Len(j) : j[i] = <<partial.subtype, i, partial.size>>
  <2> SUFFICES ASSUME NEW i \in 1..Len(j) PROVE j[i] = <<partial.subtype, i, partial.size>>
    OBVIOUS
  <2>1. i \in 1..Len(p) \/ i = Len(p) + 1
    BY <1>20
  <2> QED
    BY <1>18, <1>20, <1>21, <2>1
<1>22. CASE Len(q) > 1 /\ partial.allocated
  <2>1. 1 <= partial.size - Len(p)
    BY <1>8, <1>18, <1>22
  <2>2. /\ UNCHANGED dispatched
        /\ partial' = [partial EXCEPT !.data = @ \o f.data] /\ reported' = FALSE
    BY <1>4, <1>7, <1>11, <1>18, <1>22, <2>1 DEF receive_characteristic, JoinFragment,
       Undispatched, no_error, matches_partial
  <2>3. partial' = [partial EXCEPT !.data = j]
    BY <1>7, <1>11, <1>19, <2>2
  <2>4. /\ partial' \in [active : BOOLEAN, allocated : BOOLEAN, subtype : Subtypes, size : Nat,
                         data : Seq(Fragments)]
        /\ partial'.active = partial.active /\ partial'.allocated = partial.allocated
        /\ partial'.subtype = partial.subtype /\ partial'.size = partial.size
        /\ partial'.data = j
    BY <1>12, <1>20, <2>3
  <2>5. sending'.data = Tail(q)
    BY <1>9, <2>2
  <2>6. Tail(q) # << >> /\ Len(j) + Len(Tail(q)) = partial.size
    <3>1. Len(Tail(q)) # 0 /\ Len(<< >>) = 0
      BY <1>8, <1>22
    <3>2. Tail(q) # << >>
      BY <3>1
    <3>3. Len(j) + Len(Tail(q)) = Len(p) + Len(q)
      BY <1>8, <1>12, <1>20
    <3> QED
      BY <1>18, <1>22, <3>2, <3>3
  <2>7. \A i \in 1..Len(Tail(q)) : Tail(q)[i] = <<partial.subtype, Len(j) + i, partial.size>>
    <3> SUFFICES ASSUME NEW i \in 1..Len(Tail(q))
                 PROVE  Tail(q)[i] = <<partial.subtype, Len(j) + i, partial.size>>
      OBVIOUS
    <3>1. Len(p) + (i + 1) = Len(j) + i
      BY <1>8, <1>12, <1>20
    <3>2. i + 1 \in 1..Len(q) /\ Tail(q)[i] = q[i + 1]
      BY <1>8
    <3>3. q[i + 1] = <<partial.subtype, Len(p) + (i + 1), partial.size>>
      BY <1>18, <1>22, <3>2
    <3> QED
      BY <3>1, <3>2, <3>3
  <2>8. FragmentsFollow'
    <3>1. partial'.allocated /\ partial'.active /\ sending'.subtype = partial'.subtype
      BY <1>9, <1>18, <1>22, <2>4
    <3>2. \A i \in 1..Len(j) : j[i] = <<partial'.subtype, i, partial'.size>>
      BY <1>21, <1>22, <2>4
    <3>3. \A i \in 1..Len(Tail(q)) : Tail(q)[i] = <<partial'.subtype, Len(j) + i, partial'.size>>
      BY <2>4, <2>7
    <3>4. j # << >> /\ partial'.data = j /\ Len(j) + Len(Tail(q)) = partial'.size
      BY <1>20, <2>4, <2>6
    <3> QED
      BY <2>5, <2>6, <3>1, <3>2, <3>3, <3>4 DEF FragmentsFollow
  <2>9. BlufiShape'
    BY <1>9, <1>10, <1>16, <2>2, <2>4 DEF BlufiShape
  <2> QED
    BY <1>14, <1>16, <2>2, <2>8, <2>9 DEF BlufiInv
<1>23. CASE Len(q) = 1
  <2>1. ~(Len(q) > 1) /\ ~f.more /\ Tail(q) = << >>
    BY <1>7, <1>8, <1>23
  <2>2. sending'.data = << >>
    BY <1>9, <2>1
  <2>3. CASE partial.allocated
    <3>1. /\ dispatch([subtype |-> partial.subtype, data |-> p \o f.data])
          /\ partial' = NoPartial
      BY <1>4, <1>7, <1>11, <1>18, <1>23, <2>1, <2>3 DEF receive_characteristic, CompleteMessage,
         matches_partial
    <3>2. dispatched' = [subtype |-> partial.subtype, data |-> j]
      BY <1>7, <1>19, <3>1 DEF dispatch
    <3>3. Len(j) = partial.size
      BY <1>18, <1>20, <1>23, <2>3
    <3>4. dispatched' = Message(partial.subtype, Len(j))
      BY <1>12, <1>20, <1>21, <2>3, <3>2, <3>3, WholeMessage
    <3>5. /\ dispatched' \in [subtype : Subtypes, data : Seq(Fragments)]
          /\ dispatched'.subtype = partial.subtype /\ dispatched'.data = j
      BY <1>12, <1>20, <3>2
    <3>6. WholeMessages'
      BY <3>4, <3>5 DEF WholeMessages
    <3>7. BlufiShape' /\ ~partial'.allocated
      BY <1>9, <1>10, <3>1, <3>5, NothingSaid DEF BlufiShape
    <3> QED
      BY <1>14, <1>15, <2>2, <3>6, <3>7 DEF BlufiInv
  <2>4. CASE ~partial.allocated /\ partial.active
    <3>1. UNCHANGED <<dispatched, partial>>
      BY <1>4, <2>1, <2>4 DEF receive_characteristic, CompleteMessage, Undispatched
    <3>2. BlufiShape'
      BY <1>9, <1>10, <1>12, <1>16, <3>1 DEF BlufiShape
    <3> QED
      BY <1>14, <1>15, <1>16, <2>2, <2>4, <3>1, <3>2 DEF BlufiInv
  <2>5. CASE ~partial.allocated /\ ~partial.active
    <3>1. /\ dispatch([subtype |-> f.subtype, data |-> f.data])
          /\ partial' = partial
      BY <1>4, <2>1, <2>5 DEF receive_characteristic
    <3>2. PICK d : d = <<Head(q)>>
      OBVIOUS
    <3>3. dispatched' = [subtype |-> sending.subtype, data |-> d]
      BY <1>7, <3>1, <3>2 DEF dispatch
    <3>4. d \in Seq(Fragments) /\ Len(d) = 1 /\ d[1] = Head(q)
      BY <1>8, <3>2
    <3>5. Head(q) = <<sending.subtype, 1, 1>>
      BY <1>5, <1>8, <1>23, <2>5 DEF BlufiInv, FragmentsFollow
    <3>6. \A i \in 1..Len(d) : d[i] = <<sending.subtype, i, Len(d)>>
      <4> SUFFICES ASSUME NEW i \in 1..Len(d) PROVE d[i] = <<sending.subtype, i, Len(d)>>
        OBVIOUS
      <4>1. i = 1
        BY <3>4
      <4> QED
        BY <3>4, <3>5, <4>1
    <3>7. dispatched' = Message(sending.subtype, Len(d))
      BY <1>6, <3>3, <3>4, <3>6, WholeMessage
    <3>8. /\ dispatched' \in [subtype : Subtypes, data : Seq(Fragments)]
          /\ dispatched'.subtype = sending.subtype /\ dispatched'.data = d
      BY <1>6, <3>3, <3>4
    <3>9. WholeMessages'
      BY <3>7, <3>8 DEF WholeMessages
    <3>10. BlufiShape' /\ ~partial'.allocated
      BY <1>9, <1>10, <1>12, <2>5, <3>1, <3>8 DEF BlufiShape
    <3> QED
      BY <1>14, <1>15, <2>2, <3>9, <3>10 DEF BlufiInv
  <2> QED
    BY <2>3, <2>4, <2>5
<1> QED
  BY <1>8, <1>17, <1>22, <1>23

(* Fragments of a message that was cut off never end up in another.  With   *)
(* the sessions of this program a connection can be used exactly when its   *)
(* key is negotiated; with the profile of ESP-IDF, which the target links,  *)
(* nothing a client negotiates is reported, and no credential is ever       *)
(* staged or applied.  For messages of any number of fragments and any      *)
(* range of sequence numbers, when no frame is damaged; the allocation of   *)
(* the joined message may fail (BlufiFragmentSession::receive,              *)
(* security_negotiated, BlufiCallbackAdapter::negotiate).                   *)
THEOREM BlufiIsProvisioned ==
    ASSUME Faults \subseteq {"allocate"}
    PROVE  BlufiSpec => []BlufiProvisions
<1>1. BlufiInv => BlufiProvisions
  <2>1. BlufiInv /\ wiring = "stack" => NegotiatedIsUsable
    BY DEF BlufiInv, NegotiatedIsUsable, KeyReported
  <2>2. /\ ~Unserved.ssid /\ ~Unserved.password /\ Unserved.ssid = FALSE
        /\ Unserved.password = FALSE
    BY DEF Unserved
  <2>3. BlufiInv /\ wiring = "callbacks" =>
          ~securityReady /\ TRUE \notin {staged.ssid, staged.password, applied.ssid}
    BY <2>2 DEF BlufiInv, NothingGained
  <2> QED
    BY <2>1, <2>3 DEF BlufiInv, BlufiProvisions, UsableAsWired
<1>2. BlufiInv /\ [BlufiNext]_blufiVars => BlufiInv'
  <2> SUFFICES ASSUME BlufiInv, [BlufiNext]_blufiVars PROVE BlufiInv'
    OBVIOUS
  <2>1. CASE /\ UNCHANGED <<wiring, partial, sending, dispatched, clientSequence, incoming,
                            context, blufiClient, notified, securityReady, staged, applied>>
             /\ prepared' \in {prepared, 0}
    BY <2>1 DEF BlufiInv, BlufiShape, FragmentsFollow, KeyReported, NothingGained,
       WholeMessages, Message, FramePrepared
  <2>2. CASE write_control
    BY <2>2, DecodeKeeps DEF write_control
  <2>3. ASSUME NEW execute \in BOOLEAN, finish_prepared(execute) PROVE BlufiInv'
    <3>1. CASE ~execute
      BY <2>1, <2>3, <3>1 DEF finish_prepared
    <3>2. CASE execute
      <4>1. sending.data # << >>
        BY <2>3, <3>2 DEF finish_prepared, BlufiInv, FramePrepared
      <4> QED
        BY <2>3, <3>2, <4>1, DecodeKeeps DEF finish_prepared
    <3> QED
      BY <3>1, <3>2
  <2> QED
    BY <2>1, <2>2, <2>3, ClientKeeps DEF BlufiNext, blufiVars
<1> QED
  BY <1>1, <1>2, BlufiStarts, PTL DEF BlufiSpec

-----------------------------------------------------------------------------
(* The types of provisioning, whatever is damaged and whether or not a key  *)
(* is reported: what was joined fits into what the first fragment           *)
(* announced, and the client sends no more than its message.                *)
MessagesTyped ==
    /\ partial \in [active : BOOLEAN, allocated : BOOLEAN, subtype : Subtypes,
                    size : 0..MaxFragments, data : Seq(Fragments)]
    /\ Len(partial.data) <= partial.size
    /\ sending \in [subtype : Subtypes, data : Seq(Fragments)]
    /\ Len(sending.data) <= MaxFragments
    /\ dispatched.subtype \in Subtypes
    /\ FramePrepared

CountsTyped ==
    /\ wiring \in Wirings /\ advertising \in {"off", "configuring", "on"}
    /\ incoming \in 0..SequenceLimit - 1 /\ clientSequence \in 0..SequenceLimit - 1
    /\ prepared \in 0..2

FlagsTyped ==
    /\ blufiClient \in BOOLEAN /\ notified \in BOOLEAN /\ securityReady \in BOOLEAN
    /\ encryptData \in BOOLEAN /\ reported \in BOOLEAN

GainsTyped ==
    /\ context \in [initialized : BOOLEAN, parameters : BOOLEAN, ready : BOOLEAN]
    /\ staged \in Credentials /\ applied \in Credentials

BlufiTyped == MessagesTyped /\ CountsTyped /\ FlagsTyped /\ GainsTyped

LEMMA NoMessageTyped ==
    /\ NoPartial \in [active : BOOLEAN, allocated : BOOLEAN, subtype : Subtypes,
                      size : 0..MaxFragments, data : Seq(Fragments)]
    /\ NoPartial.data = << >> /\ NoPartial.size = 0
    /\ NoMessage.subtype \in Subtypes /\ Len(NoMessage.data) = 0 /\ MaxFragments \in Nat
    /\ MaxFragments # 0
BY BlufiAssumption DEF NoMessage, NoPartial, Subtypes

(* The first client finds nothing said and nothing staged.                  *)
LEMMA BlufiTypedStarts == BlufiInit => BlufiTyped
<1> SUFFICES ASSUME BlufiInit PROVE BlufiTyped
  OBVIOUS
<1>1. MessagesTyped
  BY NoMessageTyped, NothingSaid DEF BlufiInit, MessagesTyped, FramePrepared
<1>2. CountsTyped
  BY BlufiAssumption DEF BlufiInit, CountsTyped
<1>3. FlagsTyped
  BY Zenon DEF BlufiInit, FlagsTyped
<1>4. GainsTyped
  BY NoKey DEF BlufiInit, GainsTyped, Credentials
<1> QED
  BY <1>1, <1>2, <1>3, <1>4 DEF BlufiTyped

(* A message that is dispatched changes the key, the credentials or the     *)
(* security mode.                                                           *)
LEMMA DispatchTyped ==
    ASSUME GainsTyped, FlagsTyped, NEW m, dispatch(m) \/ Undispatched
    PROVE  /\ GainsTyped'
           /\ notified' \in BOOLEAN /\ securityReady' \in BOOLEAN /\ encryptData' \in BOOLEAN
<1>1. ASSUME NEW s, receive_negotiation(s)
      PROVE  /\ GainsTyped'
             /\ notified' \in BOOLEAN /\ securityReady' \in BOOLEAN /\ encryptData' \in BOOLEAN
  <2>1. PICK success \in BOOLEAN :
          /\ context' = [context EXCEPT
               !.parameters = IF s = "parameter_length" THEN success ELSE @,
               !.ready = @ \/ ((s = "parameter_data" /\ context.parameters) /\ success)]
          /\ notified' = (notified \/ (context'.ready /\ ~notified /\ wiring = "stack"))
          /\ securityReady' =
                (\/ securityReady
                 \/ (context'.ready /\ ~notified /\ wiring = "stack") /\ blufiClient)
          /\ UNCHANGED <<staged, applied, encryptData>>
    BY <1>1 DEF receive_negotiation
  <2>2. GainsTyped'
    BY <2>1 DEF GainsTyped
  <2>3. notified' \in BOOLEAN /\ securityReady' \in BOOLEAN /\ encryptData' \in BOOLEAN
    BY <2>1, Zenon DEF FlagsTyped
  <2> QED
    BY <2>2, <2>3, Zenon
<1>2. ASSUME NEW s \in {"ssid", "password"}, stage_credential(s)
      PROVE  GainsTyped' /\ UNCHANGED <<notified, securityReady, encryptData>>
  <2>1. [staged EXCEPT !["ssid"] = TRUE] \in Credentials
        /\ [staged EXCEPT !["password"] = TRUE] \in Credentials
    BY DEF GainsTyped, Credentials
  <2>2. /\ staged' = IF securityReady THEN [staged EXCEPT ![s] = TRUE] ELSE staged
        /\ UNCHANGED <<context, notified, securityReady, applied, encryptData>>
    BY <1>2, Zenon DEF stage_credential
  <2>3. staged' \in Credentials
    BY <2>1, <2>2 DEF GainsTyped
  <2> QED
    BY <2>2, <2>3 DEF GainsTyped
<1>3. ASSUME connect_station
      PROVE  GainsTyped' /\ UNCHANGED <<notified, securityReady, encryptData>>
  BY <1>3 DEF connect_station, GainsTyped
<1>4. CASE /\ UNCHANGED <<context, notified, securityReady, staged, applied>>
           /\ encryptData' \in BOOLEAN
  <2>1. GainsTyped'
    BY <1>4 DEF GainsTyped
  <2>2. notified' \in BOOLEAN /\ securityReady' \in BOOLEAN
    BY <1>4, Zenon DEF FlagsTyped
  <2> QED
    BY <1>4, <2>1, <2>2, Zenon
<1>5. CASE UNCHANGED <<context, notified, securityReady, staged, applied, encryptData>>
  <2>1. encryptData' \in BOOLEAN /\ UNCHANGED <<context, notified, securityReady, staged, applied>>
    BY <1>5, Zenon DEF FlagsTyped
  <2> QED
    BY <1>4, <2>1
<1>6. ASSUME UNCHANGED <<notified, securityReady, encryptData>>
      PROVE  notified' \in BOOLEAN /\ securityReady' \in BOOLEAN /\ encryptData' \in BOOLEAN
  BY <1>6, Zenon DEF FlagsTyped
<1>7. CASE dispatch(m)
  <2>1. \/ \E s : receive_negotiation(s)
        \/ \E s \in {"ssid", "password"} : stage_credential(s)
        \/ connect_station
        \/ encryptData' \in BOOLEAN /\ UNCHANGED <<context, notified, securityReady, staged, applied>>
        \/ UNCHANGED <<context, notified, securityReady, staged, applied, encryptData>>
    BY <1>7, Zenon DEF dispatch
  <2> QED
    BY <1>1, <1>2, <1>3, <1>4, <1>5, <1>6, <2>1, Zenon
<1>8. CASE Undispatched
  BY <1>5, <1>8 DEF Undispatched
<1> QED
  BY <1>7, <1>8

(* A frame of the client is counted, and joined, dispatched or refused.     *)
LEMMA DecodeTyped ==
    ASSUME BlufiTyped, sending.data # << >>, NEW damage, Decode(damage), prepared' = 0
    PROVE  BlufiTyped'
<1>0. MessagesTyped /\ CountsTyped /\ FlagsTyped /\ GainsTyped
  BY DEF BlufiTyped
<1>1. PICK f : f = [subtype |-> sending.subtype, data |-> <<Head(sending.data)>>,
                    more |-> Len(sending.data) > 1, remaining |-> Len(sending.data)]
  OBVIOUS
<1>2. PICK q : q = sending.data
  OBVIOUS
<1>3. /\ incoming' = IF damage # "format" /\ clientSequence = incoming
                     THEN (incoming + 1) % SequenceLimit ELSE incoming
      /\ clientSequence' = (clientSequence + 1) % SequenceLimit
      /\ UNCHANGED <<wiring, advertising, blufiClient>>
      /\ sending' = [sending EXCEPT !.data = IF reported' THEN << >> ELSE Tail(@)]
      /\ \/ receive_characteristic(f)
         \/ Undispatched /\ reported' = TRUE /\ UNCHANGED partial
  BY <1>1, Zenon DEF Decode, report_error
<1>4. CountsTyped'
  <2>1. /\ (incoming + 1) % SequenceLimit \in 0..SequenceLimit - 1
        /\ (clientSequence + 1) % SequenceLimit \in 0..SequenceLimit - 1
    BY <1>0, BlufiAssumption DEF CountsTyped
  <2> QED
    BY <1>0, <1>3, <2>1 DEF CountsTyped
<1>5. /\ q \in Seq(Fragments) /\ q # << >> /\ sending.subtype \in Subtypes /\ Len(q) <= MaxFragments
      /\ Head(q) \in Fragments /\ Tail(q) \in Seq(Fragments) /\ Len(q) \in 1..MaxFragments
      /\ Len(Tail(q)) <= MaxFragments /\ <<Head(q)>> \in Seq(Fragments) /\ Len(<<Head(q)>>) = 1
  BY <1>0, <1>2, BlufiAssumption DEF MessagesTyped
<1>6. /\ f.subtype = sending.subtype /\ f.data = <<Head(q)>> /\ f.remaining = Len(q)
      /\ f.more <=> Len(q) > 1
  BY <1>1, <1>2
<1>7. /\ sending' \in [subtype : Subtypes, data : Seq(Fragments)]
      /\ Len(sending'.data) <= MaxFragments
  <2>1. PICK rest : rest = IF reported' THEN << >> ELSE Tail(q)
    OBVIOUS
  <2>2. rest \in Seq(Fragments) /\ Len(rest) <= MaxFragments
    <3>1. << >> \in Seq(Fragments) /\ Len(<< >>) <= MaxFragments
      BY BlufiAssumption
    <3>2. rest = << >> \/ rest = Tail(q)
      BY <2>1, Zenon
    <3> QED
      BY <1>5, <3>1, <3>2, Zenon
  <2>3. sending' = [sending EXCEPT !.data = rest]
    BY <1>2, <1>3, <2>1
  <2>4. sending \in [subtype : Subtypes, data : Seq(Fragments)]
    BY <1>0 DEF MessagesTyped
  <2> QED
    BY <2>2, <2>3, <2>4
<1>8. PICK p : p = partial.data
  OBVIOUS
<1>9. /\ partial \in [active : BOOLEAN, allocated : BOOLEAN, subtype : Subtypes,
                      size : 0..MaxFragments, data : Seq(Fragments)]
      /\ p \in Seq(Fragments) /\ Len(p) \in Nat /\ Len(p) <= partial.size
      /\ dispatched.subtype \in Subtypes
  BY <1>0, <1>8 DEF MessagesTyped
<1> DEFINE Kept == /\ partial' \in [active : BOOLEAN, allocated : BOOLEAN, subtype : Subtypes,
                                    size : 0..MaxFragments, data : Seq(Fragments)]
                   /\ Len(partial'.data) <= partial'.size
                   /\ dispatched'.subtype \in Subtypes
           Told == /\ reported' \in BOOLEAN
                   /\ Undispatched \/ \E m : dispatch(m)
<1>10. ASSUME Undispatched /\ reported' = TRUE /\ UNCHANGED partial PROVE Kept /\ Told
  <2>1. UNCHANGED <<dispatched, partial>>
    BY <1>10 DEF Undispatched
  <2>2. Kept
    BY <1>8, <1>9, <2>1
  <2> QED
    BY <1>10, <2>2, Zenon
<1>11. ASSUME receive_characteristic(f) /\ f.more PROVE Kept /\ Told
  <2>1. JoinFragment(f) /\ Len(q) > 1
    BY <1>6, <1>11, Zenon DEF receive_characteristic
  <2>2. Undispatched /\ UNCHANGED dispatched
    BY <2>1, Zenon DEF JoinFragment, Undispatched
  <2>3. reported' \in BOOLEAN
    BY <2>1, Zenon DEF JoinFragment, report_error, no_error
  <2>4. \/ UNCHANGED partial
        \/ partial' = [active |-> TRUE, allocated |-> TRUE, subtype |-> f.subtype,
                       size |-> f.remaining, data |-> f.data]
        \/ partial' = [NoPartial EXCEPT !.active = TRUE, !.subtype = f.subtype]
        \/ /\ partial' = [partial EXCEPT !.data = @ \o f.data]
           /\ Len(f.data) <= partial.size - Len(partial.data)
    BY <2>1, Zenon DEF JoinFragment
  <2>5. CASE UNCHANGED partial
    BY <1>8, <1>9, <2>2, <2>3, <2>5
  <2>6. CASE partial' = [active |-> TRUE, allocated |-> TRUE, subtype |-> f.subtype,
                         size |-> f.remaining, data |-> f.data]
    <3>1. partial' = [active |-> TRUE, allocated |-> TRUE, subtype |-> sending.subtype,
                      size |-> Len(q), data |-> <<Head(q)>>]
      BY <1>6, <2>6
    <3>2. Len(q) \in 0..MaxFragments /\ 1 <= Len(q)
      BY <1>5
    <3>3. Kept
      BY <1>5, <1>9, <2>2, <3>1, <3>2
    <3> QED
      BY <2>2, <2>3, <3>3
  <2>7. CASE partial' = [NoPartial EXCEPT !.active = TRUE, !.subtype = f.subtype]
    <3>1. /\ partial' \in [active : BOOLEAN, allocated : BOOLEAN, subtype : Subtypes,
                           size : 0..MaxFragments, data : Seq(Fragments)]
          /\ partial'.data = << >> /\ partial'.size = 0
      BY <1>5, <1>6, <2>7, NoMessageTyped
    <3>2. Len(partial'.data) <= partial'.size
      BY <3>1
    <3> QED
      BY <1>9, <2>2, <2>3, <3>1, <3>2
  <2>8. CASE /\ partial' = [partial EXCEPT !.data = @ \o f.data]
             /\ Len(f.data) <= partial.size - Len(partial.data)
    <3>1. PICK j : j = p \o <<Head(q)>>
      OBVIOUS
    <3>2. j \in Seq(Fragments) /\ Len(j) = Len(p) + 1
      BY <1>5, <1>9, <3>1, Joined
    <3>3. 1 <= partial.size - Len(p)
      BY <1>5, <1>6, <1>8, <2>8
    <3>4. partial.size \in Nat /\ Len(j) <= partial.size
      BY <1>9, <3>2, <3>3
    <3>5. partial' = [partial EXCEPT !.data = j]
      BY <1>6, <1>8, <2>8, <3>1
    <3>6. /\ partial' \in [active : BOOLEAN, allocated : BOOLEAN, subtype : Subtypes,
                           size : 0..MaxFragments, data : Seq(Fragments)]
          /\ partial'.data = j /\ partial'.size = partial.size
      BY <1>9, <3>2, <3>5
    <3>7. Kept
      BY <1>9, <2>2, <3>4, <3>6
    <3> QED
      BY <2>2, <2>3, <3>7
  <2> QED
    BY <2>4, <2>5, <2>6, <2>7, <2>8
<1>12. ASSUME receive_characteristic(f) /\ ~f.more PROVE Kept /\ Told
  <2>1. \/ UNCHANGED partial /\ Undispatched /\ reported' = TRUE
        \/ \E d : /\ dispatch([subtype |-> partial.subtype, data |-> d])
                  /\ partial' = NoPartial /\ reported' = FALSE
        \/ /\ dispatch([subtype |-> f.subtype, data |-> f.data])
           /\ UNCHANGED partial /\ reported' = FALSE
    BY <1>12, Zenon DEF receive_characteristic, CompleteMessage, report_error, no_error
  <2>2. ASSUME NEW d, dispatch([subtype |-> partial.subtype, data |-> d]),
               partial' = NoPartial, reported' = FALSE
        PROVE  Kept /\ Told
    <3>1. dispatched' = [subtype |-> partial.subtype, data |-> d]
      BY <2>2 DEF dispatch
    <3>2. dispatched'.subtype \in Subtypes
      BY <1>9, <3>1
    <3>3. Kept
      BY <2>2, <3>2, NoMessageTyped
    <3> QED
      BY <2>2, <3>3, Zenon
  <2>3. CASE /\ dispatch([subtype |-> f.subtype, data |-> f.data])
             /\ UNCHANGED partial /\ reported' = FALSE
    <3>1. dispatched' = [subtype |-> f.subtype, data |-> f.data]
      BY <2>3 DEF dispatch
    <3>2. dispatched'.subtype \in Subtypes
      BY <1>5, <1>6, <3>1
    <3>3. Kept
      BY <1>8, <1>9, <2>3, <3>2
    <3> QED
      BY <2>3, <3>3, Zenon
  <2> QED
    BY <1>10, <2>1, <2>2, <2>3
<1>13. Kept /\ Told
  BY <1>3, <1>10, <1>11, <1>12, Zenon
<1>14. MessagesTyped'
  BY <1>7, <1>13 DEF MessagesTyped, FramePrepared
<1>15. /\ GainsTyped'
       /\ notified' \in BOOLEAN /\ securityReady' \in BOOLEAN /\ encryptData' \in BOOLEAN
  BY <1>0, <1>13, DispatchTyped, Zenon
<1>16. FlagsTyped'
  <2>1. blufiClient' \in BOOLEAN
    BY <1>0, <1>3, Zenon DEF FlagsTyped
  <2> QED
    BY <1>13, <1>15, <2>1, Zenon DEF FlagsTyped
<1> QED
  BY <1>4, <1>14, <1>15, <1>16 DEF BlufiTyped

(* The client connects, disconnects, begins a message or prepares a frame.  *)
LEMMA ClientTyped ==
    ASSUME BlufiTyped,
           \/ AdvertisingInstalled \/ ClientConnected \/ ClientDisconnected
           \/ \E subtype \in Subtypes, fragments \in 1..MaxFragments : ClientSays(subtype, fragments)
           \/ prepare_write
           \/ finish_prepared(FALSE)
    PROVE  BlufiTyped'
<1>0. MessagesTyped /\ CountsTyped /\ FlagsTyped /\ GainsTyped
  BY DEF BlufiTyped
<1>1. CASE ClientConnected
  <2>1. /\ context' = [initialized |-> TRUE, parameters |-> FALSE, ready |-> FALSE]
        /\ UNCHANGED <<wiring, staged, applied>>
        /\ partial' = NoPartial /\ sending' = NoMessage /\ dispatched' = NoMessage
        /\ clientSequence' = 0 /\ incoming' = 0 /\ prepared' = 0 /\ advertising' = "off"
    BY <1>1 DEF ClientConnected, SessionReset
  <2>2. FlagsTyped'
    BY <1>1, Zenon DEF ClientConnected, SessionReset, FlagsTyped
  <2>3. GainsTyped'
    BY <1>0, <2>1, NoKey DEF GainsTyped
  <2>4. CountsTyped'
    BY <1>0, <2>1, BlufiAssumption DEF CountsTyped
  <2>5. MessagesTyped'
    BY <2>1, NoMessageTyped, NothingSaid DEF MessagesTyped, FramePrepared
  <2> QED
    BY <2>2, <2>3, <2>4, <2>5 DEF BlufiTyped
<1>2. CASE ClientDisconnected
  <2>1. /\ context' = [initialized |-> FALSE, parameters |-> FALSE, ready |-> FALSE]
        /\ advertising' = "configuring"
        /\ UNCHANGED <<wiring, staged, applied, partial, sending, dispatched, clientSequence,
                       incoming, prepared>>
    BY <1>2 DEF ClientDisconnected
  <2>2. FlagsTyped'
    BY <1>0, <1>2, Zenon DEF ClientDisconnected, FlagsTyped
  <2>3. GainsTyped'
    BY <1>0, <2>1, NoKey DEF GainsTyped
  <2>4. CountsTyped' /\ MessagesTyped'
    BY <1>0, <2>1 DEF CountsTyped, MessagesTyped, FramePrepared
  <2> QED
    BY <2>2, <2>3, <2>4 DEF BlufiTyped
<1>3. ASSUME NEW s \in Subtypes, NEW n \in 1..MaxFragments, ClientSays(s, n)
      PROVE  BlufiTyped'
  <2>1. /\ UNCHANGED <<wiring, advertising, context, incoming, partial, prepared, staged, applied,
                       clientSequence>>
        /\ sending' = Message(s, n) /\ dispatched' = NoMessage /\ prepared = 0
    BY <1>3 DEF ClientSays
  <2>2. FlagsTyped'
    BY <1>0, <1>3, Zenon DEF ClientSays, FlagsTyped
  <2>3. n \in Nat /\ n <= MaxFragments
    BY <1>3, BlufiAssumption
  <2>4. PICK d : d = [i \in 1..n |-> <<s, i, n>>]
    OBVIOUS
  <2>5. d \in Seq(Fragments) /\ Len(d) = n
    BY <2>3, <2>4 DEF Fragments
  <2>6. sending' = [subtype |-> s, data |-> d]
    BY <2>1, <2>4 DEF Message
  <2>7. sending' \in [subtype : Subtypes, data : Seq(Fragments)] /\ Len(sending'.data) <= MaxFragments
    BY <2>3, <2>5, <2>6
  <2>8. MessagesTyped'
    BY <1>0, <2>1, <2>7, NoMessageTyped DEF MessagesTyped, FramePrepared
  <2>9. GainsTyped' /\ CountsTyped'
    BY <1>0, <2>1 DEF GainsTyped, CountsTyped
  <2> QED
    BY <2>2, <2>8, <2>9 DEF BlufiTyped
<1>4. CASE AdvertisingInstalled \/ prepare_write \/ finish_prepared(FALSE)
  <2>1. /\ UNCHANGED <<wiring, context, incoming, partial, staged, applied, sending,
                       clientSequence, dispatched>>
        /\ \/ advertising' \in {"on", "off"} /\ prepared' = prepared
           \/ advertising' = advertising /\ prepared' \in 0..2 /\ FramePrepared'
    BY <1>0, <1>4 DEF AdvertisingInstalled, prepare_write, finish_prepared, CountsTyped, FramePrepared
  <2>2. UNCHANGED <<blufiClient, notified, securityReady, encryptData, reported>>
    BY <1>4, Zenon DEF AdvertisingInstalled, prepare_write, finish_prepared
  <2>3. FlagsTyped'
    BY <1>0, <2>2, Zenon DEF FlagsTyped
  <2>4. MessagesTyped' /\ CountsTyped' /\ GainsTyped'
    BY <1>0, <2>1 DEF MessagesTyped, CountsTyped, GainsTyped, FramePrepared
  <2> QED
    BY <2>3, <2>4 DEF BlufiTyped
<1> QED
  BY <1>1, <1>2, <1>3, <1>4

(* What provisioning keeps has its types, for messages of any number of     *)
(* fragments, any range of sequence numbers, every damage of a frame, and   *)
(* whether or not a negotiated key is reported: no fragment is joined       *)
(* beyond what the first announced (BlufiFragmentSession::receive).         *)
THEOREM BlufiTypes == BlufiSpec => []BlufiTypeOK
<1>1. BlufiTyped => BlufiTypeOK
  <2> SUFFICES ASSUME BlufiTyped PROVE BlufiTypeOK
    OBVIOUS
  <2>1. {blufiClient, notified, securityReady, encryptData, reported} \subseteq BOOLEAN
    BY Zenon DEF BlufiTyped, FlagsTyped
  <2> QED
    BY <2>1 DEF BlufiTyped, MessagesTyped, CountsTyped, GainsTyped, BlufiTypeOK
<1>2. BlufiTyped /\ [BlufiNext]_blufiVars => BlufiTyped'
  <2> SUFFICES ASSUME BlufiTyped, [BlufiNext]_blufiVars PROVE BlufiTyped'
    OBVIOUS
  <2>1. CASE UNCHANGED blufiVars
    <3>1. UNCHANGED <<blufiClient, notified, securityReady, encryptData, reported>>
      BY <2>1, Zenon DEF blufiVars
    <3>2. FlagsTyped'
      BY <3>1, Zenon DEF BlufiTyped, FlagsTyped
    <3>3. MessagesTyped' /\ CountsTyped' /\ GainsTyped'
      BY <2>1 DEF blufiVars, BlufiTyped, MessagesTyped, CountsTyped, GainsTyped, FramePrepared
    <3> QED
      BY <3>2, <3>3 DEF BlufiTyped
  <2>2. CASE write_control
    <3>1. sending.data # << >> /\ prepared' = 0 /\ \E damage : Decode(damage)
      BY <2>2 DEF write_control
    <3> QED
      BY <3>1, DecodeTyped
  <2>3. CASE finish_prepared(TRUE)
    <3>1. sending.data # << >> /\ prepared' = 0 /\ \E damage : Decode(damage)
      BY <2>3 DEF finish_prepared, BlufiTyped, MessagesTyped, FramePrepared
    <3> QED
      BY <3>1, DecodeTyped
  <2>4. \/ AdvertisingInstalled \/ ClientConnected \/ ClientDisconnected
        \/ \E subtype \in Subtypes, fragments \in 1..MaxFragments : ClientSays(subtype, fragments)
        \/ write_control \/ prepare_write
        \/ finish_prepared(FALSE) \/ finish_prepared(TRUE) \/ UNCHANGED blufiVars
    BY DEF BlufiNext
  <2> QED
    BY <2>1, <2>2, <2>3, <2>4, ClientTyped
<1> QED
  BY <1>1, <1>2, BlufiTypedStarts, PTL DEF BlufiSpec

-----------------------------------------------------------------------------
(* The four together keep the promise of connectivity, under the            *)
(* assumptions of the four theorems (wifi_manager, discovery, BLUFI).       *)
THEOREM ConnectivityIsServed ==
    ASSUME ~CommandsOverlap, ~LateEvents, ~AcceptsConnected,
           {"request", "password", "power"} \cap StationFaults = {},
           ~BurstsOverlap, ~FieldRaces, Faults \subseteq {"allocate"}
    PROVE  ConnectivitySpec => []ConnectivityServes
<1>1. StationSpec => []StationServes
  BY StationIsServed
<1>2. ApSpec => []AccessPointKeeps
  BY AccessPointIsKept
<1>3. DiscoverySpec => []DiscoverySound
  BY DiscoveryIsSound
<1>4. BlufiSpec => []BlufiProvisions
  BY BlufiIsProvisioned
<1>5. StationServes /\ AccessPointKeeps /\ DiscoverySound /\ BlufiProvisions => ConnectivityServes
  BY DEF ConnectivityServes
<1> QED
  BY <1>1, <1>2, <1>3, <1>4, <1>5, PTL DEF ConnectivitySpec

-----------------------------------------------------------------------------
(* The output scheduler's destinations.                                    *)

Reports == [at : {"idle", "store", "load"}, value : BOOLEAN,
            left : SUBSET {"usb", "tcp"}, usb : BOOLEAN, tcp : BOOLEAN]

(* One report at a time.                                                   *)
OneReport ==
    \A r, s \in Reporters : report[r].at # "idle" /\ report[s].at # "idle" => r = s

(* A flag of the adapter is right, or a report is about to store it.       *)
TcpTrue ==
    \/ tcpActive = (registered > 0)
    \/ report["client"].at = "store"
UsbTrue ==
    \/ usbActive = (usbHost = "active")
    \/ \E r \in Reporters \ {"client"} : report[r].at = "store"
StoresTrue ==
    \A r \in Reporters : report[r].at = "store" =>
        report[r].value = IF r = "client" THEN registered > 0 ELSE usbHost = "active"

(* What a report has loaded is what the flags are.                         *)
LoadsTrue ==
    \A r \in Reporters : report[r].at = "load" =>
        /\ "usb" \in report[r].left \/ report[r].usb = usbActive
        /\ "tcp" \in report[r].left \/ report[r].tcp = tcpActive
KnownTrue == Reporting \/ (usbKnown = usbActive /\ tcpKnown = tcpActive)

DestinationsInv ==
    /\ DestinationsTypeOK /\ OneReport /\ TcpTrue /\ UsbTrue /\ StoresTrue
    /\ LoadsTrue /\ KnownTrue

(* When no report is under way, the scheduler knows.                       *)
LEMMA DestinationsKnown == DestinationsInv => DestinationsAgree
BY DEF DestinationsInv, DestinationsAgree, KnownTrue, TcpTrue, UsbTrue, Reporting, Reporters

(* Nothing is connected at the start.                                      *)
LEMMA DestinationsStart == DestinationsInit => DestinationsInv
<1> SUFFICES ASSUME DestinationsInit PROVE DestinationsInv
  OBVIOUS
<1>1. NoReport \in Reports /\ NoReport.at = "idle"
  BY DEF NoReport, Reports
<1>2. report \in [Reporters -> Reports] /\ \A r \in Reporters : report[r].at = "idle"
  BY <1>1 DEF DestinationsInit
<1>3. DestinationsTypeOK
  <2>1. registered \in 0..MaxClients /\ usbHost \in {"absent", "silent", "active", "failed"}
    BY DestinationsAssumption DEF DestinationsInit
  <2>2. {usbActive, tcpActive, usbKnown, tcpKnown} \subseteq BOOLEAN
    BY Zenon DEF DestinationsInit
  <2> QED
    BY <1>2, <2>1, <2>2 DEF DestinationsTypeOK, Reports
<1>4. OneReport /\ StoresTrue /\ LoadsTrue
  BY <1>2 DEF OneReport, StoresTrue, LoadsTrue
<1>5. TcpTrue /\ UsbTrue /\ KnownTrue
  <2>1. ~(registered > 0) /\ usbHost # "active"
    BY DEF DestinationsInit
  <2> QED
    <3>1. tcpActive = (registered > 0)
      <4>1. (registered > 0) = FALSE
        BY <2>1
      <4>2. tcpActive = FALSE
        BY DEF DestinationsInit
      <4> QED
        BY <4>1, <4>2, Zenon
    <3>2. usbActive = (usbHost = "active")
      BY <2>1, Zenon DEF DestinationsInit
    <3>3. usbKnown = usbActive /\ tcpKnown = tcpActive
      BY DEF DestinationsInit
    <3> QED
      BY <3>1, <3>2, <3>3 DEF TcpTrue, UsbTrue, KnownTrue
<1> QED
  BY <1>3, <1>4, <1>5 DEF DestinationsInv

(* A report that begins is the only one and stores what is true.           *)
LEMMA ReportBegins ==
    ASSUME ~ReportsOverlap, DestinationsInv, NEW r \in Reporters, NEW v \in BOOLEAN,
           Report(r, v),
           registered' \in 0..MaxClients, usbHost' \in {"absent", "silent", "active", "failed"},
           IF r = "client" THEN v = (registered' > 0) /\ UNCHANGED usbHost
                           ELSE v = (usbHost' = "active") /\ UNCHANGED registered
    PROVE  DestinationsInv'
<1>1. /\ \A s \in Reporters : report[s].at = "idle"
      /\ UNCHANGED <<usbActive, tcpActive, usbKnown, tcpKnown>>
  BY DEF Report, Reporting
<1>2. report \in [Reporters -> Reports]
  BY DEF DestinationsInv, DestinationsTypeOK, Reports
<1>3. /\ report'[r] = [NoReport EXCEPT !.at = "store", !.value = v]
      /\ \A s \in Reporters \ {r} : report'[s] = report[s]
      /\ report' \in [Reporters -> {report'[s] : s \in Reporters}]
  BY <1>2 DEF Report
<1>4. report'[r] \in Reports /\ report'[r].at = "store" /\ report'[r].value = v
  BY <1>3 DEF NoReport, Reports
<1>5. /\ report' \in [Reporters -> Reports]
      /\ \A s \in Reporters \ {r} : report'[s].at = "idle"
  BY <1>1, <1>2, <1>3, <1>4
<1>6. DestinationsTypeOK'
  BY <1>1, <1>5 DEF DestinationsInv, DestinationsTypeOK, Reports
<1>7. OneReport' /\ Reporting'
  BY <1>4, <1>5 DEF OneReport, Reporting
<1>8. StoresTrue' /\ LoadsTrue'
  BY <1>4, <1>5 DEF StoresTrue, LoadsTrue
<1>9. TcpTrue'
  BY <1>1, <1>4, <1>5 DEF DestinationsInv, TcpTrue, Reporters
<1>10. UsbTrue'
  BY <1>1, <1>4, <1>5 DEF DestinationsInv, UsbTrue, Reporters
<1> QED
  BY <1>6, <1>7, <1>8, <1>9, <1>10 DEF DestinationsInv, KnownTrue

(* Every step keeps the flags and the scheduler in step with the hosts.    *)
LEMMA DestinationsStep ==
    ASSUME ~ReportsOverlap, DestinationsInv, [DestinationsNext]_destinationVars
    PROVE  DestinationsInv'
<1>0. /\ report \in [Reporters -> Reports] /\ registered \in 0..MaxClients /\ MaxClients \in Nat
      /\ usbHost \in {"absent", "silent", "active", "failed"}
      /\ usbActive \in BOOLEAN /\ tcpActive \in BOOLEAN
      /\ usbKnown \in BOOLEAN /\ tcpKnown \in BOOLEAN
  BY DestinationsAssumption DEF DestinationsInv, DestinationsTypeOK, Reports
<1>1. CASE Join
  <2>1. registered' \in 0..MaxClients /\ registered' > 0
    BY <1>0, <1>1 DEF Join
  <2>2. Report("client", registered' > 0) /\ UNCHANGED usbHost /\ (registered' > 0) \in BOOLEAN
    <3>1. TRUE = (registered' > 0)
      BY <2>1, Zenon
    <3> QED
      BY <1>1, <3>1, Zenon DEF Join
  <2> QED
    BY <1>0, <2>1, <2>2, ReportBegins DEF Reporters
<1>2. CASE Leave
  <2>1. Report("client", registered' > 0) /\ registered' \in 0..MaxClients
        /\ (registered' > 0) \in BOOLEAN /\ UNCHANGED usbHost
    BY <1>0, <1>2 DEF Leave
  <2> QED
    BY <1>0, <2>1, ReportBegins DEF Reporters
<1>3. CASE UsbSpeaks
  BY <1>0, <1>3, ReportBegins DEF UsbSpeaks, Reporters
<1>4. CASE UsbCallback
  BY <1>0, <1>4, ReportBegins DEF UsbCallback, Reporters
<1>5. CASE UsbFails
  BY <1>0, <1>5, ReportBegins DEF UsbFails, Reporters
<1>6. ASSUME NEW r \in Reporters, StoreFlag(r) PROVE DestinationsInv'
  <2>1. report[r] \in Reports /\ report[r].at = "store"
    BY <1>0, <1>6 DEF StoreFlag
  <2>2. /\ report'[r] = [report[r] EXCEPT !.at = "load", !.left = {"usb", "tcp"}]
        /\ \A s \in Reporters \ {r} : report'[s] = report[s]
        /\ report' \in [Reporters -> {report'[s] : s \in Reporters}]
    BY <1>0, <1>6 DEF StoreFlag
  <2>3. report'[r] = [at |-> "load", value |-> report[r].value, left |-> {"usb", "tcp"},
                      usb |-> report[r].usb, tcp |-> report[r].tcp]
    BY <2>1, <2>2 DEF Reports
  <2>4. report'[r] \in Reports /\ report'[r].at = "load" /\ report'[r].left = {"usb", "tcp"}
    BY <2>1, <2>3 DEF Reports
  <2>5. /\ report' \in [Reporters -> Reports]
        /\ \A s \in Reporters \ {r} : report'[s] = report[s] /\ report[s].at = "idle"
    BY <1>0, <2>1, <2>2, <2>4 DEF DestinationsInv, OneReport
  <2>6. UNCHANGED <<registered, usbHost, usbKnown, tcpKnown>>
    BY <1>6 DEF StoreFlag
  <2>7. usbActive' = (usbHost = "active") /\ tcpActive' = (registered > 0)
    <3>1. CASE r = "client"
      <4>1. \A s \in Reporters \ {"client"} : report[s].at # "store"
        BY <2>5, <3>1
      <4> QED
        BY <1>6, <2>1, <3>1, <4>1 DEF StoreFlag, DestinationsInv, StoresTrue, UsbTrue
    <3>2. CASE r # "client"
      <4>1. report["client"].at # "store"
        BY <2>5, <3>2 DEF Reporters
      <4> QED
        BY <1>6, <2>1, <3>2, <4>1 DEF StoreFlag, DestinationsInv, StoresTrue, TcpTrue
    <3> QED
      BY <3>1, <3>2
  <2>8. DestinationsTypeOK'
    BY <1>0, <2>5, <2>6, <2>7 DEF DestinationsTypeOK, Reports
  <2>9. OneReport' /\ Reporting' /\ StoresTrue' /\ LoadsTrue'
    BY <2>4, <2>5 DEF OneReport, Reporting, StoresTrue, LoadsTrue
  <2> QED
    BY <2>6, <2>7, <2>8, <2>9 DEF DestinationsInv, TcpTrue, UsbTrue, KnownTrue
<1>7. ASSUME NEW r \in Reporters, NEW flag \in {"usb", "tcp"}, LoadFlag(r, flag)
      PROVE  DestinationsInv'
  <2>1. report[r] \in Reports /\ report[r].at = "load"
    BY <1>0, <1>7 DEF LoadFlag
  <2>2. /\ report'[r] = [report[r] EXCEPT !.left = @ \ {flag},
                          !.usb = IF flag = "usb" THEN usbActive ELSE @,
                          !.tcp = IF flag = "tcp" THEN tcpActive ELSE @]
        /\ \A s \in Reporters \ {r} : report'[s] = report[s]
        /\ report' \in [Reporters -> {report'[s] : s \in Reporters}]
    BY <1>0, <1>7 DEF LoadFlag
  <2>3. report'[r] = [at |-> "load", value |-> report[r].value, left |-> report[r].left \ {flag},
                      usb |-> IF flag = "usb" THEN usbActive ELSE report[r].usb,
                      tcp |-> IF flag = "tcp" THEN tcpActive ELSE report[r].tcp]
    BY <2>1, <2>2 DEF Reports
  <2>4. report'[r] \in Reports /\ report'[r].at = "load"
    BY <1>0, <2>1, <2>3 DEF Reports
  <2>5. /\ "usb" \in report'[r].left \/ report'[r].usb = usbActive
        /\ "tcp" \in report'[r].left \/ report'[r].tcp = tcpActive
    BY <2>1, <2>3 DEF DestinationsInv, LoadsTrue
  <2>6. /\ report' \in [Reporters -> Reports]
        /\ \A s \in Reporters \ {r} : report'[s] = report[s] /\ report[s].at = "idle"
    BY <1>0, <2>1, <2>2, <2>4 DEF DestinationsInv, OneReport
  <2>7. UNCHANGED <<registered, usbHost, usbActive, tcpActive, usbKnown, tcpKnown>>
    BY <1>7 DEF LoadFlag
  <2>8. DestinationsTypeOK'
    BY <1>0, <2>6, <2>7 DEF DestinationsTypeOK, Reports
  <2>9. OneReport' /\ Reporting' /\ StoresTrue' /\ LoadsTrue'
    BY <2>4, <2>5, <2>6, <2>7 DEF OneReport, Reporting, StoresTrue, LoadsTrue
  <2>10. tcpActive' = (registered' > 0) /\ usbActive' = (usbHost' = "active")
    <3>1. \A s \in Reporters : report[s].at # "store"
      BY <2>1, <2>6
    <3> QED
      BY <2>7, <3>1 DEF DestinationsInv, TcpTrue, UsbTrue, Reporters
  <2> QED
    BY <2>8, <2>9, <2>10 DEF DestinationsInv, TcpTrue, UsbTrue, KnownTrue
<1>8. ASSUME NEW r \in Reporters, SetKnown(r) PROVE DestinationsInv'
  <2>1. report[r] \in Reports /\ report[r].at = "load" /\ report[r].left = {}
    BY <1>0, <1>8 DEF SetKnown
  <2>2. NoReport \in Reports /\ NoReport.at = "idle"
    BY DEF NoReport, Reports
  <2>3. /\ report' \in [Reporters -> Reports]
        /\ \A s \in Reporters : report'[s].at = "idle" /\ report[s].at # "store"
    <3>1. \A s \in Reporters \ {r} : report[s].at = "idle"
      BY <2>1 DEF DestinationsInv, OneReport
    <3>2. report' = [report EXCEPT ![r] = NoReport]
      BY <1>8 DEF SetKnown
    <3> QED
      BY <1>0, <2>1, <2>2, <3>1, <3>2
  <2>4. /\ usbKnown' = usbActive /\ tcpKnown' = tcpActive
        /\ UNCHANGED <<registered, usbHost, usbActive, tcpActive>>
    BY <1>8, <2>1 DEF SetKnown, DestinationsInv, LoadsTrue
  <2>5. DestinationsTypeOK'
    BY <1>0, <2>3, <2>4 DEF DestinationsTypeOK, Reports
  <2>6. OneReport' /\ StoresTrue' /\ LoadsTrue' /\ KnownTrue'
    BY <2>3, <2>4 DEF OneReport, StoresTrue, LoadsTrue, KnownTrue
  <2>7. TcpTrue' /\ UsbTrue'
    BY <2>3, <2>4 DEF DestinationsInv, TcpTrue, UsbTrue, Reporters
  <2> QED
    BY <2>5, <2>6, <2>7 DEF DestinationsInv
<1>9. CASE UNCHANGED destinationVars
  BY <1>9 DEF destinationVars, DestinationsInv, DestinationsTypeOK, OneReport, TcpTrue, UsbTrue,
              StoresTrue, LoadsTrue, KnownTrue, Reporting
<1> QED
  BY <1>1, <1>2, <1>3, <1>4, <1>5, <1>6, <1>7, <1>8, <1>9 DEF DestinationsNext

(* When no report is under way the scheduler knows which transports have a *)
(* host, for any number of clients, provided that reports do not overlap   *)
(* (set_active_destinations; client reports hold the registry's lock, the  *)
(* others none).                                                           *)
THEOREM DestinationsAgreement ==
    ASSUME ~ReportsOverlap
    PROVE  DestinationsSpec => []DestinationsAgree
BY DestinationsStart, DestinationsStep, DestinationsKnown, PTL DEF DestinationsSpec
=============================================================================
