----------------------------- MODULE Discovery -----------------------------
(***************************************************************************)
(* The discovery service.  Its task announces the machine again and again  *)
(* from a socket that it keeps; the Wi-Fi event task and a host's wlan     *)
(* command change the station's address and ask for another socket; a new  *)
(* address and the commands of hosts send a burst from a temporary socket. *)
(* All of them use the same fields, and nothing locks them.                *)
(*                                                                         *)
(* The station's address and its broadcast address are fields of their     *)
(* own; they belong together when they are of the same address.            *)
(***************************************************************************)
EXTENDS Naturals, FiniteSets

CONSTANTS
    Addresses,      \* what the station may be assigned
    NoAddress,
    Writers,        \* tasks that set the address
    Bursters,       \* hosts that ask for a burst
    MaxSockets,     \* sockets the network stack has
    BurstsOverlap,  \* a burst may begin while another one runs
    FieldRaces      \* the two fields are used while a task sets them

ASSUME DiscoveryAssumption ==
    /\ NoAddress \notin Addresses /\ MaxSockets \in Nat \ {0}
    /\ Writers \cap Bursters = {}
    /\ BurstsOverlap \in BOOLEAN /\ FieldRaces \in BOOLEAN

Sockets == 1..MaxSockets
NoSocket == 0
Callers == Bursters \cup Writers
Fields == Addresses \cup {NoAddress}

VARIABLES
    ipv4,        \* station_ipv4_
    broadcast,   \* station_broadcast_
    recreate,    \* recreate_long_socket_
    longOpen,    \* long_socket_open_
    longSocket,  \* long_socket_
    burstSocket, \* temporary_socket_
    open,        \* the sockets that are open
    announcer,   \* where the discovery task is
    readAddress, \* the address it has read and not yet announced
    setting,     \* where each task that sets the address is: [at, address]
    burst,       \* where each caller of a burst is
    outdated,    \* the address has changed since the kept socket was opened
    announcement \* the fields of the last announcement

discoveryVars == <<ipv4, broadcast, recreate, longOpen, longSocket, burstSocket, open,
                   announcer, readAddress, setting, burst, outdated, announcement>>

Settled == [at |-> "idle", address |-> NoAddress]
DiscoveryTypeOK ==
    /\ {ipv4, broadcast, readAddress} \subseteq Fields
    /\ recreate \in BOOLEAN /\ longOpen \in BOOLEAN /\ outdated \in BOOLEAN
    /\ {longSocket, burstSocket} \subseteq Sockets \cup {NoSocket} /\ open \subseteq Sockets
    /\ announcer \in {"top", "closed", "cleared", "ready", "reading"}
    /\ setting \in [Writers -> [at : {"idle", "ipv4", "broadcast"}, address : Fields]]
    /\ burst \in [Callers -> {"idle", "wanted", "sending", "closing"}]
    /\ announcement \in Fields \X Fields

DiscoveryInit ==
    /\ ipv4 = NoAddress /\ broadcast = NoAddress /\ recreate = FALSE /\ longOpen = FALSE
    /\ longSocket = NoSocket /\ burstSocket = NoSocket /\ open = {}
    /\ announcer = "top" /\ readAddress = NoAddress /\ setting = [w \in Writers |-> Settled]
    /\ burst = [c \in Callers |-> "idle"] /\ outdated = FALSE
    /\ announcement = <<NoAddress, NoAddress>>

-----------------------------------------------------------------------------
(* socket() gives the lowest descriptor that is free.                       *)
Lowest(s) == s \in Sockets \ open /\ \A t \in Sockets \ open : s <= t

(* periodic_cycle: a socket that is to be replaced is closed, and the       *)
(* request is cleared before the next one is opened.                        *)
CloseOld ==
    /\ announcer = "top"
    /\ IF recreate
       THEN /\ open' = IF longOpen THEN open \ {longSocket} ELSE open
            /\ longSocket' = IF longOpen THEN NoSocket ELSE longSocket
            /\ announcer' = "closed"
       ELSE announcer' = "cleared" /\ UNCHANGED <<open, longSocket>>
    /\ UNCHANGED <<ipv4, broadcast, recreate, longOpen, burstSocket, readAddress, setting,
                   burst, outdated, announcement>>

ClearRequest ==
    /\ announcer = "closed" /\ announcer' = "cleared"
    /\ longOpen' = FALSE /\ recreate' = FALSE
    /\ UNCHANGED <<ipv4, broadcast, longSocket, burstSocket, open, readAddress, setting, burst,
                   outdated, announcement>>

OpenLong ==
    /\ announcer = "cleared"
    /\ \/ /\ announcer' = IF longOpen THEN "ready" ELSE "top"
          /\ UNCHANGED <<longOpen, longSocket, open, outdated>>
       \/ /\ ~longOpen
          /\ \E s \in Sockets : Lowest(s) /\ longSocket' = s /\ open' = open \cup {s}
          /\ longOpen' = TRUE /\ outdated' = FALSE /\ announcer' = "ready"
    /\ UNCHANGED <<ipv4, broadcast, recreate, burstSocket, readAddress, setting, burst,
                   announcement>>

(* No task is between the two fields.                                       *)
Whole == \A w \in Writers : setting[w].at # "ipv4"

ReadAddress ==
    /\ announcer = "ready" /\ (FieldRaces \/ Whole)
    /\ announcer' = "reading" /\ readAddress' = ipv4
    /\ UNCHANGED <<ipv4, broadcast, recreate, longOpen, longSocket, burstSocket, open, setting,
                   burst, outdated, announcement>>

(* The station is announced when it has both; the access point always is.   *)
Announce ==
    /\ announcer = "reading" /\ announcer' = "top"
    /\ announcement' = IF readAddress # NoAddress /\ broadcast # NoAddress
                    THEN <<readAddress, broadcast>> ELSE announcement
    /\ readAddress' = NoAddress
    /\ UNCHANGED <<ipv4, broadcast, recreate, longOpen, longSocket, burstSocket, open,
                   setting, burst, outdated>>

-----------------------------------------------------------------------------
(* station_address_assigned and station_disconnected.  A netmask that does  *)
(* not parse leaves the station without a broadcast address.               *)
SetAddress(w, a) ==
    /\ setting[w].at = "idle" /\ burst[w] = "idle"
    /\ FieldRaces \/ (announcer # "reading" /\ Whole)
    /\ setting' = [setting EXCEPT ![w] = [at |-> "ipv4", address |-> a]]
    /\ ipv4' = a /\ outdated' = longOpen
    /\ UNCHANGED <<broadcast, recreate, longOpen, longSocket, burstSocket, open, announcer,
                   readAddress, burst, announcement>>

SetBroadcast(w) ==
    /\ setting[w].at = "ipv4" /\ setting' = [setting EXCEPT ![w].at = "broadcast"]
    /\ broadcast' \in {setting[w].address, NoAddress}
    /\ UNCHANGED <<ipv4, recreate, longOpen, longSocket, burstSocket, open, announcer,
                   readAddress, burst, outdated, announcement>>

RequestSocket(w) ==
    /\ setting[w].at = "broadcast" /\ setting' = [setting EXCEPT ![w] = Settled]
    /\ recreate' = TRUE
    /\ burst' = [burst EXCEPT ![w] = IF setting[w].address = NoAddress THEN "idle" ELSE "wanted"]
    /\ UNCHANGED <<ipv4, broadcast, longOpen, longSocket, burstSocket, open, announcer,
                   readAddress, outdated, announcement>>

-----------------------------------------------------------------------------
(* send_temporary_burst.                                                    *)
AskBurst(c) ==
    /\ burst[c] = "idle" /\ burst' = [burst EXCEPT ![c] = "wanted"]
    /\ UNCHANGED <<ipv4, broadcast, recreate, longOpen, longSocket, burstSocket, open,
                   announcer, readAddress, setting, outdated, announcement>>

BeginBurst(c) ==
    /\ burst[c] = "wanted"
    /\ BurstsOverlap \/ \A d \in Callers : burst[d] \in {"idle", "wanted"}
    /\ \/ /\ burst' = [burst EXCEPT ![c] = "idle"] /\ UNCHANGED <<burstSocket, open>>
       \/ /\ ipv4 # NoAddress /\ broadcast # NoAddress
          /\ burst' = [burst EXCEPT ![c] = "sending"]
          /\ \E s \in Sockets : Lowest(s) /\ burstSocket' = s /\ open' = open \cup {s}
    /\ UNCHANGED <<ipv4, broadcast, recreate, longOpen, longSocket, announcer, readAddress,
                   setting, outdated, announcement>>

SendCopies(c) ==
    /\ burst[c] = "sending" /\ burst' = [burst EXCEPT ![c] = "closing"]
    /\ UNCHANGED <<ipv4, broadcast, recreate, longOpen, longSocket, burstSocket, open,
                   announcer, readAddress, setting, outdated, announcement>>

CloseBurst(c) ==
    /\ burst[c] = "closing" /\ burst' = [burst EXCEPT ![c] = "idle"]
    /\ open' = open \ {burstSocket} /\ burstSocket' = NoSocket
    /\ UNCHANGED <<ipv4, broadcast, recreate, longOpen, longSocket, announcer, readAddress,
                   setting, outdated, announcement>>

DiscoveryNext ==
    \/ CloseOld \/ ClearRequest \/ OpenLong \/ ReadAddress \/ Announce
    \/ \E w \in Writers : \/ \E a \in Fields : SetAddress(w, a)
                          \/ SetBroadcast(w) \/ RequestSocket(w)
    \/ \E c \in Bursters : AskBurst(c)
    \/ \E c \in Callers : BeginBurst(c) \/ SendCopies(c) \/ CloseBurst(c)

DiscoverySpec == DiscoveryInit /\ [][DiscoveryNext]_discoveryVars

-----------------------------------------------------------------------------
(* The task does not go on with a socket from before the address changed:   *)
(* unless the one that set it is still about to ask, another socket is      *)
(* asked for or about to be opened (recreate_long_socket_).                 *)
SocketIsRenewed ==
    outdated => \/ recreate \/ ~longOpen \/ announcer = "closed"
                \/ \E w \in Writers : setting[w].at # "idle"

(* Every open socket is the one kept or the one of the running burst, so    *)
(* none is lost (close_long_lived_socket, close_temporary_socket); and what *)
(* is announced is one address.                                             *)
DiscoverySound ==
    /\ SocketIsRenewed
    /\ open \subseteq {longSocket, burstSocket}
    /\ announcement[1] = announcement[2]
=============================================================================
