---------------------------- MODULE Connectivity ----------------------------
(***************************************************************************)
(* How the machine is reached: the station, the access point, discovery    *)
(* and provisioning over BLE.  Each has its own task and state; what one   *)
(* asks of another (provisioning of the station, the station of discovery) *)
(* is an input that the other takes at any time.                           *)
(***************************************************************************)
EXTENDS Station, AccessPoint, Discovery, Blufi

ConnectivitySpec == StationSpec /\ ApSpec /\ DiscoverySpec /\ BlufiSpec

(* Connectivity keeps its promises, whatever task acts when: the station    *)
(* connects with a stored pair of name and password (StationServes), the    *)
(* access point keeps what it acknowledged (AccessPointKeeps), the          *)
(* discovery task renews its socket and loses none (DiscoverySound), and    *)
(* provisioning takes only whole messages in order (BlufiProvisions).       *)
ConnectivityServes ==
    StationServes /\ AccessPointKeeps /\ DiscoverySound /\ BlufiProvisions
=============================================================================
