------------------------------ MODULE Canopen ------------------------------
(***************************************************************************)
(* The CANopen service of the machine: the node with its heartbeat, its    *)
(* transmit PDOs, its object dictionary and receive PDO, and the SDO       *)
(* client.  They share no state that their properties depend on.           *)
(***************************************************************************)
EXTENDS CanopenNode, CanopenPdo, CanopenDictionary, SdoExercise

CanopenSpec == CanSpec /\ PdoSpec /\ DictionarySpec /\ SdoSpec

(* The CANopen node reports on time (NodeReports, TpdoPaced), keeps its     *)
(* dictionary sound against remote writes (DictionarySound), and its SDO    *)
(* client takes only the answer to its own request (SdoServes).             *)
CanServes == NodeReports /\ TpdoPaced /\ DictionarySound /\ SdoServes
=============================================================================
