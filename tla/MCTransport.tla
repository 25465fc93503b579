----------------------------- MODULE MCTransport -----------------------------
(***************************************************************************)
(* The tasks between the hosts and the controller, one component at a      *)
(* time: a behaviour is that of one of them, and the others keep their     *)
(* initial states, in which their fairness asks for nothing.               *)
(***************************************************************************)
EXTENDS TcpClientWorkers, HostOutput, UsbTransmit, UsbRecovery, ControllerLink

VARIABLE part

transportVars == <<part, clientVars, outputVars, transmitVars, recoveryVars, linkVars>>

MCInit ==
    /\ part \in {"client", "output", "transmit", "recovery", "link"}
    /\ ClientInit /\ OutputInit /\ TransmitInit /\ RecoveryInit /\ LinkInit

Only(p) ==
    /\ part = p /\ UNCHANGED part
    /\ p # "client" => UNCHANGED clientVars
    /\ p # "output" => UNCHANGED outputVars
    /\ p # "transmit" => UNCHANGED transmitVars
    /\ p # "recovery" => UNCHANGED recoveryVars
    /\ p # "link" => UNCHANGED linkVars

MCNext ==
    \/ Only("client") /\ ClientNext
    \/ Only("output") /\ OutputNext
    \/ Only("transmit") /\ TransmitNext
    \/ Only("recovery") /\ RecoveryNext
    \/ Only("link") /\ LinkNext

MCSpec ==
    /\ MCInit /\ [][MCNext]_transportVars
    /\ ClientFairness /\ OutputFairness /\ TransmitFairness /\ RecoveryFairness /\ LinkFairness

(* The variables of the five tasks keep their types and the queues their    *)
(* bounds.                                                                  *)
TransportTypesOK ==
    ClientTypeOK /\ OutputTypeOK /\ TransmitTypeOK /\ RecoveryTypeOK /\ LinkTypeOK
=============================================================================
