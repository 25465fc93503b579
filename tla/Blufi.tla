------------------------------- MODULE Blufi -------------------------------
(***************************************************************************)
(* Wi-Fi provisioning over BLE.  A client writes frames to a               *)
(* characteristic, at once or prepared in pieces; a frame is checked and   *)
(* counted (wire), joined to the message it is a fragment of, and the      *)
(* message is dispatched: to the negotiation of a key, or to the commands  *)
(* that stage credentials and connect the station.  On the machine the     *)
(* BLUFI profile of ESP-IDF takes the place of the wire, the fragments and *)
(* the dispatch, and calls the same negotiation and the same commands.     *)
(*                                                                         *)
(* The client follows the protocol: it numbers its frames, announces what  *)
(* remains of a message, encrypts only with a key it has negotiated, and   *)
(* gives up a message when an error is reported.                           *)
(***************************************************************************)
EXTENDS Naturals, Sequences, SequencesExt

CONSTANTS
    MaxFragments,   \* fragments of the longest message
    SequenceLimit,  \* sequence numbers are counted modulo this (256)
    Wirings,        \* who takes the frames: "stack", the sessions of this
                    \*   program, or "callbacks", the profile of ESP-IDF
    Faults          \* damages of frames, and allocations that fail

ASSUME BlufiAssumption ==
    /\ MaxFragments \in Nat \ {0} /\ SequenceLimit \in Nat \ {0}
    /\ Wirings \subseteq {"stack", "callbacks"}
    /\ Faults \subseteq {"format", "checksum", "allocate"}

(* The subtypes of the product; "ignored" stands for those without effect.  *)
Subtypes == {"parameter_length", "parameter_data", "ssid", "password", "connect",
             "security_mode", "ignored"}

(* What may become of a frame on its way.                                   *)
Damages == {"none"} \cup (Faults \ {"allocate"})

(* A message is its subtype and the content of its fragments, in order.     *)
Message(subtype, fragments) ==
    [subtype |-> subtype, data |-> [i \in 1..fragments |-> <<subtype, i, fragments>>]]

VARIABLES
    wiring,         \* who takes the frames; chosen when the program is built
    advertising,    \* "off", "configuring" or "on"
    blufiClient,    \* client_connected_
    context,        \* BlufiSecurityContext: initialized_, parameters_, ready_
    notified,       \* security_ready_notified_
    securityReady,  \* BleProvisioning::security_ready_
    incoming,       \* incoming_sequence_
    reported,       \* the last frame was answered by an error report
    encryptData,    \* encrypt_ordinary_data_
    partial,        \* the message being joined: fragmented_input_active_ and so on
    prepared,       \* prepared_ and recorded_length_, in halves of a frame
    staged,         \* the credentials of the station runtime
    applied,        \* the credentials last given to the Wi-Fi driver
    sending,        \* what the client still has to send of its message
    clientSequence, \* the sequence number of its next frame
    dispatched      \* the message dispatched last

blufiVars == <<wiring, advertising, blufiClient, context, notified, securityReady,
               incoming, reported, encryptData, partial, prepared, staged, applied,
               sending, clientSequence, dispatched>>

Credentials == [ssid : BOOLEAN, password : BOOLEAN]
NoMessage == [subtype |-> "ignored", data |-> << >>]
NoPartial == [active |-> FALSE, allocated |-> FALSE, subtype |-> "ignored",
              size |-> 0, data |-> << >>]

BlufiTypeOK ==
    /\ wiring \in Wirings
    /\ advertising \in {"off", "configuring", "on"}
    /\ {blufiClient, notified, securityReady, encryptData, reported} \subseteq BOOLEAN
    /\ context \in [initialized : BOOLEAN, parameters : BOOLEAN, ready : BOOLEAN]
    /\ incoming \in 0..SequenceLimit - 1
    /\ clientSequence \in 0..SequenceLimit - 1
    /\ partial.size \in 0..MaxFragments /\ Len(partial.data) <= partial.size
    /\ prepared \in 0..2 /\ staged \in Credentials /\ applied \in Credentials
    /\ sending.subtype \in Subtypes /\ Len(sending.data) <= MaxFragments
    /\ dispatched.subtype \in Subtypes

BlufiInit ==
    /\ wiring \in Wirings
    /\ advertising = "configuring" /\ blufiClient = FALSE
    /\ context = [initialized |-> TRUE, parameters |-> FALSE, ready |-> FALSE]
    /\ notified = FALSE /\ securityReady = FALSE /\ incoming = 0 /\ reported = FALSE
    /\ encryptData = FALSE /\ partial = NoPartial /\ prepared = 0
    /\ staged = [ssid |-> FALSE, password |-> FALSE]
    /\ applied = [ssid |-> FALSE, password |-> FALSE]
    /\ sending = NoMessage /\ clientSequence = 0 /\ dispatched = NoMessage

-----------------------------------------------------------------------------
(* The advertising data are installed, and advertising starts, or the       *)
(* installation failed: then nothing advertises until the next disconnect.  *)
AdvertisingInstalled ==
    /\ advertising = "configuring" /\ advertising' \in {"on", "off"}
    /\ UNCHANGED <<wiring, blufiClient, context, notified, securityReady, incoming,
                   reported, encryptData, partial, prepared, staged, applied, sending,
                   clientSequence, dispatched>>

(* BlufiConnectionSession::reset and BlufiGattPolicy::reset.                *)
SessionReset ==
    /\ incoming' = 0 /\ reported' = FALSE /\ encryptData' = FALSE
    /\ partial' = NoPartial /\ notified' = FALSE /\ prepared' = 0

ClientConnected ==
    /\ advertising = "on" /\ ~blufiClient
    /\ advertising' = "off" /\ blufiClient' = TRUE /\ securityReady' = FALSE
    /\ context' = [initialized |-> TRUE, parameters |-> FALSE, ready |-> FALSE]
    /\ SessionReset /\ clientSequence' = 0 /\ sending' = NoMessage
    /\ dispatched' = NoMessage
    /\ UNCHANGED <<wiring, staged, applied>>

(* Credentials stay for the next client.                                    *)
ClientDisconnected ==
    /\ blufiClient
    /\ advertising' = "configuring" /\ blufiClient' = FALSE /\ securityReady' = FALSE
    /\ context' = [initialized |-> FALSE, parameters |-> FALSE, ready |-> FALSE]
    /\ UNCHANGED <<wiring, notified, incoming, reported, encryptData, partial,
                   prepared, staged, applied, sending, clientSequence, dispatched>>

(* The client has a message to send.                                        *)
ClientSays(subtype, fragments) ==
    /\ blufiClient /\ sending.data = << >> /\ prepared = 0
    /\ sending' = Message(subtype, fragments) /\ dispatched' = NoMessage
    /\ UNCHANGED <<wiring, advertising, blufiClient, context, notified, securityReady,
                   incoming, reported, encryptData, partial, prepared, staged, applied,
                   clientSequence>>

-----------------------------------------------------------------------------
(* An error report is sent, in clear: the client gives its message up.       *)
report_error == reported' = TRUE
no_error == reported' = FALSE

(* receive_parameter_length and receive_parameter_data.  Allocation,        *)
(* derivation and digest may fail; a key once derived stays until the       *)
(* connection ends.  The callbacks negotiate and report nothing.            *)
receive_negotiation(subtype) ==
    LET derived == subtype = "parameter_data" /\ context.parameters
    IN  \E success \in BOOLEAN :
        /\ context' =
             [context EXCEPT
                !.parameters = IF subtype = "parameter_length" THEN success ELSE @,
                !.ready = @ \/ (derived /\ success)]
        /\ LET tells == context'.ready /\ ~notified /\ wiring = "stack"
           IN  /\ notified' = (notified \/ tells)
               /\ securityReady' = (securityReady \/ (tells /\ blufiClient))
        /\ UNCHANGED <<staged, applied, encryptData>>

(* receive_ssid, receive_password and connect_station do nothing before     *)
(* the key is negotiated.                                                   *)
stage_credential(subtype) ==
    /\ staged' = IF securityReady THEN [staged EXCEPT ![subtype] = TRUE] ELSE staged
    /\ UNCHANGED <<context, notified, securityReady, applied, encryptData>>

connect_station ==
    /\ applied' = IF securityReady /\ staged.ssid THEN staged ELSE applied
    /\ UNCHANGED <<context, notified, securityReady, staged, encryptData>>

(* The security mode is taken by the wire; the rest is answered or ignored. *)
dispatch(message) ==
    /\ dispatched' = message
    /\ CASE message.subtype \in {"parameter_length", "parameter_data"} ->
               receive_negotiation(message.subtype)
         [] message.subtype \in {"ssid", "password"} -> stage_credential(message.subtype)
         [] message.subtype = "connect" -> connect_station
         [] message.subtype = "security_mode" ->
               /\ encryptData' \in BOOLEAN
               /\ UNCHANGED <<context, notified, securityReady, staged, applied>>
         [] OTHER ->
               UNCHANGED <<context, notified, securityReady, staged, applied, encryptData>>

Undispatched ==
    UNCHANGED <<context, notified, securityReady, staged, applied, encryptData, dispatched>>

-----------------------------------------------------------------------------
(* A fragment that is not the last.  remaining is what it announces.        *)
matches_partial(frame) == frame.subtype = partial.subtype

JoinFragment(frame) ==
    /\ Undispatched
    /\ IF partial.allocated /\ partial.data = << >> THEN report_error /\ UNCHANGED partial
       ELSE IF ~partial.allocated
       THEN \/ /\ partial' = [active |-> TRUE, allocated |-> TRUE, subtype |-> frame.subtype,
                              size |-> frame.remaining, data |-> frame.data]
               /\ no_error
            \/ /\ "allocate" \in Faults
               /\ partial' = [NoPartial EXCEPT !.active = TRUE, !.subtype = frame.subtype]
               /\ report_error
       ELSE IF matches_partial(frame)
               /\ Len(frame.data) <= partial.size - Len(partial.data)
       THEN partial' = [partial EXCEPT !.data = @ \o frame.data] /\ no_error
       ELSE report_error /\ UNCHANGED partial

(* The last fragment completes its message only if the size agrees; else    *)
(* what was joined is kept.                                                 *)
CompleteMessage(frame) ==
    IF /\ partial.allocated /\ matches_partial(frame)
       /\ Len(frame.data) = partial.size - Len(partial.data)
    THEN /\ dispatch([subtype |-> partial.subtype, data |-> partial.data \o frame.data])
         /\ partial' = NoPartial /\ no_error
    ELSE Undispatched /\ report_error /\ UNCHANGED partial

receive_characteristic(frame) ==
    IF frame.more THEN JoinFragment(frame)
    ELSE IF partial.active THEN CompleteMessage(frame)
    ELSE /\ dispatch([subtype |-> frame.subtype, data |-> frame.data])
         /\ UNCHANGED partial /\ no_error

(* BlufiWireSession::receive: a number that is not expected and a damaged   *)
(* envelope are reported and not counted; a damaged content is counted.     *)
Decode(damage) ==
    LET frame == [subtype |-> sending.subtype, data |-> <<Head(sending.data)>>,
                  more |-> Len(sending.data) > 1, remaining |-> Len(sending.data)]
        valid == damage # "format" /\ clientSequence = incoming
    IN  /\ incoming' = IF valid THEN (incoming + 1) % SequenceLimit ELSE incoming
        /\ IF valid /\ damage # "checksum" THEN receive_characteristic(frame)
           ELSE Undispatched /\ report_error /\ UNCHANGED partial
        /\ sending' = [sending EXCEPT !.data =
                          IF reported' THEN << >> ELSE Tail(@)]
        /\ clientSequence' = (clientSequence + 1) % SequenceLimit
        /\ UNCHANGED <<wiring, advertising, blufiClient>>

(* A frame written at once.                                                 *)
write_control ==
    /\ blufiClient /\ sending.data # << >> /\ prepared = 0
    /\ \E damage \in Damages : Decode(damage)
    /\ UNCHANGED prepared

(* A frame prepared in two pieces; a piece that is refused discards all.    *)
prepare_write ==
    /\ blufiClient /\ sending.data # << >> /\ prepared < 2
    /\ prepared' \in {prepared + 1, 0}
    /\ UNCHANGED <<wiring, advertising, blufiClient, context, notified, securityReady,
                   incoming, reported, encryptData, partial, staged, applied, sending,
                   clientSequence, dispatched>>

(* The client executes what was accepted whole, and cancels the rest.       *)
finish_prepared(execute) ==
    /\ blufiClient /\ prepared > 0 /\ execute = (prepared = 2)
    /\ prepared' = 0
    /\ IF execute THEN \E damage \in Damages : Decode(damage)
       ELSE UNCHANGED <<wiring, advertising, blufiClient, context, notified,
                        securityReady, incoming, reported, encryptData, partial,
                        staged, applied, sending, clientSequence, dispatched>>

BlufiNext ==
    \/ AdvertisingInstalled \/ ClientConnected \/ ClientDisconnected
    \/ \E subtype \in Subtypes, fragments \in 1..MaxFragments :
          ClientSays(subtype, fragments)
    \/ write_control \/ prepare_write
    \/ \E execute \in BOOLEAN : finish_prepared(execute)

BlufiSpec == BlufiInit /\ [][BlufiNext]_blufiVars

-----------------------------------------------------------------------------
(* What is dispatched is one whole message of the client of this            *)
(* connection: fragments of a message that was cut off by a disconnect, or  *)
(* refused, never end up in another (BlufiFragmentSession::receive).        *)
WholeMessages ==
    dispatched.data # << >> =>
        dispatched = Message(dispatched.subtype, Len(dispatched.data))

(* A connection whose key is negotiated can be used for provisioning, as    *)
(* the comment of security_negotiated says, and no other can.               *)
NegotiatedIsUsable == blufiClient => (securityReady <=> context.ready)

(* What a client can achieve is what the program is wired for: with its own *)
(* sessions, a negotiated connection is usable; with the callbacks, which   *)
(* never call security_negotiated, no connection is, and no credential is   *)
(* staged or given to the driver, whatever is negotiated.                   *)
UsableAsWired ==
    /\ wiring = "stack" => NegotiatedIsUsable
    /\ wiring = "callbacks" =>
          ~securityReady /\ TRUE \notin {staged.ssid, staged.password, applied.ssid}

(* Messages arrive whole, and connections are usable as wired.              *)
BlufiProvisions == WholeMessages /\ UsableAsWired
=============================================================================
