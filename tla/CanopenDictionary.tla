------------------------- MODULE CanopenDictionary -------------------------
(***************************************************************************)
(* The object dictionary of the CANopen node, which SDO downloads and the  *)
(* receive PDOs write.  A receive PDO names the objects its frames write,  *)
(* and among the objects it may name are the entries of its own mapping:   *)
(* a frame may change what the rest of it means.  An SDO download of the   *)
(* heartbeat's period takes effect in the node, the writes of a receive    *)
(* PDO have no effect outside the dictionary.                              *)
(*                                                                         *)
(* One receive PDO is modelled.  Every object that it may name is a word   *)
(* of four bytes, so a frame is a sequence of at most two words.           *)
(***************************************************************************)
EXTENDS Naturals, Sequences

CONSTANTS
    Slots,            \* entries of the mapping
    HeartbeatPeriods  \* what a master writes as the heartbeat's period

ASSUME DictionaryAssumption == Slots \in Nat \ {0} /\ HeartbeatPeriods \subseteq Nat

(* The objects: an entry of the mapping is named by its number.  The other  *)
(* ones that may be written keep a value that nothing of this depends on.   *)
MappingSlots == 1..Slots
ObjectNames == {"device_type", "error_register", "output", "heartbeat",
                "identifier", "count", "other"}
ObjectKeys == {<<n>> : n \in ObjectNames} \cup {<<"slot", s>> : s \in MappingSlots}

(* A word is a mapping's descriptor, of an object in its width or in        *)
(* another; 0 names nothing, and any other value is a descriptor of an      *)
(* object that does not exist.                                              *)
Zero == <<"zero">>
Mappable == {<<"slot", s>> : s \in MappingSlots} \cup {<<"output">>, <<"error_register">>}
Descriptors == {<<o, exact>> : o \in Mappable, exact \in BOOLEAN}
Words == Descriptors \cup {Zero, <<"unknown">>}
Identifiers == {"disabled", "pdo", "sdo"}

VARIABLES
    slot,         \* rpdo_mapping_
    count,        \* rpdo_mapping_count_
    identifier,   \* the identifier of rpdo_communication_
    output,       \* digital_output_
    dictPeriod,   \* heartbeat_period_
    nodePeriod    \* producer_period_milliseconds_ of the node

dictionaryVars == <<slot, count, identifier, output, dictPeriod, nodePeriod>>

DictionaryTypeOK ==
    /\ slot \in [MappingSlots -> Words] /\ count \in 0..Slots
    /\ identifier \in Identifiers /\ output \in Words
    /\ dictPeriod \in HeartbeatPeriods \cup {0}
    /\ nodePeriod \in HeartbeatPeriods \cup {0}

DictionaryInit ==
    /\ slot = [s \in MappingSlots |-> Zero] /\ count = 0 /\ identifier = "disabled"
    /\ output = Zero /\ dictPeriod = 0 /\ nodePeriod = 0

-----------------------------------------------------------------------------
(* entry and permissions: what may be written, and by what.                 *)
writable(o) == o[1] \notin {"device_type", "error_register"}
rpdo_mappable(o) == o[1] \in {"slot", "output"}

(* valid_mapping, of a receive PDO.                                         *)
valid_mapping(word) ==
    \/ word = Zero
    \/ word \in Descriptors /\ word[2] /\ rpdo_mappable(word[1])

(* The dictionary as a value, and a write to it.                            *)
dictionary == [slot |-> slot, count |-> count, identifier |-> identifier,
               output |-> output, period |-> dictPeriod]

Accepts(o, value, fits) ==
    /\ writable(o) /\ fits
    /\ o[1] = "count" => value <= Slots
    /\ o[1] = "slot" => valid_mapping(value)

Assigned(d, o, value) ==
    CASE o[1] = "slot" -> [d EXCEPT !.slot[o[2]] = value]
      [] o[1] = "count" -> [d EXCEPT !.count = value]
      [] o[1] = "identifier" -> [d EXCEPT !.identifier = value]
      [] o[1] = "output" -> [d EXCEPT !.output = value]
      [] o[1] = "heartbeat" -> [d EXCEPT !.period = value]
      [] o[1] = "other" -> d

Becomes(d) ==
    /\ slot' = d.slot /\ count' = d.count /\ identifier' = d.identifier
    /\ output' = d.output /\ dictPeriod' = d.period

-----------------------------------------------------------------------------
(* receive_from: the entries are read and written one after another, and a  *)
(* refusal leaves what the earlier ones wrote.                              *)
Unread == [d |-> dictionary, ok |-> TRUE, used |-> 0]

receive_entry(before, n, words) ==
    LET entry == before.d.slot[n]
        fails == [before EXCEPT !.ok = FALSE]
    IN  IF n > count \/ ~before.ok THEN before
        ELSE IF entry = Zero \/ before.used + 1 > Len(words) THEN fails
        ELSE IF ~Accepts(entry[1], words[before.used + 1], TRUE) THEN fails
        ELSE [d |-> Assigned(before.d, entry[1], words[before.used + 1]),
              ok |-> TRUE, used |-> before.used + 1]

receive_from(words) ==
    LET step[n \in 0..Slots] ==
            IF n = 0 THEN Unread ELSE receive_entry(step[n - 1], n, words)
    IN  step[Slots]

(* CanopenReceivePdoRouter::receive.                                        *)
Routed(id, words) ==
    IF identifier # id THEN [d |-> dictionary, taken |-> FALSE]
    ELSE LET r == receive_from(words)
         IN  [d |-> r.d, taken |-> r.ok /\ r.used = Len(words)]

ReceiveFrame(words) ==
    /\ Becomes(Routed("pdo", words).d) /\ UNCHANGED nodePeriod

-----------------------------------------------------------------------------
(* An SDO request.  A receive PDO that has its identifier sees it first;    *)
(* its header is a word that names no object.                               *)
OfWords(o) == o[1] \notin {"count", "identifier", "heartbeat"}
sdo_seen(o, value) ==
    Routed("sdo", <<<<"unknown">>, IF OfWords(o) THEN value ELSE <<"unknown">>>>)

Upload ==
    /\ Becomes(sdo_seen(<<"device_type">>, Zero).d) /\ UNCHANGED nodePeriod

(* apply_write_effects follows a write that was accepted.                   *)
Download(o, value, fits) ==
    LET seen == sdo_seen(o, value)
    IN  IF seen.taken \/ ~Accepts(o, value, fits)
        THEN Becomes(seen.d) /\ UNCHANGED nodePeriod
        ELSE /\ Becomes(Assigned(seen.d, o, value))
             /\ nodePeriod' = IF o[1] = "heartbeat" THEN value ELSE nodePeriod

(* NMT reset communication calls communication_reset, which is empty.       *)
WireValues(o) ==
    CASE o[1] = "count" -> 0..Slots + 1
      [] o[1] = "identifier" -> Identifiers
      [] o[1] = "heartbeat" -> HeartbeatPeriods
      [] OTHER -> Words

DictionaryNext ==
    \/ \E n \in 0..2 : \E words \in [1..n -> Words] : ReceiveFrame(words)
    \/ Upload
    \/ \E o \in ObjectKeys : \E value \in WireValues(o), fits \in BOOLEAN :
          Download(o, value, fits)

DictionarySpec == DictionaryInit /\ [][DictionaryNext]_dictionaryVars

-----------------------------------------------------------------------------
(* Whatever frames rewrite it, an entry of the mapping is empty or names an *)
(* object that a receive PDO may write, in its width (valid_mapping); and   *)
(* the node uses the heartbeat's period that the dictionary shows, because  *)
(* no receive PDO may name it (apply_write_effects).                        *)
DictionarySound ==
    /\ \A s \in MappingSlots :
          slot[s] = Zero \/ slot[s] \in {<<o, TRUE>> : o \in {m \in Mappable : rpdo_mappable(m)}}
    /\ nodePeriod = dictPeriod
=============================================================================
