---------------------------- MODULE MachineProofs ----------------------------
(***************************************************************************)
(* Proofs about what the machine remembers: its serial number, its first   *)
(* start and its hour meters (MachineRecords), and the documents of its    *)
(* configuration (ConfigurationStore).  At the end, what these and the     *)
(* theorems of the other modules say of all the services (MCServices).     *)
(***************************************************************************)
EXTENDS MCServices, ConnectivityProofs, PeripheralProofs, FrameProofs,
        FiniteSetTheorems, TLAPS

-----------------------------------------------------------------------------
(* The serial number and the first-boot mark.                              *)

IdentityCommands == [at : {"idle", "check", "write", "get", "erase"}, value : Serials \cup {NoValue}]
Busy == {a \in Askers : doing[a] # Quiet}
Nvs == [NvsKeys -> Serials \cup Clocks \cup {NoValue}]

IdentityTypes ==
    /\ visible \in Nvs /\ kept \in Nvs
    /\ visible["serial"] \in Serials \cup {NoValue} /\ kept["serial"] \in Serials \cup {NoValue}
    /\ visible["first"] \in Clocks \cup {NoValue} /\ kept["first"] \in Clocks \cup {NoValue}
    /\ doing \in [Askers -> IdentityCommands] /\ slots \in Nat
    /\ clock \in Clocks /\ recording \in Recordings /\ recording.value \in Clocks
    /\ granted \in Serials \cup {NoValue} /\ recorded \in Clocks \cup {NoValue}

(* One task at a time sets the serial number, and one that is granted has  *)
(* ended all setting and is in flash.                                      *)
Setting(a) == doing[a].at \in {"check", "write"}
SetOnce ==
    /\ \A a, b \in Askers : Setting(a) /\ Setting(b) => a = b
    /\ \A a \in Askers : Setting(a) => doing[a].value \in Serials
    /\ granted # NoValue =>
          /\ visible["serial"] = granted /\ kept["serial"] = granted
          /\ \A a \in Askers : doing[a].at # "write"

(* A mark is written only when none is recorded, and one that is recorded  *)
(* is in flash.                                                            *)
MarkOnce ==
    /\ recording.at = "write" => recorded = NoValue
    /\ recorded # NoValue => visible["first"] = recorded /\ kept["first"] = recorded

(* A command that is busy holds one slot.                                  *)
SlotsCounted ==
    /\ IsFiniteSet(Busy) /\ slots + Cardinality(Busy) = OperationSlots
    /\ \A a \in Askers : doing[a].at = "idle" => doing[a] = Quiet

IdentityInv == IdentityTypes /\ SetOnce /\ MarkOnce /\ SlotsCounted

(* The invariant says what is kept.                                        *)
LEMMA IdentityFacts == IdentityInv => IdentityKept
BY DEF IdentityInv, SetOnce, MarkOnce, SlotsCounted, IdentityKept, Busy

(* Both records are empty at first.                                        *)
LEMMA IdentityStart == IdentityInit => IdentityInv
<1> SUFFICES ASSUME IdentityInit PROVE IdentityInv
  OBVIOUS
<1>1. Quiet \in IdentityCommands /\ Quiet.at = "idle"
  BY DEF Quiet, IdentityCommands
<1>2. doing \in [Askers -> IdentityCommands] /\ \A a \in Askers : doing[a] = Quiet
  BY <1>1 DEF IdentityInit
<1>3. Busy = {}
  BY <1>2 DEF Busy
<1>4. IdentityTypes
  <2>1. recording \in Recordings /\ recording.value \in Clocks /\ recording.at = "read"
    BY DEF IdentityInit, Recordings, Clocks
  <2>2. visible \in Nvs /\ kept \in Nvs /\ \A k \in NvsKeys : visible[k] = NoValue
    BY DEF IdentityInit, Nvs
  <2> QED
    BY <1>2, <2>1, <2>2, IdentityAssumption DEF IdentityInit, IdentityTypes, Clocks, NvsKeys
<1>5. SetOnce /\ MarkOnce
  BY <1>1, <1>2 DEF IdentityInit, SetOnce, MarkOnce, Setting
<1>6. SlotsCounted
  BY <1>2, <1>3, FS_EmptySet, IdentityAssumption DEF IdentityInit, SlotsCounted
<1> QED
  BY <1>4, <1>5, <1>6 DEF IdentityInv

(* A command begins and takes a slot.                                      *)
LEMMA SlotTaken ==
    ASSUME IdentityTypes, SlotsCounted, NEW a \in Askers, NEW step \in {"check", "get", "erase"},
           NEW v \in Serials \cup {NoValue}, admit_operation(a, step, v)
    PROVE  /\ IdentityTypes' /\ SlotsCounted' /\ doing[a] = Quiet
           /\ UNCHANGED <<visible, kept, clock, recording, granted, recorded>>
           /\ doing'[a].at = step /\ doing'[a].value = v
           /\ \A b \in Askers \ {a} : doing'[b] = doing[b]
<1>1. /\ doing \in [Askers -> IdentityCommands] /\ slots \in Nat /\ doing[a] = Quiet /\ slots > 0
      /\ slots' = slots - 1
      /\ doing' = [doing EXCEPT ![a] = [at |-> step, value |-> v]]
      /\ UNCHANGED <<visible, kept, clock, recording, granted, recorded>>
  BY DEF IdentityTypes, admit_operation
<1>2. [at |-> step, value |-> v] \in IdentityCommands
  BY DEF IdentityCommands
<1>3. /\ doing' \in [Askers -> IdentityCommands] /\ doing'[a].at = step /\ doing'[a].value = v
      /\ \A b \in Askers \ {a} : doing'[b] = doing[b]
  BY <1>1, <1>2
<1>4. IdentityTypes'
  BY <1>1, <1>3 DEF IdentityTypes
<1>5. SlotsCounted'
  <2>1. a \notin Busy /\ doing'[a] # Quiet
    BY <1>1, <1>3 DEF Busy, Quiet
  <2>2. Busy' = Busy \cup {a}
    BY <1>3, <2>1 DEF Busy
  <2>3. IsFiniteSet(Busy') /\ Cardinality(Busy') = Cardinality(Busy) + 1
    BY <2>1, <2>2, FS_AddElement DEF SlotsCounted
  <2>4. Cardinality(Busy) \in Nat /\ OperationSlots \in Nat
    BY FS_CardinalityType, IdentityAssumption DEF SlotsCounted
  <2> QED
    BY <1>1, <1>3, <2>3, <2>4 DEF SlotsCounted
<1> QED
  BY <1>1, <1>3, <1>4, <1>5

LEMMA CommandBegins ==
    ASSUME IdentityInv, NEW a \in Askers, NEW step \in {"check", "get", "erase"},
           NEW v \in Serials \cup {NoValue}, admit_operation(a, step, v),
           step = "check" => v \in Serials /\ \A b \in Askers : ~Setting(b)
    PROVE  IdentityInv'
<1>1. /\ IdentityTypes' /\ SlotsCounted' /\ doing[a] = Quiet
      /\ UNCHANGED <<visible, kept, clock, recording, granted, recorded>>
      /\ doing'[a].at = step /\ doing'[a].value = v
      /\ \A b \in Askers \ {a} : doing'[b] = doing[b]
  BY SlotTaken DEF IdentityInv
<1>2. SetOnce'
  BY <1>1 DEF IdentityInv, SetOnce, Setting
<1>3. MarkOnce'
  BY <1>1 DEF IdentityInv, MarkOnce
<1> QED
  BY <1>1, <1>2, <1>3 DEF IdentityInv

(* A command ends and gives its slot back.                                 *)
LEMMA CommandEnds ==
    ASSUME IdentityTypes, SlotsCounted, NEW a \in Askers, doing[a].at # "idle", complete_operation(a)
    PROVE  /\ doing' \in [Askers -> IdentityCommands] /\ slots' \in Nat /\ SlotsCounted'
           /\ doing'[a] = Quiet /\ \A b \in Askers \ {a} : doing'[b] = doing[b]
<1>1. /\ doing \in [Askers -> IdentityCommands] /\ slots \in Nat /\ slots' = slots + 1
      /\ doing' = [doing EXCEPT ![a] = Quiet]
  BY DEF IdentityTypes, complete_operation
<1>2. Quiet \in IdentityCommands /\ Quiet.at = "idle"
  BY DEF Quiet, IdentityCommands
<1>3. /\ doing' \in [Askers -> IdentityCommands] /\ doing'[a] = Quiet
      /\ \A b \in Askers \ {a} : doing'[b] = doing[b]
  BY <1>1, <1>2
<1>4. SlotsCounted'
  <2>1. a \in Busy
    BY <1>2 DEF Busy
  <2>2. Busy' = Busy \ {a}
    BY <1>3, <2>1 DEF Busy
  <2>3. IsFiniteSet(Busy') /\ Cardinality(Busy') = Cardinality(Busy) - 1
    BY <2>1, <2>2, FS_RemoveElement DEF SlotsCounted
  <2>4. Cardinality(Busy) \in Nat /\ OperationSlots \in Nat
    BY FS_CardinalityType, IdentityAssumption DEF SlotsCounted
  <2> QED
    BY <1>1, <1>2, <1>3, <2>3, <2>4 DEF SlotsCounted
<1> QED
  BY <1>1, <1>3, <1>4

(* A change touches one key, and flash only as far as it says so.          *)
LEMMA ChangeFacts ==
    ASSUME IdentityTypes, NEW key \in NvsKeys, NEW v \in Serials \cup Clocks \cup {NoValue},
           NEW succeeded \in BOOLEAN, change(key, v, succeeded)
    PROVE  /\ visible' \in Nvs /\ kept' \in Nvs
           /\ visible'[key] \in {visible[key], v} /\ kept'[key] \in {kept[key], v}
           /\ succeeded => visible'[key] = v /\ kept'[key] = v
           /\ \A k \in NvsKeys \ {key} : visible'[k] = visible[k] /\ kept'[k] = kept[k]
BY DEF change, IdentityTypes, Nvs

(* Every step keeps what is recorded, when setters do not overlap and the  *)
(* serial number can be read.                                              *)
LEMMA IdentityStep ==
    ASSUME ~SettersOverlap, "serial" \notin IdentityFaults, IdentityInv,
           [IdentityNext]_identityVars
    PROVE  IdentityInv'
<1>0. /\ IdentityTypes /\ SetOnce /\ MarkOnce /\ SlotsCounted
      /\ NoValue \notin Serials /\ "serial" \in NvsKeys /\ "first" \in NvsKeys
      /\ NvsKeys = {"serial", "first"}
  BY IdentityAssumption DEF IdentityInv, NvsKeys
<1>1. ASSUME NEW a \in Askers, NEW serial \in Serials, handle_set(a, serial)
      PROVE  IdentityInv'
  <2>1. \A b \in Askers : ~Setting(b)
    BY <1>1 DEF handle_set, Setting
  <2>2. admit_operation(a, "check", serial)
    BY <1>1 DEF handle_set
  <2> QED
    BY <2>1, <2>2, CommandBegins
<1>2. ASSUME NEW a \in Askers, handle_get(a) \/ handle_clear_first_boot(a)
      PROVE  IdentityInv'
  <2>1. admit_operation(a, "get", NoValue) \/ admit_operation(a, "erase", NoValue)
    BY <1>2 DEF handle_get, handle_clear_first_boot
  <2> QED
    BY <2>1, CommandBegins
<1>3. ASSUME NEW a \in Askers, CheckExisting(a) PROVE IdentityInv'
  <2>1. doing[a].at = "check" /\ UNCHANGED <<visible, kept, clock, recording, granted, recorded>>
    BY <1>3 DEF CheckExisting
  <2>2. CASE complete_operation(a)
    <3>1. /\ doing' \in [Askers -> IdentityCommands] /\ slots' \in Nat /\ SlotsCounted'
          /\ doing'[a] = Quiet /\ \A b \in Askers \ {a} : doing'[b] = doing[b]
      BY <1>0, <2>1, <2>2, CommandEnds
    <3>2. IdentityTypes' /\ MarkOnce'
      BY <1>0, <2>1, <3>1 DEF IdentityTypes, MarkOnce
    <3>3. Quiet.at = "idle"
      BY DEF Quiet
    <3>4. SetOnce'
      BY <1>0, <2>1, <3>1, <3>3 DEF SetOnce, Setting
    <3> QED
      BY <3>1, <3>2, <3>4 DEF IdentityInv
  <2>3. CASE /\ visible["serial"] = NoValue /\ UNCHANGED slots
             /\ doing' = [doing EXCEPT ![a].at = "write"]
    <3>1. doing \in [Askers -> IdentityCommands] /\ doing[a].value \in Serials
      BY <1>0, <2>1 DEF IdentityTypes, SetOnce, Setting
    <3>2. /\ doing'[a] = [doing[a] EXCEPT !.at = "write"]
          /\ \A b \in Askers \ {a} : doing'[b] = doing[b]
          /\ doing' \in [Askers -> {doing'[b] : b \in Askers}]
      BY <2>3, <3>1
    <3>3. doing'[a] \in IdentityCommands /\ doing'[a].at = "write" /\ doing'[a].value = doing[a].value
      BY <3>1, <3>2 DEF IdentityCommands
    <3>4. doing' \in [Askers -> IdentityCommands]
      BY <3>1, <3>2, <3>3
    <3>5. IdentityTypes' /\ MarkOnce'
      BY <1>0, <2>1, <2>3, <3>4 DEF IdentityTypes, MarkOnce
    <3>6. granted = NoValue
      BY <1>0, <2>3 DEF SetOnce
    <3>7. SetOnce'
      BY <1>0, <2>1, <3>1, <3>2, <3>3, <3>6 DEF SetOnce, Setting
    <3>8. Quiet.at = "idle"
      BY DEF Quiet
    <3>9. Busy' = Busy
      BY <2>1, <3>2, <3>3, <3>8 DEF Busy
    <3>10. SlotsCounted'
      BY <1>0, <2>3, <3>2, <3>3, <3>9 DEF SlotsCounted
    <3> QED
      BY <3>5, <3>7, <3>10 DEF IdentityInv
  <2>4. nvs_read("serial") = {IF visible["serial"] = NoValue THEN "missing" ELSE "found"}
    BY DEF nvs_read
  <2> QED
    BY <1>3, <2>2, <2>3, <2>4 DEF CheckExisting
<1>4. ASSUME NEW a \in Askers, write_serial(a) PROVE IdentityInv'
  <2>1. /\ doing[a].at = "write" /\ complete_operation(a)
        /\ UNCHANGED <<clock, recording, recorded>>
    BY <1>4 DEF write_serial
  <2>2. PICK succeeded \in BOOLEAN :
           /\ change("serial", doing[a].value, succeeded)
           /\ granted' = IF succeeded /\ granted = NoValue THEN doing[a].value ELSE granted
    BY <1>4 DEF write_serial
  <2>3. /\ doing[a].value \in Serials /\ granted = NoValue
        /\ \A b \in Askers \ {a} : ~Setting(b)
    BY <1>0, <2>1 DEF SetOnce, Setting
  <2>4. /\ visible' \in Nvs /\ kept' \in Nvs
        /\ visible'["serial"] \in Serials \cup {NoValue}
        /\ kept'["serial"] \in Serials \cup {NoValue}
        /\ succeeded => visible'["serial"] = doing[a].value /\ kept'["serial"] = doing[a].value
        /\ visible'["first"] = visible["first"] /\ kept'["first"] = kept["first"]
    <3>1. /\ visible' \in Nvs /\ kept' \in Nvs
          /\ visible'["serial"] \in {visible["serial"], doing[a].value}
          /\ kept'["serial"] \in {kept["serial"], doing[a].value}
          /\ succeeded => visible'["serial"] = doing[a].value /\ kept'["serial"] = doing[a].value
          /\ \A k \in NvsKeys \ {"serial"} : visible'[k] = visible[k] /\ kept'[k] = kept[k]
      BY <1>0, <2>2, <2>3, ChangeFacts
    <3> QED
      BY <1>0, <2>3, <3>1 DEF IdentityTypes
  <2>5. /\ doing' \in [Askers -> IdentityCommands] /\ slots' \in Nat /\ SlotsCounted'
        /\ doing'[a] = Quiet /\ \A b \in Askers \ {a} : doing'[b] = doing[b]
    BY <1>0, <2>1, CommandEnds
  <2>6. Quiet.at = "idle"
    BY DEF Quiet
  <2>7. SetOnce'
    BY <1>0, <2>2, <2>3, <2>4, <2>5, <2>6 DEF SetOnce, Setting
  <2>8. IdentityTypes' /\ MarkOnce'
    BY <1>0, <2>1, <2>2, <2>3, <2>4, <2>5 DEF IdentityTypes, MarkOnce
  <2> QED
    BY <2>5, <2>7, <2>8 DEF IdentityInv
<1>5. ASSUME NEW a \in Askers, AnswerGet(a) PROVE IdentityInv'
  <2>1. /\ doing[a].at = "get" /\ complete_operation(a)
        /\ UNCHANGED <<visible, kept, clock, recording, granted, recorded>>
    BY <1>5 DEF AnswerGet
  <2>2. /\ doing' \in [Askers -> IdentityCommands] /\ slots' \in Nat /\ SlotsCounted'
        /\ doing'[a] = Quiet /\ \A b \in Askers \ {a} : doing'[b] = doing[b]
    BY <1>0, <2>1, CommandEnds
  <2>3. Quiet.at = "idle"
    BY DEF Quiet
  <2>4. SetOnce' /\ MarkOnce' /\ IdentityTypes'
    BY <1>0, <2>1, <2>2, <2>3 DEF SetOnce, Setting, MarkOnce, IdentityTypes
  <2> QED
    BY <2>2, <2>4 DEF IdentityInv
<1>6. ASSUME NEW a \in Askers, erase_first_boot(a) PROVE IdentityInv'
  <2>1. /\ doing[a].at = "erase" /\ complete_operation(a)
        /\ UNCHANGED <<clock, recording, granted>>
    BY <1>6 DEF erase_first_boot
  <2>2. /\ doing' \in [Askers -> IdentityCommands] /\ slots' \in Nat /\ SlotsCounted'
        /\ doing'[a] = Quiet /\ \A b \in Askers \ {a} : doing'[b] = doing[b]
    BY <1>0, <2>1, CommandEnds
  <2>3. Quiet.at = "idle"
    BY DEF Quiet
  <2>4. /\ visible' \in Nvs /\ kept' \in Nvs
        /\ visible'["serial"] = visible["serial"] /\ kept'["serial"] = kept["serial"]
        /\ visible'["first"] \in Clocks \cup {NoValue} /\ kept'["first"] \in Clocks \cup {NoValue}
        /\ recorded' \in {NoValue, recorded}
        /\ recorded' # NoValue => /\ visible'["first"] = visible["first"]
                                  /\ kept'["first"] = kept["first"]
    <3>1. CASE UNCHANGED <<visible, kept, recorded>>
      BY <1>0, <3>1 DEF IdentityTypes
    <3>2. ASSUME NEW succeeded \in BOOLEAN, change("first", NoValue, succeeded),
                 recorded' = IF visible'.first = NoValue THEN NoValue ELSE recorded
          PROVE  /\ visible' \in Nvs /\ kept' \in Nvs
                 /\ visible'["serial"] = visible["serial"] /\ kept'["serial"] = kept["serial"]
                 /\ visible'["first"] \in Clocks \cup {NoValue}
                 /\ kept'["first"] \in Clocks \cup {NoValue}
                 /\ recorded' \in {NoValue, recorded}
                 /\ recorded' # NoValue => /\ visible'["first"] = visible["first"]
                                           /\ kept'["first"] = kept["first"]
      <4>1. /\ visible' \in Nvs /\ kept' \in Nvs
            /\ visible'["first"] \in {visible["first"], NoValue}
            /\ kept'["first"] \in {kept["first"], NoValue}
            /\ succeeded => visible'["first"] = NoValue /\ kept'["first"] = NoValue
            /\ \A k \in NvsKeys \ {"first"} : visible'[k] = visible[k] /\ kept'[k] = kept[k]
        BY <1>0, <3>2, ChangeFacts
      <4>2. ~succeeded => kept' = kept
        BY <3>2 DEF change
      <4> QED
        BY <1>0, <3>2, <4>1, <4>2 DEF IdentityTypes
    <3> QED
      BY <1>6, <3>1, <3>2 DEF erase_first_boot
  <2>5. SetOnce' /\ MarkOnce'
    BY <1>0, <2>1, <2>2, <2>3, <2>4 DEF SetOnce, Setting, MarkOnce
  <2>6. IdentityTypes'
    BY <1>0, <2>1, <2>2, <2>4 DEF IdentityTypes
  <2> QED
    BY <2>2, <2>5, <2>6 DEF IdentityInv
<1>7. CASE set_time
  <2>1. /\ UNCHANGED <<visible, kept, doing, slots, granted, recorded>> /\ clock' = "set"
        /\ recording' = [at |-> "read", value |-> "set"]
    BY <1>7 DEF set_time
  <2>2. recording' \in Recordings /\ recording'.value \in Clocks /\ recording'.at = "read"
    BY <2>1 DEF Recordings, Clocks
  <2>3. IdentityTypes' /\ SetOnce' /\ MarkOnce'
    BY <1>0, <2>1, <2>2 DEF IdentityTypes, SetOnce, Setting, MarkOnce, Clocks
  <2>4. SlotsCounted'
    BY <1>0, <2>1 DEF SlotsCounted, Busy
  <2> QED
    BY <2>3, <2>4 DEF IdentityInv
<1>8. CASE record_first_boot
  <2>1. UNCHANGED <<visible, kept, doing, slots, clock, granted, recorded>>
    BY <1>8 DEF record_first_boot
  <2>2. /\ recording' \in Recordings /\ recording'.value = recording.value
        /\ recording'.at = "write" => visible["first"] = NoValue
    <3>1. PICK outcome \in nvs_read("first") :
             recording' = [recording EXCEPT !.at = IF first_boot_missing(outcome)
                                                   THEN "write" ELSE "idle"]
      BY <1>8 DEF record_first_boot
    <3>2. outcome = "missing" => visible["first"] = NoValue
      BY <3>1 DEF nvs_read
    <3> QED
      BY <1>0, <3>1, <3>2 DEF first_boot_missing, IdentityTypes, Recordings
  <2>3. IdentityTypes' /\ SetOnce' /\ MarkOnce'
    BY <1>0, <2>1, <2>2 DEF IdentityTypes, SetOnce, Setting, MarkOnce
  <2>4. SlotsCounted'
    BY <1>0, <2>1 DEF SlotsCounted, Busy
  <2> QED
    BY <2>3, <2>4 DEF IdentityInv
<1>9. CASE write_first_boot
  <2>1. recording.at = "write" /\ recorded = NoValue /\ UNCHANGED <<doing, slots, clock, granted>>
    BY <1>0, <1>9 DEF write_first_boot, MarkOnce
  <2>2. recording' \in Recordings /\ recording'.value = recording.value /\ recording'.at = "idle"
    BY <1>0, <1>9 DEF write_first_boot, IdentityTypes, Recordings
  <2>3. PICK succeeded \in BOOLEAN :
           /\ change("first", recording.value, succeeded)
           /\ recorded' = IF succeeded /\ recorded = NoValue THEN recording.value ELSE recorded
    BY <1>9 DEF write_first_boot
  <2>4. /\ visible' \in Nvs /\ kept' \in Nvs
        /\ visible'["first"] \in {visible["first"], recording.value}
        /\ kept'["first"] \in {kept["first"], recording.value}
        /\ succeeded => visible'["first"] = recording.value /\ kept'["first"] = recording.value
        /\ \A k \in NvsKeys \ {"first"} : visible'[k] = visible[k] /\ kept'[k] = kept[k]
    BY <1>0, <2>3, ChangeFacts DEF IdentityTypes
  <2>5. visible'["serial"] = visible["serial"] /\ kept'["serial"] = kept["serial"]
    BY <1>0, <2>4
  <2>6. IdentityTypes'
    BY <1>0, <2>1, <2>2, <2>3, <2>4, <2>5 DEF IdentityTypes
  <2>7. SetOnce' /\ MarkOnce'
    BY <1>0, <2>1, <2>2, <2>3, <2>4, <2>5 DEF SetOnce, Setting, MarkOnce
  <2>8. SlotsCounted'
    BY <1>0, <2>1 DEF SlotsCounted, Busy
  <2> QED
    BY <2>6, <2>7, <2>8 DEF IdentityInv
<1>10. CASE PowerCycles
  <2>1. PICK survives \in [NvsKeys -> BOOLEAN] :
           visible' = [k \in NvsKeys |-> IF survives[k] THEN visible[k] ELSE kept[k]]
    BY <1>10 DEF PowerCycles
  <2>2. /\ kept' = visible' /\ recorded' = IF visible'.first = NoValue THEN NoValue ELSE recorded
        /\ doing' = [a \in Askers |-> Quiet] /\ slots' = OperationSlots
        /\ clock' = "unset" /\ recording' = [at |-> "read", value |-> "unset"]
        /\ UNCHANGED granted
    BY <1>10 DEF PowerCycles
  <2>3. recording' \in Recordings /\ recording'.value \in Clocks /\ recording'.at = "read"
    BY <2>2 DEF Recordings, Clocks
  <2>4. /\ visible' \in Nvs
        /\ visible'["serial"] \in {visible["serial"], kept["serial"]}
        /\ visible'["first"] \in {visible["first"], kept["first"]}
    BY <1>0, <2>1 DEF IdentityTypes, Nvs
  <2>5. Quiet \in IdentityCommands /\ Quiet.at = "idle"
    BY DEF Quiet, IdentityCommands
  <2>6. doing' \in [Askers -> IdentityCommands] /\ \A a \in Askers : doing'[a] = Quiet
    BY <2>2, <2>5
  <2>7. IdentityTypes'
    BY <1>0, <2>2, <2>3, <2>4, <2>6, IdentityAssumption DEF IdentityTypes, Clocks
  <2>8. SetOnce' /\ MarkOnce'
    BY <1>0, <2>2, <2>3, <2>4, <2>5, <2>6 DEF SetOnce, Setting, MarkOnce
  <2>9. Busy' = {}
    BY <2>6 DEF Busy
  <2>10. SlotsCounted'
    BY <2>2, <2>6, <2>9, FS_EmptySet, IdentityAssumption DEF SlotsCounted
  <2> QED
    BY <2>7, <2>8, <2>10 DEF IdentityInv
<1>11. CASE UNCHANGED identityVars
  BY <1>0, <1>11 DEF identityVars, IdentityInv, IdentityTypes, SetOnce, Setting, MarkOnce,
                     SlotsCounted, Busy
<1> QED
  BY <1>1, <1>2, <1>3, <1>4, <1>5, <1>6, <1>7, <1>8, <1>9, <1>10, <1>11 DEF IdentityNext

(* What the identity keeps has its types, and its slots fit the number of   *)
(* operations admitted, whatever commands overlap and whatever fails        *)
(* (OperationSlots of serial_number.cpp).                                   *)
THEOREM IdentityTypesHold == IdentitySpec => []IdentityTypeOK
<1> DEFINE Inv == IdentityTypes /\ SlotsCounted
<1>1. Inv => IdentityTypeOK
  <2> SUFFICES ASSUME Inv PROVE IdentityTypeOK
    OBVIOUS
  <2>1. slots \in 0..OperationSlots
    BY FS_CardinalityType, IdentityAssumption DEF IdentityTypes, SlotsCounted
  <2> QED
    BY <2>1 DEF IdentityTypes, IdentityTypeOK, IdentityCommands
<1>2. IdentityInit => Inv
  BY IdentityStart DEF IdentityInv
<1>3. Inv /\ [IdentityNext]_identityVars => Inv'
  <2> SUFFICES ASSUME IdentityTypes, SlotsCounted, [IdentityNext]_identityVars
               PROVE  IdentityTypes' /\ SlotsCounted'
    OBVIOUS
  <2>0. /\ NoValue \notin Serials /\ "serial" \in NvsKeys /\ "first" \in NvsKeys
        /\ NvsKeys = {"serial", "first"}
        /\ visible \in Nvs /\ kept \in Nvs
        /\ visible["serial"] \in Serials \cup {NoValue} /\ kept["serial"] \in Serials \cup {NoValue}
        /\ visible["first"] \in Clocks \cup {NoValue} /\ kept["first"] \in Clocks \cup {NoValue}
        /\ doing \in [Askers -> IdentityCommands] /\ slots \in Nat
        /\ clock \in Clocks /\ recording \in Recordings /\ recording.value \in Clocks
        /\ granted \in Serials \cup {NoValue} /\ recorded \in Clocks \cup {NoValue}
    BY IdentityAssumption DEF IdentityTypes, NvsKeys
  <2>1. ASSUME NEW a \in Askers, \/ \E serial \in Serials : handle_set(a, serial)
                                 \/ handle_get(a) \/ handle_clear_first_boot(a)
        PROVE  IdentityTypes' /\ SlotsCounted'
    <3>1. \/ \E serial \in Serials : admit_operation(a, "check", serial)
          \/ admit_operation(a, "get", NoValue) \/ admit_operation(a, "erase", NoValue)
      BY <2>1 DEF handle_set, handle_get, handle_clear_first_boot
    <3> QED
      BY <3>1, SlotTaken
  <2>2. ASSUME NEW a \in Askers, CheckExisting(a), ~complete_operation(a)
        PROVE  IdentityTypes' /\ SlotsCounted'
    <3>1. /\ doing[a].at = "check" /\ doing' = [doing EXCEPT ![a].at = "write"]
          /\ UNCHANGED <<visible, kept, slots, clock, recording, granted, recorded>>
      BY <2>2 DEF CheckExisting
    <3>2. doing[a] \in IdentityCommands
      BY <2>0
    <3>3. /\ doing' \in [Askers -> {doing'[b] : b \in Askers}]
          /\ doing'[a] = [doing[a] EXCEPT !.at = "write"]
          /\ \A b \in Askers \ {a} : doing'[b] = doing[b]
      BY <2>0, <3>1
    <3>4. doing'[a] \in IdentityCommands /\ doing'[a].at = "write" /\ Quiet.at = "idle"
      BY <3>2, <3>3 DEF IdentityCommands, Quiet
    <3>5. doing' \in [Askers -> IdentityCommands]
      BY <2>0, <3>3, <3>4
    <3>6. Busy' = Busy
      BY <3>1, <3>3, <3>4 DEF Busy
    <3> QED
      BY <2>0, <3>1, <3>3, <3>4, <3>5, <3>6 DEF IdentityTypes, SlotsCounted
  <2>3. ASSUME NEW a \in Askers, complete_operation(a), doing[a].at # "idle",
               UNCHANGED <<clock, recording>>,
               visible' \in Nvs, kept' \in Nvs,
               visible'["serial"] \in Serials \cup {NoValue},
               kept'["serial"] \in Serials \cup {NoValue},
               visible'["first"] \in Clocks \cup {NoValue}, kept'["first"] \in Clocks \cup {NoValue},
               granted' \in Serials \cup {NoValue}, recorded' \in Clocks \cup {NoValue}
        PROVE  IdentityTypes' /\ SlotsCounted'
    <3>1. doing' \in [Askers -> IdentityCommands] /\ slots' \in Nat /\ SlotsCounted'
      BY <2>3, CommandEnds
    <3> QED
      BY <2>0, <2>3, <3>1 DEF IdentityTypes
  <2>4. ASSUME NEW a \in Askers, CheckExisting(a) \/ AnswerGet(a), complete_operation(a)
        PROVE  IdentityTypes' /\ SlotsCounted'
    <3>1. /\ doing[a].at # "idle"
          /\ UNCHANGED <<visible, kept, clock, recording, granted, recorded>>
      BY <2>4 DEF CheckExisting, AnswerGet
    <3> QED
      BY <2>0, <2>3, <2>4, <3>1
  <2>5. ASSUME NEW v \in Serials \cup {NoValue}, NEW succeeded \in BOOLEAN,
               change("serial", v, succeeded)
        PROVE  /\ visible' \in Nvs /\ kept' \in Nvs
               /\ visible'["serial"] \in Serials \cup {NoValue}
               /\ kept'["serial"] \in Serials \cup {NoValue}
               /\ visible'["first"] = visible["first"] /\ kept'["first"] = kept["first"]
    <3>1. /\ visible' \in Nvs /\ kept' \in Nvs
          /\ visible'["serial"] \in {visible["serial"], v} /\ kept'["serial"] \in {kept["serial"], v}
          /\ \A k \in NvsKeys \ {"serial"} : visible'[k] = visible[k] /\ kept'[k] = kept[k]
      BY <2>0, <2>5, ChangeFacts
    <3> QED
      BY <2>0, <3>1
  <2>6. ASSUME NEW v \in Clocks \cup {NoValue}, NEW succeeded \in BOOLEAN,
               change("first", v, succeeded)
        PROVE  /\ visible' \in Nvs /\ kept' \in Nvs
               /\ visible'["serial"] = visible["serial"] /\ kept'["serial"] = kept["serial"]
               /\ visible'["first"] \in Clocks \cup {NoValue}
               /\ kept'["first"] \in Clocks \cup {NoValue}
    <3>1. /\ visible' \in Nvs /\ kept' \in Nvs
          /\ visible'["first"] \in {visible["first"], v} /\ kept'["first"] \in {kept["first"], v}
          /\ \A k \in NvsKeys \ {"first"} : visible'[k] = visible[k] /\ kept'[k] = kept[k]
      BY <2>0, <2>6, ChangeFacts
    <3> QED
      BY <2>0, <3>1
  <2>7. ASSUME NEW a \in Askers, write_serial(a) PROVE IdentityTypes' /\ SlotsCounted'
    <3>1. /\ doing[a].at = "write" /\ complete_operation(a)
          /\ UNCHANGED <<clock, recording, recorded>>
      BY <2>7 DEF write_serial
    <3>2. PICK succeeded \in BOOLEAN :
             /\ change("serial", doing[a].value, succeeded)
             /\ granted' = IF succeeded /\ granted = NoValue THEN doing[a].value ELSE granted
      BY <2>7 DEF write_serial
    <3>3. doing[a].value \in Serials \cup {NoValue}
      BY <2>0 DEF IdentityCommands
    <3>4. granted' \in Serials \cup {NoValue}
      BY <2>0, <3>2, <3>3
    <3> QED
      BY <2>0, <2>3, <2>5, <3>1, <3>2, <3>3, <3>4
  <2>8. ASSUME NEW a \in Askers, erase_first_boot(a) PROVE IdentityTypes' /\ SlotsCounted'
    <3>1. /\ doing[a].at = "erase" /\ complete_operation(a)
          /\ UNCHANGED <<clock, recording, granted>>
          /\ recorded' = recorded \/ recorded' = NoValue
          /\ \/ UNCHANGED <<visible, kept>>
             \/ \E succeeded \in BOOLEAN : change("first", NoValue, succeeded)
      BY <2>8 DEF erase_first_boot
    <3>2. recorded' \in Clocks \cup {NoValue}
      BY <2>0, <3>1
    <3>3. CASE UNCHANGED <<visible, kept>>
      BY <2>0, <2>3, <3>1, <3>2, <3>3
    <3>4. ASSUME NEW succeeded \in BOOLEAN, change("first", NoValue, succeeded)
          PROVE  IdentityTypes' /\ SlotsCounted'
      BY <2>0, <2>3, <2>6, <3>1, <3>2, <3>4
    <3> QED
      BY <3>1, <3>3, <3>4
  <2>9. CASE set_time \/ record_first_boot
    <3>1. UNCHANGED <<visible, kept, doing, slots, granted, recorded>> /\ clock' \in {clock, "set"}
      BY <2>9 DEF set_time, record_first_boot
    <3>2. recording' \in Recordings /\ recording'.value \in Clocks
      BY <2>0, <2>9 DEF set_time, record_first_boot, Recordings, Clocks
    <3> QED
      BY <2>0, <3>1, <3>2 DEF IdentityTypes, SlotsCounted, Busy, Clocks
  <2>10. CASE write_first_boot
    <3>1. UNCHANGED <<doing, slots, clock, granted>>
      BY <2>10 DEF write_first_boot
    <3>2. recording' \in Recordings /\ recording'.value = recording.value
      BY <2>0, <2>10 DEF write_first_boot, Recordings
    <3>3. PICK succeeded \in BOOLEAN :
             /\ change("first", recording.value, succeeded)
             /\ recorded' = IF succeeded /\ recorded = NoValue THEN recording.value ELSE recorded
      BY <2>10 DEF write_first_boot
    <3>4. recorded' \in Clocks \cup {NoValue}
      BY <2>0, <3>3
    <3> QED
      BY <2>0, <2>6, <3>1, <3>2, <3>3, <3>4 DEF IdentityTypes, SlotsCounted, Busy
  <2>11. CASE PowerCycles
    <3>1. PICK survives \in [NvsKeys -> BOOLEAN] :
             visible' = [k \in NvsKeys |-> IF survives[k] THEN visible[k] ELSE kept[k]]
      BY <2>11 DEF PowerCycles
    <3>2. /\ kept' = visible' /\ recorded' \in {NoValue, recorded}
          /\ doing' = [a \in Askers |-> Quiet] /\ slots' = OperationSlots
          /\ clock' = "unset" /\ recording' = [at |-> "read", value |-> "unset"]
          /\ UNCHANGED granted
      BY <2>11 DEF PowerCycles
    <3>3. recording' \in Recordings /\ recording'.value \in Clocks /\ clock' \in Clocks
      BY <3>2 DEF Recordings, Clocks
    <3>4. /\ visible' \in Nvs
          /\ visible'["serial"] \in {visible["serial"], kept["serial"]}
          /\ visible'["first"] \in {visible["first"], kept["first"]}
      BY <2>0, <3>1 DEF Nvs
    <3>5. Quiet \in IdentityCommands /\ Quiet.at = "idle"
      BY DEF Quiet, IdentityCommands
    <3>6. doing' \in [Askers -> IdentityCommands] /\ \A a \in Askers : doing'[a] = Quiet
      BY <3>2, <3>5
    <3>7. Busy' = {}
      BY <3>6 DEF Busy
    <3>8. SlotsCounted'
      BY <3>2, <3>6, <3>7, FS_EmptySet, IdentityAssumption DEF SlotsCounted
    <3> QED
      BY <2>0, <3>2, <3>3, <3>4, <3>6, <3>8, IdentityAssumption DEF IdentityTypes
  <2>12. CASE UNCHANGED identityVars
    BY <2>12 DEF identityVars, IdentityTypes, SlotsCounted, Busy
  <2>13. \/ \E a \in Askers : \/ \E serial \in Serials : handle_set(a, serial)
                              \/ handle_get(a) \/ handle_clear_first_boot(a)
         \/ \E a \in Askers : CheckExisting(a) /\ ~complete_operation(a)
         \/ \E a \in Askers : (CheckExisting(a) \/ AnswerGet(a)) /\ complete_operation(a)
         \/ \E a \in Askers : write_serial(a) \/ erase_first_boot(a)
         \/ set_time \/ record_first_boot \/ write_first_boot \/ PowerCycles
         \/ UNCHANGED identityVars
    <3>1. \A a \in Askers : AnswerGet(a) => complete_operation(a)
      BY Zenon DEF AnswerGet
    <3> QED
      BY <3>1, Zenon DEF IdentityNext
  <2> QED
    BY <2>1, <2>2, <2>4, <2>7, <2>8, <2>9, <2>10, <2>11, <2>12, <2>13, Zenon
<1> QED
  BY <1>1, <1>2, <1>3, PTL DEF IdentitySpec

-----------------------------------------------------------------------------
(* The hour meters.                                                        *)

Events == [kind : {"play", "persist"}, running : BOOLEAN, at : Nat]

CountersTypes ==
    /\ tick \in Nat /\ powered \in Nat /\ played \in Nat /\ playing \in BOOLEAN
    /\ counterEvents \in Seq(Events) /\ Len(counterEvents) <= EventCapacity
    /\ taskAt \in {"off", "top", "receive"} /\ nextSave \in Nat
    /\ meter \in Meter /\ flash \in [power : Nat, machine : Nat]

(* What waits in the queue was sent at this tick, and nothing waits for a  *)
(* task that is not started.                                               *)
EventsFresh ==
    /\ \A k \in 1..Len(counterEvents) : counterEvents[k].at = tick
    /\ taskAt = "off" => counterEvents = <<>> /\ ~meter.running

(* The task takes a file for playing only when it plays, but for a change  *)
(* that is still in the queue.                                             *)
LastPlay(k) ==
    /\ counterEvents[k].kind = "play"
    /\ \A j \in 1..Len(counterEvents) : j > k => counterEvents[j].kind # "play"
PlayKnown ==
    /\ meter.running /\ (\A k \in 1..Len(counterEvents) : counterEvents[k].kind # "play")
          => playing
    /\ \A k \in 1..Len(counterEvents) : LastPlay(k) /\ counterEvents[k].running => playing

(* The totals and the time since the marks fit into the time there was.    *)
PlayStarted == IF meter.running THEN meter.started ELSE tick
MeterBounds ==
    taskAt # "off" =>
        /\ meter.baseline <= tick /\ PlayStarted <= tick
        /\ meter.power * Second + (tick - meter.baseline) <= powered
        /\ meter.machine * Second + (tick - PlayStarted) <= played
        /\ meter.power >= flash.power /\ meter.machine >= flash.machine
FlashBounds == flash.power * Second <= powered /\ flash.machine * Second <= played

CountersInv == CountersTypes /\ EventsFresh /\ PlayKnown /\ MeterBounds /\ FlashBounds

(* The invariant says that the meters are honest.                          *)
LEMMA CountersFacts == CountersInv => CountersHonest
BY DEF CountersInv, MeterBounds, FlashBounds, CountersHonest

(* Nothing is counted at the start.                                        *)
LEMMA CountersStart == CountersInit => CountersInv
<1> SUFFICES ASSUME CountersInit PROVE CountersInv
  OBVIOUS
<1>1. BlankMeter \in Meter /\ ~BlankMeter.running
  BY DEF BlankMeter, Meter
<1>2. CountersTypes
  <2>1. playing \in BOOLEAN
    BY Zenon DEF CountersInit
  <2>2. counterEvents \in Seq(Events) /\ Len(counterEvents) <= EventCapacity
    BY CountersAssumption DEF CountersInit
  <2>3. tick \in Nat /\ powered \in Nat /\ played \in Nat /\ nextSave \in Nat
        /\ taskAt \in {"off", "top", "receive"} /\ flash \in [power : Nat, machine : Nat]
    BY DEF CountersInit
  <2> QED
    BY <1>1, <2>1, <2>2, <2>3 DEF CountersInit, CountersTypes
<1>3. FlashBounds
  BY CountersAssumption DEF CountersInit, FlashBounds
<1> QED
  BY <1>1, <1>2, <1>3 DEF CountersInit, CountersInv, EventsFresh, PlayKnown, MeterBounds

(* Whole seconds are no more than the ticks they are made of.              *)
LEMMA Elapsed ==
    ASSUME NEW start \in Nat, NEW end \in Nat, start <= end
    PROVE  /\ whole_elapsed_seconds(start, end) \in Nat
           /\ whole_elapsed_seconds(start, end) * Second <= end - start
<1>1. end - start \in Nat /\ Second \in Nat \ {0} /\ ~(end < start)
  BY CountersAssumption
<1>2. ASSUME NEW n \in Nat PROVE n \div Second \in Nat /\ (n \div Second) * Second <= n
  BY <1>1
<1> QED
  BY <1>1, <1>2 DEF whole_elapsed_seconds

(* Adding whole seconds to a total.                                        *)
LEMMA Added ==
    ASSUME NEW total \in Nat, NEW e \in Nat, NEW d \in Nat, NEW bound \in Nat,
           e * Second <= d, total * Second + d <= bound
    PROVE  total + e \in Nat /\ (total + e) * Second <= bound /\ total + e >= total
<1>1. Second \in Nat
  BY CountersAssumption
<1>2. (total + e) * Second = total * Second + e * Second
  BY <1>1
<1>3. total * Second \in Nat /\ e * Second \in Nat
  BY <1>1
<1> QED
  BY <1>2, <1>3

(* power_counted: the power-on total up to now.                            *)
LEMMA PowerCounted ==
    ASSUME CountersInv, taskAt # "off", NEW m, m = power_counted(meter, tick)
    PROVE  /\ m \in Meter /\ m.baseline = tick /\ m.power \in Nat
           /\ m.machine = meter.machine /\ m.running = meter.running
           /\ m.started = meter.started
           /\ m.power * Second <= powered /\ m.power >= meter.power
<1>1. /\ meter \in Meter /\ meter.power \in Nat /\ meter.baseline \in Nat /\ tick \in Nat
      /\ powered \in Nat
  BY DEF CountersInv, CountersTypes, Meter
<1>2. /\ meter.baseline <= tick /\ tick - meter.baseline \in Nat
      /\ meter.power * Second + (tick - meter.baseline) <= powered
  BY <1>1 DEF CountersInv, MeterBounds
<1> DEFINE e == whole_elapsed_seconds(meter.baseline, tick)
<1>3. e \in Nat /\ e * Second <= tick - meter.baseline
  BY <1>1, <1>2, Elapsed
<1> HIDE DEF e
<1>4. meter.power + e \in Nat /\ (meter.power + e) * Second <= powered
      /\ meter.power + e >= meter.power
  BY <1>1, <1>2, <1>3, Added
<1>5. m = [meter EXCEPT !.power = meter.power + e, !.baseline = tick]
  BY DEF power_counted, e
<1>6. /\ m.power = meter.power + e /\ m.baseline = tick /\ m.machine = meter.machine
      /\ m.running = meter.running /\ m.started = meter.started /\ m \in Meter
  BY <1>1, <1>4, <1>5 DEF Meter
<1> QED
  BY <1>4, <1>6

(* What an event is put into.                                              *)
LEMMA EventQueued ==
    ASSUME ~Floods, CountersInv, NEW event \in Events, event.at = tick, Enqueue(event)
    PROVE  /\ counterEvents' \in Seq(Events) /\ Len(counterEvents') <= EventCapacity
           /\ taskAt = "off" => counterEvents' = counterEvents
           /\ taskAt # "off" =>
                 /\ Len(counterEvents') = Len(counterEvents) + 1
                 /\ counterEvents'[Len(counterEvents) + 1] = event
                 /\ \A k \in 1..Len(counterEvents) : counterEvents'[k] = counterEvents[k]
<1>1. /\ counterEvents \in Seq(Events) /\ Len(counterEvents) < EventCapacity
      /\ EventCapacity \in Nat
      /\ counterEvents' = IF taskAt # "off" THEN Append(counterEvents, event) ELSE counterEvents
  BY CountersAssumption DEF CountersInv, CountersTypes, Enqueue
<1> QED
  BY <1>1

(* A change of play, or a request to save, is queued.                      *)
LEMMA NotifyStep ==
    ASSUME ~Floods, CountersInv,
           (\E r \in BOOLEAN : notify_runtime_play_state(r)) \/ request_runtime_persistence
    PROVE  CountersInv'
<1>0. CountersTypes /\ EventsFresh /\ PlayKnown /\ MeterBounds /\ FlashBounds
  BY DEF CountersInv
<1>1. PICK event \in Events :
        /\ event.at = tick /\ Enqueue(event)
        /\ playing' \in BOOLEAN
        /\ event.kind = "play" => (event.running <=> playing')
        /\ event.kind # "play" => playing' = playing
        /\ UNCHANGED <<tick, powered, played, taskAt, nextSave, meter, flash>>
  <2>1. ASSUME NEW r \in BOOLEAN, notify_runtime_play_state(r)
        PROVE  /\ [kind |-> "play", running |-> r, at |-> tick] \in Events
               /\ playing' = r /\ Enqueue([kind |-> "play", running |-> r, at |-> tick])
               /\ UNCHANGED <<tick, powered, played, taskAt, nextSave, meter, flash>>
    BY <1>0, <2>1 DEF notify_runtime_play_state, Events, CountersTypes
  <2>2. ASSUME request_runtime_persistence
        PROVE  /\ [kind |-> "persist", running |-> FALSE, at |-> tick] \in Events
               /\ UNCHANGED playing /\ playing \in BOOLEAN
               /\ Enqueue([kind |-> "persist", running |-> FALSE, at |-> tick])
               /\ UNCHANGED <<tick, powered, played, taskAt, nextSave, meter, flash>>
    BY <1>0, <2>2 DEF request_runtime_persistence, Events, CountersTypes
  <2> QED
    BY <2>1, <2>2
<1>2. /\ counterEvents' \in Seq(Events) /\ Len(counterEvents') <= EventCapacity
      /\ taskAt = "off" => counterEvents' = counterEvents
      /\ taskAt # "off" =>
            /\ Len(counterEvents') = Len(counterEvents) + 1
            /\ counterEvents'[Len(counterEvents) + 1] = event
            /\ \A k \in 1..Len(counterEvents) : counterEvents'[k] = counterEvents[k]
  BY <1>1, EventQueued
<1>3. CountersTypes' /\ FlashBounds' /\ MeterBounds'
  BY <1>0, <1>1, <1>2 DEF CountersTypes, FlashBounds, MeterBounds, PlayStarted
<1>4. Len(counterEvents) \in Nat
  BY <1>0 DEF CountersTypes
<1>5. CASE taskAt = "off"
  <2>1. counterEvents = <<>> /\ counterEvents' = <<>> /\ ~meter.running
    BY <1>0, <1>2, <1>5 DEF EventsFresh
  <2>2. EventsFresh' /\ PlayKnown'
    BY <1>1, <2>1 DEF EventsFresh, PlayKnown
  <2> QED
    BY <1>3, <2>2 DEF CountersInv
<1>6. CASE taskAt # "off"
  <2> DEFINE len == Len(counterEvents)
  <2>1. \A k \in 1..Len(counterEvents') : k \in 1..len \/ k = len + 1
    BY <1>2, <1>4, <1>6
  <2>2. EventsFresh'
    <3>1. ASSUME NEW k \in 1..Len(counterEvents') PROVE counterEvents'[k].at = tick'
      BY <1>0, <1>1, <1>2, <1>6, <2>1 DEF EventsFresh
    <3> QED
      BY <1>1, <1>6, <3>1 DEF EventsFresh
  <2>3. len + 1 \in 1..Len(counterEvents') /\ \A k \in 1..len : k \in 1..Len(counterEvents')
    BY <1>2, <1>4, <1>6
  <2>4. CASE event.kind = "play"
    <3>1. ASSUME NEW k \in 1..Len(counterEvents'), LastPlay(k)', counterEvents'[k].running
          PROVE  playing'
      <4>1. k = len + 1
        BY <1>2, <1>4, <1>6, <2>1, <2>3, <2>4, <3>1 DEF LastPlay
      <4> QED
        BY <1>1, <1>2, <1>6, <2>4, <3>1, <4>1
    <3> QED
      BY <1>2, <1>3, <1>6, <2>2, <2>3, <2>4, <3>1 DEF CountersInv, PlayKnown
  <2>5. CASE event.kind # "play"
    <3>1. ASSUME NEW k \in 1..Len(counterEvents'), LastPlay(k)', counterEvents'[k].running
          PROVE  playing'
      <4>1. k \in 1..len
        BY <1>2, <1>6, <2>1, <2>5, <3>1 DEF LastPlay
      <4>2. LastPlay(k)
        BY <1>2, <1>6, <2>3, <3>1, <4>1 DEF LastPlay
      <4> QED
        BY <1>0, <1>1, <1>2, <1>6, <2>5, <3>1, <4>1, <4>2 DEF PlayKnown
    <3>2. ASSUME meter'.running,
                 \A k \in 1..Len(counterEvents') : counterEvents'[k].kind # "play"
          PROVE  playing'
      <4>1. \A k \in 1..len : counterEvents[k].kind # "play"
        BY <1>2, <1>6, <2>3, <3>2
      <4> QED
        BY <1>0, <1>1, <2>5, <3>2, <4>1 DEF PlayKnown
    <3> QED
      BY <1>3, <2>2, <3>1, <3>2 DEF CountersInv, PlayKnown
  <2> QED
    BY <2>4, <2>5
<1> QED
  BY <1>5, <1>6

(* The task counts up to now, with a total of playing that fits, and saves *)
(* what it may.                                                            *)
LEMMA MeterStep ==
    ASSUME CountersInv, taskAt # "off", NEW m \in Meter, meter' = m, m.baseline = tick,
           m.power * Second <= powered, m.power >= meter.power, m.machine >= meter.machine,
           m.running => m.started <= tick,
           m.machine * Second + (IF m.running THEN tick - m.started ELSE 0) <= played,
           NEW p \in {flash.power, m.power}, NEW h \in {flash.machine, m.machine},
           flash' = [power |-> p, machine |-> h],
           UNCHANGED <<tick, powered, played>>
    PROVE  /\ MeterBounds' /\ FlashBounds'
           /\ meter' \in Meter /\ flash' \in [power : Nat, machine : Nat]
<1>1. /\ tick \in Nat /\ powered \in Nat /\ played \in Nat /\ Second \in Nat
      /\ flash.power \in Nat /\ flash.machine \in Nat /\ meter.power >= flash.power
      /\ meter.machine >= flash.machine /\ meter.power \in Nat /\ meter.machine \in Nat
      /\ flash.power * Second <= powered /\ flash.machine * Second <= played
  BY CountersAssumption DEF CountersInv, CountersTypes, MeterBounds, FlashBounds, Meter
<1>2. /\ m.power \in Nat /\ m.machine \in Nat /\ m.started \in Nat /\ m.running \in BOOLEAN
  BY DEF Meter
<1>3. m.power * Second \in Nat /\ m.machine * Second \in Nat
  BY <1>1, <1>2
<1>4. m.machine * Second <= played
  BY <1>1, <1>2, <1>3
<1>5. flash'.power = p /\ flash'.machine = h /\ p \in Nat /\ h \in Nat
  BY <1>1, <1>2
<1>6. m.power >= p /\ m.machine >= h
  BY <1>1, <1>2
<1>7. p * Second <= powered /\ h * Second <= played
  BY <1>1, <1>4
<1>8. FlashBounds'
  BY <1>5, <1>7 DEF FlashBounds
<1>9. MeterBounds'
  <2>1. PlayStarted' <= tick' /\ m.machine * Second + (tick' - PlayStarted') <= played'
    <3>1. CASE m.running
      BY <3>1 DEF PlayStarted
    <3>2. CASE ~m.running
      BY <1>1, <1>3, <1>4, <3>2 DEF PlayStarted
    <3> QED
      BY <3>1, <3>2
  <2>2. m.power * Second + (tick' - m.baseline) <= powered'
    BY <1>1, <1>3
  <2> QED
    BY <1>1, <1>5, <1>6, <2>1, <2>2 DEF MeterBounds
<1> QED
  BY <1>5, <1>8, <1>9

(* save_power_on at this tick.                                             *)
LEMMA SaveStep ==
    ASSUME CountersInv, taskAt # "off", save_power_on(tick), UNCHANGED <<tick, powered, played>>
    PROVE  /\ MeterBounds' /\ FlashBounds' /\ meter'.running = meter.running
           /\ meter' \in Meter /\ flash' \in [power : Nat, machine : Nat]
<1>1. PICK m : m = power_counted(meter, tick)
  OBVIOUS
<1>2. /\ m \in Meter /\ m.baseline = tick /\ m.power \in Nat
      /\ m.machine = meter.machine /\ m.running = meter.running
      /\ m.started = meter.started
      /\ m.power * Second <= powered /\ m.power >= meter.power
  BY <1>1, PowerCounted
<1>3. PICK p \in {flash.power, m.power} : flash' = [flash EXCEPT !.power = p]
  BY <1>1 DEF save_power_on, WriteOutcomes
<1>4. flash' = [power |-> p, machine |-> flash.machine]
  BY <1>3 DEF CountersInv, CountersTypes
<1>5. meter' = m
  BY <1>1 DEF save_power_on
<1>6. /\ meter.machine \in Nat
      /\ meter.running => meter.started <= tick
      /\ meter.machine * Second + (IF meter.running THEN tick - meter.started ELSE 0) <= played
  <2>1. /\ tick \in Nat /\ meter.machine \in Nat /\ meter.machine * Second \in Nat
        /\ PlayStarted <= tick /\ meter.machine * Second + (tick - PlayStarted) <= played
    BY SMTT(30), CountersAssumption DEF CountersInv, CountersTypes, MeterBounds, Meter
  <2>2. CASE meter.running
    BY <2>1, <2>2 DEF PlayStarted
  <2>3. CASE ~meter.running
    BY <2>1, <2>3 DEF PlayStarted
  <2> QED
    BY <2>2, <2>3
<1>7. /\ m.running => m.started <= tick
      /\ m.machine * Second + (IF m.running THEN tick - m.started ELSE 0) <= played
      /\ m.machine >= meter.machine
  <2>1. m.machine >= meter.machine
    BY <1>2, <1>6
  <2> QED
    BY <1>2, <1>6, <2>1, Zenon
<1>8. MeterBounds' /\ FlashBounds' /\ meter' \in Meter /\ flash' \in [power : Nat, machine : Nat]
  BY <1>2, <1>4, <1>5, <1>7, MeterStep
<1> QED
  BY <1>2, <1>5, <1>8

(* play_running_changed at this tick.                                      *)
LEMMA PlayChangeStep ==
    ASSUME CountersInv, taskAt # "off", NEW r \in BOOLEAN, play_running_changed(r, tick),
           UNCHANGED <<tick, powered, played>>
    PROVE  /\ MeterBounds' /\ FlashBounds' /\ (meter'.running <=> r)
           /\ meter' \in Meter /\ flash' \in [power : Nat, machine : Nat]
<1>0. /\ tick \in Nat /\ played \in Nat /\ meter \in Meter
      /\ meter.machine \in Nat /\ meter.started \in Nat /\ meter.machine * Second \in Nat
      /\ meter.running \in BOOLEAN
      /\ PlayStarted <= tick /\ meter.machine * Second + (tick - PlayStarted) <= played
  BY SMTT(30), CountersAssumption DEF CountersInv, CountersTypes, MeterBounds, Meter
<1>1. PICK m : m = power_counted(meter, tick)
  OBVIOUS
<1>2. /\ m \in Meter /\ m.baseline = tick /\ m.power \in Nat
      /\ m.machine = meter.machine /\ m.running = meter.running
      /\ m.started = meter.started
      /\ m.power * Second <= powered /\ m.power >= meter.power
  BY <1>1, PowerCounted
<1> DEFINE total == m.machine + whole_elapsed_seconds(m.started, tick)
<1>3. CASE r /\ ~m.running
  <2>1. /\ meter' = [m EXCEPT !.running = TRUE, !.started = tick]
        /\ \E p \in WriteOutcomes(flash.power, m.power) : flash' = [flash EXCEPT !.power = p]
    BY <1>1, <1>3 DEF play_running_changed
  <2>2. PICK p \in {flash.power, m.power} : flash' = [flash EXCEPT !.power = p]
    BY <2>1 DEF WriteOutcomes
  <2>3. flash' = [power |-> p, machine |-> flash.machine]
    BY <2>2 DEF CountersInv, CountersTypes
  <2>4. /\ meter' \in Meter /\ meter'.baseline = tick /\ meter'.power = m.power
        /\ meter'.machine = meter.machine /\ meter'.running /\ meter'.started = tick
    BY <1>0, <1>2, <2>1 DEF Meter
  <2>5. meter.machine * Second + (tick - tick) <= played
    BY <1>0, <1>2, <1>3 DEF PlayStarted
  <2>6. /\ meter'.machine * Second
              + (IF meter'.running THEN tick - meter'.started ELSE 0) <= played
        /\ meter'.power * Second <= powered /\ meter'.power >= meter.power
    BY <1>2, <2>4, <2>5, Zenon
  <2>7. meter'.machine >= meter.machine /\ meter'.started <= tick
    BY <1>0, <2>4
  <2>8. MeterBounds' /\ FlashBounds' /\ flash' \in [power : Nat, machine : Nat]
    BY <2>3, <2>4, <2>6, <2>7, MeterStep
  <2> QED
    BY <1>3, <2>4, <2>8
<1>4. CASE ~r /\ m.running
  <2>1. /\ meter' = [m EXCEPT !.running = FALSE, !.machine = total]
        /\ \E p \in WriteOutcomes(flash.power, m.power),
              h \in WriteOutcomes(flash.machine, total) : flash' = [power |-> p, machine |-> h]
    BY <1>1, <1>4 DEF play_running_changed
  <2>2. PICK p \in {flash.power, m.power}, h \in {flash.machine, total} :
           flash' = [power |-> p, machine |-> h]
    BY <2>1 DEF WriteOutcomes
  <2>3. /\ meter.started <= tick /\ tick - meter.started \in Nat
        /\ meter.machine * Second + (tick - meter.started) <= played
    BY <1>0, <1>2, <1>4 DEF PlayStarted
  <2>4. /\ whole_elapsed_seconds(meter.started, tick) \in Nat
        /\ whole_elapsed_seconds(meter.started, tick) * Second <= tick - meter.started
    BY <1>0, <2>3, Elapsed
  <2>5. total \in Nat /\ total * Second <= played /\ total >= meter.machine
    BY <1>0, <1>2, <2>3, <2>4, Added
  <2> HIDE DEF total
  <2>6. /\ meter' \in Meter /\ meter'.baseline = tick /\ meter'.power = m.power
        /\ meter'.machine = total /\ ~meter'.running
    BY <1>2, <2>1, <2>5 DEF Meter
  <2>7. total * Second + 0 <= played
    BY <1>0, <2>5, CountersAssumption
  <2>8. MeterBounds' /\ FlashBounds' /\ flash' \in [power : Nat, machine : Nat]
    BY <1>2, <2>2, <2>5, <2>6, <2>7, MeterStep
  <2> QED
    BY <1>4, <2>6, <2>8
<1>5. CASE ~(r /\ ~m.running) /\ ~(~r /\ m.running)
  <2>1. save_power_on(tick)
    BY <1>1, <1>5 DEF play_running_changed
  <2> QED
    BY <1>0, <1>2, <1>5, <2>1, SaveStep
<1> QED
  BY <1>3, <1>4, <1>5

(* An event is taken from the queue.                                       *)
LEMMA ReceiveStep == ASSUME CountersInv, ReceiveEvent PROVE CountersInv'
<1> DEFINE event == Head(counterEvents)
           len == Len(counterEvents)
<1>0. CountersTypes /\ EventsFresh /\ PlayKnown
  BY DEF CountersInv
<1>1. /\ taskAt = "receive" /\ counterEvents # <<>> /\ taskAt' = "top"
      /\ counterEvents' = Tail(counterEvents)
      /\ UNCHANGED <<tick, powered, played, playing, nextSave>>
  BY DEF ReceiveEvent
<1>2. /\ len \in Nat /\ len >= 1 /\ event = counterEvents[1] /\ event \in Events
      /\ counterEvents' \in Seq(Events) /\ Len(counterEvents') = len - 1
      /\ \A k \in 1..Len(counterEvents') : /\ counterEvents'[k] = counterEvents[k + 1]
                                           /\ k + 1 \in 1..len
  BY <1>0, <1>1 DEF CountersTypes
<1>3. event.at = tick /\ event.running \in BOOLEAN /\ 1 \in 1..len
  BY <1>0, <1>2 DEF EventsFresh, Events
<1>4. /\ MeterBounds' /\ FlashBounds' /\ meter' \in Meter /\ flash' \in [power : Nat, machine : Nat]
      /\ IF event.kind = "play" THEN meter'.running <=> event.running
                                ELSE meter'.running = meter.running
  <2>1. CASE event.kind = "play"
    <3>1. play_running_changed(event.running, tick)
      BY <1>3, <2>1 DEF ReceiveEvent
    <3> HIDE DEF event
    <3> QED
      BY <1>1, <1>3, <2>1, <3>1, PlayChangeStep
  <2>2. CASE event.kind # "play"
    <3>1. save_power_on(tick)
      BY <1>3, <2>2 DEF ReceiveEvent
    <3> HIDE DEF event
    <3> QED
      BY <1>1, <2>2, <3>1, SaveStep
  <2> QED
    BY <2>1, <2>2
<1> HIDE DEF event, len
<1>5. CountersTypes'
  <2>1. Len(counterEvents') <= EventCapacity
    BY <1>0, <1>2, CountersAssumption DEF CountersTypes, len
  <2> QED
    BY <1>0, <1>1, <1>2, <1>4, <2>1 DEF CountersTypes
<1>6. EventsFresh'
  BY <1>0, <1>1, <1>2 DEF EventsFresh, len
<1>7. ASSUME NEW k \in 1..Len(counterEvents'), LastPlay(k)', counterEvents'[k].running
      PROVE  playing'
  <2>1. k + 1 \in 1..len /\ counterEvents[k + 1] = counterEvents'[k] /\ k \in Nat /\ k >= 1
    BY <1>2
  <2>2. ASSUME NEW j \in 1..len, j > k + 1 PROVE counterEvents[j].kind # "play"
    <3>1. j - 1 \in 1..Len(counterEvents') /\ j - 1 > k
      BY <1>2, <2>1, <2>2
    <3>2. counterEvents'[j - 1] = counterEvents[(j - 1) + 1] /\ (j - 1) + 1 = j
      BY <1>2, <3>1
    <3> QED
      BY <1>7, <3>1, <3>2 DEF LastPlay
  <2>3. LastPlay(k + 1)
    BY <1>7, <2>1, <2>2 DEF LastPlay, len
  <2> QED
    BY <1>0, <1>1, <1>7, <2>1, <2>3 DEF PlayKnown, len
<1>8. ASSUME meter'.running, \A k \in 1..Len(counterEvents') : counterEvents'[k].kind # "play"
      PROVE  playing'
  <2>1. ASSUME NEW j \in 1..len, j > 1 PROVE counterEvents[j].kind # "play"
    <3>1. j - 1 \in 1..Len(counterEvents')
      BY <1>2, <2>1
    <3>2. counterEvents'[j - 1] = counterEvents[(j - 1) + 1] /\ (j - 1) + 1 = j
      BY <1>2, <3>1
    <3> QED
      BY <1>8, <3>1, <3>2
  <2>2. CASE event.kind = "play"
    <3>1. LastPlay(1) /\ counterEvents[1].running
      BY <1>2, <1>4, <1>8, <2>1, <2>2 DEF LastPlay, len
    <3> QED
      BY <1>0, <1>1, <1>3, <3>1 DEF PlayKnown, len
  <2>3. CASE event.kind # "play"
    <3>1. ASSUME NEW j \in 1..len PROVE counterEvents[j].kind # "play"
      <4>1. j = 1 \/ j > 1
        BY <1>2
      <4> QED
        BY <1>2, <2>1, <2>3, <4>1
    <3> QED
      BY <1>0, <1>1, <1>4, <1>8, <2>3, <3>1 DEF PlayKnown, len
  <2> QED
    BY <2>2, <2>3
<1>9. PlayKnown'
  BY <1>7, <1>8 DEF PlayKnown
<1> QED
  BY <1>4, <1>5, <1>6, <1>9 DEF CountersInv

(* Every step keeps the meters honest, when ticks do not pass while events *)
(* wait, no event is dropped, and the totals can be read at a start.       *)
LEMMA CountersStep ==
    ASSUME ~StaleEvents, ~Floods, "read" \notin CounterFaults, CountersInv,
           [CountersNext]_counterVars
    PROVE  CountersInv'
<1>0. /\ CountersTypes /\ EventsFresh /\ PlayKnown /\ MeterBounds /\ FlashBounds
      /\ Second \in Nat /\ EventCapacity \in Nat
  BY CountersAssumption DEF CountersInv
<1>1. CASE initialize
  <2>1. /\ taskAt = "off" /\ taskAt' = "top" /\ nextSave' = tick
        /\ meter' = [BlankMeter EXCEPT !.power = flash.power, !.machine = flash.machine,
                                       !.baseline = tick]
        /\ UNCHANGED <<tick, powered, played, playing, counterEvents, flash>>
    BY <1>1 DEF initialize
  <2>2. /\ tick \in Nat /\ powered \in Nat /\ played \in Nat
        /\ flash.power \in Nat /\ flash.machine \in Nat
        /\ flash.power * Second <= powered /\ flash.machine * Second <= played
        /\ flash.power * Second \in Nat /\ flash.machine * Second \in Nat
    BY <1>0 DEF CountersTypes, FlashBounds
  <2>3. /\ meter' \in Meter /\ meter'.power = flash.power /\ meter'.machine = flash.machine
        /\ meter'.baseline = tick /\ ~meter'.running
    BY <2>1, <2>2 DEF BlankMeter, Meter
  <2>4. CountersTypes' /\ FlashBounds'
    BY <1>0, <2>1, <2>3 DEF CountersTypes, FlashBounds
  <2>5. EventsFresh' /\ PlayKnown'
    BY <1>0, <2>1, <2>3 DEF EventsFresh, PlayKnown
  <2>6. MeterBounds'
    BY <2>1, <2>2, <2>3 DEF MeterBounds, PlayStarted
  <2> QED
    BY <2>4, <2>5, <2>6 DEF CountersInv
<1>2. CASE LoopTop
  <2>1. /\ taskAt = "top" /\ taskAt' = "receive"
        /\ UNCHANGED <<tick, powered, played, playing, counterEvents>>
    BY <1>2 DEF LoopTop
  <2>2. CASE save_power_on(tick) /\ nextSave' = tick + Second
    <3>1. /\ MeterBounds' /\ FlashBounds' /\ meter'.running = meter.running
          /\ meter' \in Meter /\ flash' \in [power : Nat, machine : Nat]
      BY <2>1, <2>2, SaveStep
    <3>2. CountersTypes' /\ EventsFresh'
      BY <1>0, <2>1, <2>2, <3>1 DEF CountersTypes, EventsFresh
    <3>3. PlayKnown'
      BY <1>0, <2>1, <3>1 DEF PlayKnown, LastPlay
    <3> QED
      BY <3>1, <3>2, <3>3 DEF CountersInv
  <2>3. CASE UNCHANGED <<meter, flash, nextSave>>
    BY <1>0, <2>1, <2>3 DEF CountersInv, CountersTypes, EventsFresh, PlayKnown, LastPlay,
                            MeterBounds, FlashBounds, PlayStarted
  <2> QED
    BY <1>2, <2>2, <2>3 DEF LoopTop
<1>3. CASE ReceiveTimesOut \/ UNCHANGED counterVars
  <2>1. /\ (taskAt' = "top" /\ taskAt = "receive") \/ taskAt' = taskAt
        /\ UNCHANGED <<tick, powered, played, playing, counterEvents, nextSave, meter, flash>>
    BY <1>3 DEF ReceiveTimesOut, counterVars
  <2> QED
    BY <1>0, <2>1 DEF CountersInv, CountersTypes, EventsFresh, PlayKnown, LastPlay,
                      MeterBounds, FlashBounds, PlayStarted
<1>4. CASE Tick
  <2>1. /\ counterEvents = <<>> /\ tick' = tick + 1 /\ powered' = powered + 1
        /\ played' = IF playing THEN played + 1 ELSE played
        /\ UNCHANGED <<playing, counterEvents, taskAt, nextSave, meter, flash>>
    BY <1>4 DEF Tick
  <2>2. CountersTypes' /\ EventsFresh' /\ PlayKnown'
    BY <1>0, <2>1 DEF CountersTypes, EventsFresh, PlayKnown, LastPlay
  <2>3. meter.running => playing
    BY <1>0, <2>1 DEF PlayKnown
  <2>4. /\ tick \in Nat /\ powered \in Nat /\ played \in Nat
        /\ flash.power \in Nat /\ flash.machine \in Nat
        /\ flash.power * Second \in Nat /\ flash.machine * Second \in Nat
        /\ meter.power \in Nat /\ meter.machine \in Nat /\ meter.baseline \in Nat
        /\ meter.started \in Nat
        /\ meter.power * Second \in Nat /\ meter.machine * Second \in Nat
    BY SMTT(30), <1>0 DEF CountersTypes, Meter
  <2>5. FlashBounds'
    <3>1. played' >= played
      BY <2>1, <2>4
    <3>2. /\ played' \in Nat /\ UNCHANGED flash /\ powered' = powered + 1
          /\ flash.power * Second <= powered /\ flash.machine * Second <= played
      BY <1>0, <2>1, <2>2 DEF CountersTypes, FlashBounds
    <3>3. flash.power * Second <= powered' /\ flash.machine * Second <= played'
      BY <2>4, <3>1, <3>2
    <3> QED
      BY <3>2, <3>3 DEF FlashBounds
  <2>6. ASSUME taskAt' # "off" PROVE MeterBounds'
    <3>1. /\ meter.baseline <= tick /\ PlayStarted <= tick
          /\ meter.power * Second + (tick - meter.baseline) <= powered
          /\ meter.machine * Second + (tick - PlayStarted) <= played
          /\ meter.power >= flash.power /\ meter.machine >= flash.machine
      BY <1>0, <2>1, <2>6 DEF MeterBounds
    <3>2. meter.power * Second + (tick' - meter.baseline) <= powered'
      BY SMTT(30), <2>1, <2>4, <3>1
    <3>3. PlayStarted' <= tick' /\ meter.machine * Second + (tick' - PlayStarted') <= played'
      <4>1. CASE meter.running
        <5>1. played' = played + 1 /\ PlayStarted' = meter.started /\ PlayStarted = meter.started
          BY <2>1, <2>3, <4>1 DEF PlayStarted
        <5>2. /\ tick' = tick + 1 /\ tick \in Nat /\ meter.started \in Nat /\ played \in Nat
              /\ meter.machine * Second \in Nat /\ meter.started <= tick
              /\ meter.machine * Second + (tick - meter.started) <= played
          BY <2>1, <2>4, <3>1, <5>1
        <5> QED
          BY <5>1, <5>2
      <4>2. CASE ~meter.running
        BY <2>1, <2>4, <3>1, <4>2 DEF PlayStarted
      <4> QED
        BY <4>1, <4>2
    <3> QED
      BY SMTT(30), <2>1, <2>4, <3>1, <3>2, <3>3 DEF MeterBounds
  <2> QED
    BY <2>2, <2>5, <2>6 DEF CountersInv, MeterBounds
<1>5. CASE PowerLost
  <2>1. /\ tick' = 0 /\ playing' = FALSE /\ counterEvents' = <<>> /\ taskAt' = "off"
        /\ nextSave' = 0 /\ meter' = BlankMeter
        /\ UNCHANGED <<powered, played, flash>>
    BY <1>5 DEF PowerLost
  <2>2. BlankMeter \in Meter /\ ~BlankMeter.running
    BY DEF BlankMeter, Meter
  <2>3. playing' \in BOOLEAN
    BY <2>1, Zenon
  <2>4. counterEvents' \in Seq(Events) /\ Len(counterEvents') <= EventCapacity
    BY <1>0, <2>1
  <2>5. CountersTypes' /\ FlashBounds'
    BY <1>0, <2>1, <2>2, <2>3, <2>4 DEF CountersTypes, FlashBounds
  <2>6. EventsFresh' /\ PlayKnown' /\ MeterBounds'
    BY <2>1, <2>2 DEF EventsFresh, PlayKnown, MeterBounds
  <2> QED
    BY <2>5, <2>6 DEF CountersInv
<1> QED
  BY <1>1, <1>2, <1>3, <1>4, <1>5, NotifyStep, ReceiveStep DEF CountersNext

(* The types of the hour meters, whatever fails, overflows or comes late:   *)
(* no tick is counted beyond those there were.                              *)
CountersTyped ==
    /\ CountersTypes
    /\ tick <= powered /\ powered <= MaxTicks /\ played <= powered

LEMMA WholeElapsed ==
    ASSUME NEW start \in Nat, NEW end \in Nat
    PROVE  whole_elapsed_seconds(start, end) \in Nat
<1>1. CASE end < start
  BY <1>1 DEF whole_elapsed_seconds
<1>2. CASE ~(end < start)
  <2>1. end - start \in Nat /\ Second \in Nat \ {0}
    BY <1>2, CountersAssumption
  <2>2. ASSUME NEW n \in Nat PROVE n \div Second \in Nat
    BY <2>1
  <2> QED
    BY <1>2, <2>1, <2>2 DEF whole_elapsed_seconds
<1> QED
  BY <1>1, <1>2

(* A total that is counted stays a total.                                   *)
LEMMA CountedTyped ==
    ASSUME NEW m \in Meter, NEW now \in Nat
    PROVE  power_counted(m, now) \in Meter
<1>1. whole_elapsed_seconds(m.baseline, now) \in Nat
  BY WholeElapsed DEF Meter
<1>2. m.power + whole_elapsed_seconds(m.baseline, now) \in Nat
  BY <1>1 DEF Meter
<1> DEFINE p == m.power + whole_elapsed_seconds(m.baseline, now)
<1>3. power_counted(m, now) = [m EXCEPT !.power = p, !.baseline = now]
  BY DEF power_counted
<1> HIDE DEF p
<1>4. p \in Nat
  BY <1>2 DEF p
<1> QED
  BY <1>3, <1>4 DEF Meter

(* Saving, and a change of play, keep the types of the totals.              *)
LEMMA TotalsTyped ==
    ASSUME CountersTypes, NEW now \in Nat, NEW r \in BOOLEAN,
           save_power_on(now) \/ play_running_changed(r, now)
    PROVE  meter' \in Meter /\ flash' \in [power : Nat, machine : Nat]
<1>1. PICK m : m = power_counted(meter, now)
  OBVIOUS
<1>2. m \in Meter /\ meter \in Meter /\ flash \in [power : Nat, machine : Nat]
  BY <1>1, CountedTyped DEF CountersTypes
<1>3. /\ m.power \in Nat /\ m.machine \in Nat /\ m.started \in Nat
      /\ flash.power \in Nat /\ flash.machine \in Nat
  BY <1>2 DEF Meter
<1>4. ASSUME NEW old \in Nat, NEW new \in Nat PROVE WriteOutcomes(old, new) \subseteq Nat
  BY <1>4 DEF WriteOutcomes
<1>5. CASE save_power_on(now)
  <2>1. /\ meter' = m
        /\ \E p \in WriteOutcomes(flash.power, m.power) : flash' = [flash EXCEPT !.power = p]
    BY <1>1, <1>5, Zenon DEF save_power_on
  <2>2. PICK p \in Nat : flash' = [flash EXCEPT !.power = p]
    BY <1>3, <1>4, <2>1
  <2> QED
    BY <1>2, <2>1, <2>2
<1>6. CASE play_running_changed(r, now)
  <2>1. PICK total : total = m.machine + whole_elapsed_seconds(m.started, now)
    OBVIOUS
  <2>2. total \in Nat
    <3>1. whole_elapsed_seconds(m.started, now) \in Nat
      BY <1>3, WholeElapsed
    <3> QED
      BY <1>3, <2>1, <3>1
  <2>3. \/ /\ meter' = [m EXCEPT !.running = TRUE, !.started = now]
           /\ \E p \in WriteOutcomes(flash.power, m.power) : flash' = [flash EXCEPT !.power = p]
        \/ /\ meter' = [m EXCEPT !.running = FALSE, !.machine = total]
           /\ \E p \in WriteOutcomes(flash.power, m.power),
                 h \in WriteOutcomes(flash.machine, total) : flash' = [power |-> p, machine |-> h]
        \/ save_power_on(now)
    BY <1>1, <1>6, <2>1, Zenon DEF play_running_changed
  <2>4. CASE /\ meter' = [m EXCEPT !.running = TRUE, !.started = now]
             /\ \E p \in WriteOutcomes(flash.power, m.power) : flash' = [flash EXCEPT !.power = p]
    <3>1. PICK p \in Nat : flash' = [flash EXCEPT !.power = p]
      BY <1>3, <1>4, <2>4
    <3> QED
      BY <1>2, <2>4, <3>1 DEF Meter
  <2>5. CASE /\ meter' = [m EXCEPT !.running = FALSE, !.machine = total]
             /\ \E p \in WriteOutcomes(flash.power, m.power),
                   h \in WriteOutcomes(flash.machine, total) : flash' = [power |-> p, machine |-> h]
    <3>1. PICK p \in Nat, h \in Nat : flash' = [power |-> p, machine |-> h]
      BY <1>3, <1>4, <2>2, <2>5
    <3> QED
      BY <1>2, <2>2, <2>5, <3>1 DEF Meter
  <2> QED
    BY <1>5, <2>3, <2>4, <2>5
<1> QED
  BY <1>5, <1>6

(* An event is put into the queue, or dropped when there is no place.       *)
LEMMA QueueTyped ==
    ASSUME CountersTypes, NEW event \in Events, Enqueue(event)
    PROVE  counterEvents' \in Seq(Events) /\ Len(counterEvents') <= EventCapacity
<1>1. /\ counterEvents \in Seq(Events) /\ Len(counterEvents) <= EventCapacity
      /\ EventCapacity \in Nat
  BY CountersAssumption DEF CountersTypes
<1>2. \/ counterEvents' = counterEvents
      \/ Len(counterEvents) < EventCapacity /\ counterEvents' = Append(counterEvents, event)
  BY Zenon DEF Enqueue
<1> QED
  BY <1>1, <1>2

(* What the counters' task keeps has its types, for every length of a       *)
(* second and of the queue, whatever is read wrong, dropped or late         *)
(* (runtime_counters.cpp).                                                  *)
THEOREM CountersTypesHold == CountersSpec => []CountersTypeOK
<1>1. CountersTyped => CountersTypeOK
  <2> SUFFICES ASSUME CountersTyped PROVE CountersTypeOK
    OBVIOUS
  <2>1. playing \in BOOLEAN
    BY Zenon DEF CountersTyped, CountersTypes
  <2>2. tick \in 0..MaxTicks /\ powered \in 0..MaxTicks /\ played \in 0..MaxTicks
    BY CountersAssumption DEF CountersTyped, CountersTypes
  <2> QED
    BY <2>1, <2>2 DEF CountersTyped, CountersTypes, CountersTypeOK, Events
<1>2. CountersInit => CountersTyped
  BY CountersStart, CountersAssumption DEF CountersInv, CountersInit, CountersTyped
<1>3. CountersTyped /\ [CountersNext]_counterVars => CountersTyped'
  <2> SUFFICES ASSUME CountersTyped, [CountersNext]_counterVars PROVE CountersTyped'
    OBVIOUS
  <2>0. /\ CountersTypes /\ tick \in Nat /\ powered \in Nat /\ played \in Nat /\ MaxTicks \in Nat
        /\ tick <= powered /\ powered <= MaxTicks /\ played <= powered /\ Second \in Nat
        /\ counterEvents \in Seq(Events) /\ Len(counterEvents) <= EventCapacity
        /\ EventCapacity \in Nat /\ meter \in Meter /\ flash \in [power : Nat, machine : Nat]
        /\ nextSave \in Nat
    BY CountersAssumption DEF CountersTyped, CountersTypes
  <2>1. playing \in BOOLEAN
    BY Zenon DEF CountersTyped, CountersTypes
  <2>2. \A r \in BOOLEAN : [kind |-> "play", running |-> r, at |-> tick] \in Events
    BY <2>0 DEF Events
  <2>3. [kind |-> "persist", running |-> FALSE, at |-> tick] \in Events
    BY <2>0 DEF Events
  <2>4. ASSUME NEW r \in BOOLEAN, notify_runtime_play_state(r) PROVE CountersTyped'
    <3>1. counterEvents' \in Seq(Events) /\ Len(counterEvents') <= EventCapacity
      BY <2>0, <2>2, <2>4, QueueTyped DEF notify_runtime_play_state
    <3>2. playing' \in BOOLEAN
      BY <2>4, Zenon DEF notify_runtime_play_state
    <3> QED
      BY <2>0, <2>4, <3>1, <3>2 DEF notify_runtime_play_state, CountersTyped, CountersTypes
  <2>5. CASE request_runtime_persistence
    <3>1. counterEvents' \in Seq(Events) /\ Len(counterEvents') <= EventCapacity
      BY <2>0, <2>3, <2>5, QueueTyped DEF request_runtime_persistence
    <3>2. playing' \in BOOLEAN
      BY <2>1, <2>5, Zenon DEF request_runtime_persistence
    <3> QED
      BY <2>0, <2>5, <3>1, <3>2 DEF request_runtime_persistence, CountersTyped, CountersTypes
  <2>6. CASE initialize
    <3>1. PICK p, m : /\ p = flash.power \/ p = 0
                      /\ m = flash.machine \/ m = 0
                      /\ meter' = [BlankMeter EXCEPT !.power = p, !.machine = m, !.baseline = tick]
      BY <2>6 DEF initialize
    <3>2. p \in Nat /\ m \in Nat
      BY <2>0, <3>1
    <3>3. meter' \in Meter
      BY <2>0, <3>1, <3>2 DEF BlankMeter, Meter
    <3>4. playing' \in BOOLEAN
      BY <2>1, <2>6, Zenon DEF initialize
    <3> QED
      BY <2>0, <2>6, <3>3, <3>4 DEF initialize, CountersTyped, CountersTypes
  <2>7. CASE LoopTop
    <3>1. meter' \in Meter /\ flash' \in [power : Nat, machine : Nat] /\ nextSave' \in Nat
      <4>1. CASE save_power_on(tick) /\ nextSave' = tick + Second
        <5>1. PICK r \in BOOLEAN : r = TRUE
          OBVIOUS
        <5>2. meter' \in Meter /\ flash' \in [power : Nat, machine : Nat]
          BY <2>0, <4>1, <5>1, TotalsTyped
        <5> QED
          BY <2>0, <4>1, <5>2
      <4>2. CASE UNCHANGED <<meter, flash, nextSave>>
        BY <2>0, <4>2
      <4> QED
        BY <2>7, <4>1, <4>2 DEF LoopTop
    <3>2. playing' \in BOOLEAN
      BY <2>1, <2>7, Zenon DEF LoopTop
    <3> QED
      BY <2>0, <2>7, <3>1, <3>2 DEF LoopTop, CountersTyped, CountersTypes
  <2>8. CASE ReceiveTimesOut
    <3>1. playing' \in BOOLEAN
      BY <2>1, <2>8, Zenon DEF ReceiveTimesOut
    <3> QED
      BY <2>0, <2>8, <3>1 DEF ReceiveTimesOut, CountersTyped, CountersTypes
  <2>9. CASE ReceiveEvent
    <3>1. PICK event : event = Head(counterEvents)
      OBVIOUS
    <3>2. /\ event \in Events /\ counterEvents' \in Seq(Events)
          /\ Len(counterEvents') <= EventCapacity
      BY <2>0, <2>9, <3>1 DEF ReceiveEvent
    <3>3. event.at \in Nat /\ event.running \in BOOLEAN
      BY <3>2 DEF Events
    <3>4. play_running_changed(event.running, event.at) \/ save_power_on(event.at)
      BY <2>9, <3>1, Zenon DEF ReceiveEvent
    <3>5. meter' \in Meter /\ flash' \in [power : Nat, machine : Nat]
      BY <2>0, <3>3, <3>4, TotalsTyped
    <3>6. playing' \in BOOLEAN
      BY <2>1, <2>9, Zenon DEF ReceiveEvent
    <3>7. taskAt' = "top" /\ UNCHANGED <<tick, powered, played, nextSave>>
      BY <2>9 DEF ReceiveEvent
    <3> QED
      BY <2>0, <3>2, <3>5, <3>6, <3>7 DEF CountersTyped, CountersTypes
  <2>10. CASE Tick
    <3>1. playing' \in BOOLEAN
      BY <2>1, <2>10, Zenon DEF Tick
    <3>2. /\ powered < MaxTicks /\ tick' = tick + 1 /\ powered' = powered + 1
          /\ played' = played + 1 \/ played' = played
          /\ UNCHANGED <<counterEvents, taskAt, nextSave, meter, flash>>
      BY <2>10 DEF Tick
    <3> QED
      BY <2>0, <3>1, <3>2 DEF CountersTyped, CountersTypes
  <2>11. CASE PowerLost
    <3>1. playing' \in BOOLEAN
      BY <2>11, Zenon DEF PowerLost
    <3>2. BlankMeter \in Meter
      BY DEF BlankMeter, Meter
    <3>3. << >> \in Seq(Events) /\ Len(<< >>) <= EventCapacity
      BY <2>0
    <3> QED
      BY <2>0, <2>11, <3>1, <3>2, <3>3 DEF PowerLost, CountersTyped, CountersTypes
  <2>12. CASE UNCHANGED counterVars
    <3>1. playing' \in BOOLEAN
      BY <2>1, <2>12, Zenon DEF counterVars
    <3> QED
      BY <2>0, <2>12, <3>1 DEF counterVars, CountersTyped, CountersTypes
  <2> QED
    BY <2>4, <2>5, <2>6, <2>7, <2>8, <2>9, <2>10, <2>11, <2>12 DEF CountersNext
<1> QED
  BY <1>1, <1>2, <1>3, PTL DEF CountersSpec

-----------------------------------------------------------------------------
(* What a machine records of itself in flash stays true, for any length of *)
(* a second and of the event queue, any number of starts, ticks and        *)
(* commands, failed writes and losses of power: the hour meters show no    *)
(* more than there was and are never taken back, a serial number that was  *)
(* granted is the serial number, the first start is recorded once, and no  *)
(* operation slot is lost (runtime_counters.cpp, serial_number.cpp).       *)
(* The assumptions are the runs': events are served within their tick and  *)
(* not dropped, setters take turns, and the keys can be read.              *)
THEOREM RecordsAreTrue ==
    ASSUME ~StaleEvents, ~Floods, "read" \notin CounterFaults,
           ~SettersOverlap, "serial" \notin IdentityFaults
    PROVE  RecordsSpec => []RecordsStayTrue
<1>1. CountersSpec => []CountersHonest
  BY CountersStart, CountersStep, CountersFacts, PTL DEF CountersSpec
<1>2. IdentitySpec => []IdentityKept
  BY IdentityStart, IdentityStep, IdentityFacts, PTL DEF IdentitySpec
<1> QED
  BY <1>1, <1>2, PTL DEF RecordsSpec, RecordsStayTrue

-----------------------------------------------------------------------------
(* The configuration store implements the table of Settings and loses no    *)
(* accepted value, for any users, settings and values, under the            *)
(* assumptions the model is checked with: documents can be read, renames    *)
(* to a free name succeed, copies and changes take turns, and power is not  *)
(* lost between the removal of config.txt and the rename.                   *)
Benign == ~ReadFaults /\ ~RenameFaults /\ ~FreeCopies /\ "rename" \notin Outages

(* The changed document of a user.                                         *)
Changed(u) == [active.content EXCEPT ![request[u][1]] = request[u][2]]

(* A copy excludes changes and other copies.                               *)
TakeTurns ==
    /\ Copying => holder = NoUser
    /\ \A u, w \in Users : stage[u] \in {"restore", "save"} /\ stage[w] \in {"restore", "save"}
                               => u = w

(* What a user is about to make config.txt differs from it in the setting  *)
(* that was asked for, and is in config.tmp before config.txt goes.        *)
DocumentReady ==
    \A u \in Users :
        /\ stage[u] \in {"write", "remove"} => document[u] = Changed(u)
        /\ stage[u] \in {"remove", "rename"} => temporary = Holding(document[u])
        /\ stage[u] = "rename" => document[u][request[u][1]] = request[u][2]

StoreInv == StoreTypeOK /\ TakeTurns /\ DocumentReady

(* The state of Settings that a state of the store stands for.             *)
Shown ==
    IF ~active.exists /\ \E u \in Users : stage[u] = "rename"
    THEN document[holder] ELSE active.content

StoreStages == {"idle", "read", "write", "remove", "rename", "restore", "save"}

-----------------------------------------------------------------------------
(* Empty and partial documents are documents.                              *)
LEMMA DocumentFacts ==
    /\ Empty \in Documents /\ Missing \in StoreFiles
    /\ \A d \in Documents : Holding(d) \in StoreFiles /\ Empty \in PartsOf(d)
    /\ \A d \in Documents : PartsOf(d) \subseteq Documents
BY DEF Empty, Documents, Missing, StoreFiles, Holding, PartsOf

(* A document with one value set is a document.                            *)
LEMMA EditFacts ==
    ASSUME NEW d \in Documents, NEW k \in Keys, NEW v \in Values
    PROVE  /\ [d EXCEPT ![k] = v] \in Documents
           /\ [d EXCEPT ![k] = v][k] = v
           /\ \A j \in Keys \ {k} : [d EXCEPT ![k] = v][j] = d[j]
BY DEF Documents

(* The parts of the type invariant, as the provers take them.              *)
Filed(f) == f \in StoreFiles /\ (~f.exists => f = Missing)
Held == /\ holder \in Users \cup {NoUser} /\ stage \in [Users -> StoreStages]
        /\ \A u \in Users : holder = u <=> stage[u] \in {"read", "write", "remove", "rename"}
Known == /\ document \in [Users -> Documents] /\ request \in [Users -> Keys \X Values]
         /\ accepted \in Documents

(* The type invariant is its parts.                                        *)
LEMMA TypeParts ==
    StoreTypeOK <=> Filed(active) /\ Filed(temporary) /\ Filed(saved) /\ Held /\ Known
BY DEF StoreTypeOK, Filed, Held, Known, StoreStages

(* So it is after a step.                                                  *)
LEMMA TypePartsNext ==
    StoreTypeOK' <=> Filed(active') /\ Filed(temporary') /\ Filed(saved') /\ Held' /\ Known'
BY DEF StoreTypeOK, Filed, Held, Known, StoreStages

(* Files that are made.                                                    *)
LEMMA FileFacts ==
    /\ Filed(Missing) /\ \A d \in Documents : Filed(Holding(d))
    /\ \A f : Filed(f) => f.content \in Documents
BY DocumentFacts DEF Filed, Missing, Holding, StoreFiles

(* One user at most is in the middle of a change.                          *)
LEMMA OneChanges ==
    ASSUME Held, NEW u \in Users, NEW w \in Users,
           stage[u] \in {"read", "write", "remove", "rename"},
           stage[w] \in {"read", "write", "remove", "rename"}
    PROVE  u = w /\ holder = u
BY DEF Held

(* A step of a user.                                                       *)
UserStep(u) ==
    \/ \E k \in Keys, v \in Values : BeginSet(u, k, v)
    \/ ReadDocument(u) \/ WriteTemporary(u) \/ RemoveActive(u) \/ RenameTemporary(u)
    \/ BeginRestore(u) \/ EndRestore(u) \/ BeginSave(u) \/ EndSave(u)

(* The mutex, the stages and the turns after each step.                    *)
LEMMA TurnsStep ==
    ASSUME Benign, Held, TakeTurns, NEW u \in Users, UserStep(u)
    PROVE  Held' /\ TakeTurns'
<1> USE StoreAssumption DEF Held, TakeTurns, Copying, StoreStages, Benign
<1>1. ASSUME NEW k \in Keys, NEW v \in Values, BeginSet(u, k, v) PROVE Held' /\ TakeTurns'
  BY <1>1 DEF BeginSet
<1>2. CASE ReadDocument(u)
  BY <1>2 DEF ReadDocument
<1>3. CASE WriteTemporary(u)
  BY <1>3 DEF WriteTemporary, Unlock
<1>4. CASE RemoveActive(u)
  BY <1>4 DEF RemoveActive
<1>5. CASE RenameTemporary(u)
  BY <1>5 DEF RenameTemporary, Unlock
<1>6. CASE BeginRestore(u)
  BY <1>6 DEF BeginRestore
<1>7. CASE EndRestore(u)
  BY <1>7 DEF EndRestore
<1>8. CASE BeginSave(u)
  BY <1>8 DEF BeginSave
<1>9. CASE EndSave(u)
  BY <1>9 DEF EndSave
<1> QED
  BY <1>1, <1>2, <1>3, <1>4, <1>5, <1>6, <1>7, <1>8, <1>9 DEF UserStep

(* A document that is read is the one in config.txt with the change.       *)
LEMMA ReadMakes ==
    ASSUME Benign, Known, active.content \in Documents, NEW u \in Users, ReadDocument(u)
    PROVE  /\ document' = [document EXCEPT ![u] = Changed(u)]
           /\ Changed(u) \in Documents
<1>1. request[u][1] \in Keys /\ request[u][2] \in Values
  BY DEF Known
<1>2. Changed(u) \in Documents
  BY <1>1, EditFacts DEF Changed
<1>3. {active.content} \cup (IF ReadFaults THEN {Empty} ELSE {}) = {active.content}
  BY DEF Benign
<1> QED
  BY <1>2, <1>3 DEF ReadDocument, Changed

(* Files and memory stay what they are declared to be.                     *)
LEMMA FilesStep ==
    ASSUME Benign, StoreInv, NEW u \in Users, UserStep(u)
    PROVE  Filed(active') /\ Filed(temporary') /\ Filed(saved') /\ Known'
<1> DEFINE Goal == Filed(active') /\ Filed(temporary') /\ Filed(saved') /\ Known'
<1>0. Filed(active) /\ Filed(temporary) /\ Filed(saved) /\ Held /\ Known
  BY TypeParts DEF StoreInv
<1>a. /\ active.content \in Documents /\ saved.content \in Documents
      /\ document[u] \in Documents /\ request[u] \in Keys \X Values
  BY <1>0, FileFacts DEF Known
<1> USE <1>0, <1>a, FileFacts, DocumentFacts DEF Known
<1>1. ASSUME NEW k \in Keys, NEW v \in Values, BeginSet(u, k, v) PROVE Goal
  BY <1>1 DEF BeginSet
<1>2. CASE ReadDocument(u)
  <2>1. document' = [document EXCEPT ![u] = Changed(u)] /\ Changed(u) \in Documents
    BY <1>2, ReadMakes
  <2>2. UNCHANGED <<active, temporary, saved, request, accepted>>
    BY <1>2 DEF ReadDocument
  <2> QED
    BY <2>1, <2>2
<1>3. CASE WriteTemporary(u)
  BY <1>3 DEF WriteTemporary
<1>4. CASE RemoveActive(u)
  BY <1>4 DEF RemoveActive
<1>5. CASE RenameTemporary(u)
  <2>1. accepted' \in Documents
    BY <1>5, EditFacts DEF RenameTemporary
  <2>2. Filed(active') /\ Filed(temporary') /\ Filed(saved')
    BY <1>5 DEF RenameTemporary
  <2> QED
    BY <1>5, <2>1, <2>2 DEF RenameTemporary
<1>6. CASE BeginRestore(u)
  BY <1>6 DEF BeginRestore
<1>7. CASE EndRestore(u)
  BY <1>7 DEF EndRestore
<1>8. CASE BeginSave(u)
  BY <1>8 DEF BeginSave
<1>9. CASE EndSave(u)
  BY <1>9 DEF EndSave
<1> QED
  BY <1>1, <1>2, <1>3, <1>4, <1>5, <1>6, <1>7, <1>8, <1>9 DEF UserStep

(* A document is prepared from config.txt and saved before that goes.      *)
LEMMA DocumentStep ==
    ASSUME Benign, StoreInv, NEW u \in Users, UserStep(u)
    PROVE  DocumentReady'
<1>0. Filed(active) /\ Filed(temporary) /\ Filed(saved) /\ Held /\ Known /\ TakeTurns
  BY TypeParts DEF StoreInv
<1>a. /\ active.content \in Documents
      /\ \A w \in Users : request[w][1] \in Keys /\ request[w][2] \in Values
  BY <1>0, FileFacts DEF Known
<1> USE <1>0, <1>a, StoreAssumption DEF StoreInv, DocumentReady, Changed, Held, StoreStages
<1>1. ASSUME NEW k \in Keys, NEW v \in Values, BeginSet(u, k, v) PROVE DocumentReady'
  BY <1>1 DEF BeginSet
<1>2. CASE ReadDocument(u)
  <2>1. document' = [document EXCEPT ![u] = Changed(u)]
    BY <1>2, ReadMakes
  <2>2. \A w \in Users : stage[w] \notin {"write", "remove", "rename"}
    BY <1>2, OneChanges DEF ReadDocument
  <2> QED
    BY <1>2, <2>1, <2>2 DEF ReadDocument, Known
<1>3. CASE WriteTemporary(u)
  BY SMTT(30), <1>3 DEF WriteTemporary, Unlock
<1>4. CASE RemoveActive(u)
  <2>1. document[u][request[u][1]] = request[u][2]
    <3>1. document[u] = [active.content EXCEPT ![request[u][1]] = request[u][2]]
      BY <1>4 DEF RemoveActive
    <3>2. [active.content EXCEPT ![request[u][1]] = request[u][2]][request[u][1]]
             = request[u][2]
      BY ONLY <1>a DEF Documents
    <3> QED
      BY <3>1, <3>2
  <2>2. \A w \in Users : w # u => stage[w] \notin {"write", "remove", "rename"}
    BY <1>4, OneChanges DEF RemoveActive
  <2> QED
    BY <1>4, <2>1, <2>2 DEF RemoveActive
<1>5. CASE RenameTemporary(u)
  BY <1>5 DEF RenameTemporary, Unlock
<1>6. CASE BeginRestore(u)
  BY <1>6 DEF BeginRestore, TakeTurns, Copying, Benign
<1>7. CASE EndRestore(u)
  BY <1>7 DEF EndRestore, TakeTurns, Copying, Benign
<1>8. CASE BeginSave(u)
  BY <1>8 DEF BeginSave
<1>9. CASE EndSave(u)
  BY <1>9 DEF EndSave
<1> QED
  BY <1>1, <1>2, <1>3, <1>4, <1>5, <1>6, <1>7, <1>8, <1>9 DEF UserStep

(* A loss of power leaves config.txt as it is, and nobody at work.         *)
LEMMA PowerStep ==
    ASSUME Benign, StoreInv, StorePowerLoss
    PROVE  StoreInv' /\ Shown' = Shown /\ \A u \in Users : stage[u] # "rename"
<1>0. Filed(active) /\ Filed(temporary) /\ Filed(saved) /\ Held /\ Known
  BY TypeParts DEF StoreInv
<1>1. \A u \in Users : stage[u] # "rename"
  BY DEF StorePowerLoss, Benign
<1>2. Held' /\ TakeTurns' /\ DocumentReady'
  BY StoreAssumption DEF StorePowerLoss, Held, TakeTurns, DocumentReady, Copying, StoreStages
<1>3. Filed(temporary')
  BY <1>0, FileFacts, DocumentFacts DEF StorePowerLoss, Known
<1>4. Filed(active') /\ Filed(saved') /\ Known'
  BY <1>0 DEF StorePowerLoss, Known
<1>5. Shown' = Shown
  BY <1>1 DEF StorePowerLoss, Shown
<1> QED
  BY <1>1, <1>2, <1>3, <1>4, <1>5, TypePartsNext DEF StoreInv

(* The store starts with nobody at work.                                   *)
LEMMA StoreStarts == StoreInit => StoreInv
<1> SUFFICES ASSUME StoreInit PROVE StoreInv
  OBVIOUS
<1>1. request \in [Users -> Keys \X Values]
  <2>1. \E r : r \in Keys \X Values
    <3>1. PICK k \in Keys, v \in Values : TRUE
      BY StoreAssumption
    <3>2. <<k, v>> \in Keys \X Values
      BY <3>1
    <3> QED
      BY <3>2, Zenon
  <2>2. (CHOOSE r \in Keys \X Values : TRUE) \in Keys \X Values
    BY <2>1
  <2> QED
    BY <2>2 DEF StoreInit
<1>2. Filed(active) /\ Filed(temporary) /\ Filed(saved)
  BY FileFacts, DocumentFacts DEF StoreInit
<1>3. Held /\ TakeTurns /\ DocumentReady
  BY StoreAssumption DEF StoreInit, Held, TakeTurns, DocumentReady, Copying, StoreStages
<1>4. Known
  BY <1>1, DocumentFacts DEF StoreInit, Known
<1> QED
  BY <1>2, <1>3, <1>4, TypeParts DEF StoreInv

(* Every step keeps the invariant.                                         *)
LEMMA StoreStep ==
    ASSUME Benign PROVE StoreInv /\ [StoreNext]_storeVars => StoreInv'
<1> SUFFICES ASSUME StoreInv, [StoreNext]_storeVars PROVE StoreInv'
  OBVIOUS
<1>1. CASE UNCHANGED storeVars
  BY <1>1 DEF storeVars, StoreInv, StoreTypeOK, TakeTurns, DocumentReady, Copying, Changed
<1>2. ASSUME NEW u \in Users, UserStep(u) PROVE StoreInv'
  <2>1. Held /\ TakeTurns
    BY TypeParts DEF StoreInv
  <2>2. Held' /\ TakeTurns'
    BY <1>2, <2>1, TurnsStep
  <2> QED
    BY <1>2, <2>2, FilesStep, DocumentStep, TypePartsNext DEF StoreInv
<1>3. CASE StorePowerLoss
  BY <1>3, PowerStep
<1> QED
  BY <1>1, <1>2, <1>3 DEF StoreNext, UserStep

-----------------------------------------------------------------------------
(* While nobody renames, config.txt is what is shown.                      *)
LEMMA ShownFile ==
    ASSUME \A u \in Users : stage[u] # "rename"
    PROVE  Shown = active.content
BY DEF Shown

(* So it is after a step.                                                  *)
LEMMA ShownFileNext ==
    ASSUME \A u \in Users : stage'[u] # "rename"
    PROVE  Shown' = active'.content
BY DEF Shown

(* What the steps of a change and of a copy do to what is shown.           *)
ShowsSame == Shown' = Shown /\ saved' = saved /\ accepted' = accepted
ShowsChange(u) ==
    /\ Shown' = [Shown EXCEPT ![request[u][1]] = request[u][2]] /\ saved' = saved
    /\ accepted' = accepted /\ stage[u] # "rename" /\ stage'[u] = "rename"
    /\ request' = request /\ ~active'.exists
ShowsAccepted(u) ==
    /\ Shown' = Shown /\ saved' = saved
    /\ accepted' = [accepted EXCEPT ![request[u][1]] = request[u][2]]
    /\ Shown[request[u][1]] = request[u][2]

(* Until config.txt is removed, a change shows nothing.                    *)
LEMMA QuietSteps ==
    ASSUME Benign, StoreInv, NEW u \in Users,
           \/ \E k \in Keys, v \in Values : BeginSet(u, k, v)
           \/ ReadDocument(u) \/ WriteTemporary(u)
    PROVE  ShowsSame /\ \A w \in Users : stage[w] # "rename" /\ stage'[w] # "rename"
<1>0. Held
  BY TypeParts DEF StoreInv
<1>1. \A w \in Users : stage[w] # "rename" /\ stage'[w] # "rename"
  <2>1. CASE \E k \in Keys, v \in Values : BeginSet(u, k, v)
    BY <2>1, <1>0, StoreAssumption DEF BeginSet, Held
  <2>2. CASE ReadDocument(u)
    BY <2>2, <1>0, OneChanges DEF ReadDocument, Held
  <2>3. CASE WriteTemporary(u)
    BY <2>3, <1>0, OneChanges DEF WriteTemporary, Unlock, Held
  <2> QED
    BY <2>1, <2>2, <2>3
<1>2. active' = active /\ saved' = saved /\ accepted' = accepted
  BY DEF BeginSet, ReadDocument, WriteTemporary
<1>3. Shown = active.content /\ Shown' = active'.content
  BY <1>1, ShownFile, ShownFileNext
<1> QED
  BY <1>1, <1>2, <1>3 DEF ShowsSame

(* Removing config.txt makes the change, when config.txt is gone.          *)
LEMMA RemoveStep ==
    ASSUME Benign, StoreInv, NEW u \in Users, RemoveActive(u)
    PROVE  (ShowsSame /\ active'.exists) \/ ShowsChange(u)
<1>0. Held /\ Filed(active)
  BY TypeParts DEF StoreInv
<1>1. holder = u /\ \A w \in Users : stage[w] # "rename"
  BY <1>0, OneChanges DEF RemoveActive
<1>2. Shown = active.content /\ document[u] = Changed(u)
  BY <1>1, ShownFile DEF StoreInv, DocumentReady, RemoveActive
<1>3. /\ stage' = [stage EXCEPT ![u] = "rename"] /\ active' \in {Missing, active}
      /\ UNCHANGED <<saved, holder, document, request, accepted>>
  BY DEF RemoveActive
<1>4. stage'[u] = "rename"
  BY <1>0, <1>3 DEF Held
<1>5. CASE active'.exists
  <2>1. active' = active
    BY <1>3, <1>5 DEF Missing
  <2>2. Shown' = active'.content
    BY <1>5 DEF Shown
  <2> QED
    BY <1>2, <1>3, <1>5, <2>1, <2>2 DEF ShowsSame
<1>6. CASE ~active'.exists
  <2>1. Shown' = document'[holder']
    BY <1>4, <1>6 DEF Shown
  <2>2. Shown' = Changed(u)
    BY <2>1, <1>1, <1>2, <1>3
  <2> QED
    BY <1>1, <1>2, <1>3, <1>4, <1>6, <2>2 DEF ShowsChange, Changed
<1> QED
  BY <1>5, <1>6

(* The rename shows what the user was waiting for, or nothing new.         *)
LEMMA RenameStep ==
    ASSUME Benign, StoreInv, NEW u \in Users, RenameTemporary(u)
    PROVE  /\ \A w \in Users : stage'[w] # "rename"
           /\ (ShowsSame /\ active.exists) \/ (ShowsAccepted(u) /\ ~active.exists)
<1>0. Held /\ Filed(active) /\ Known
  BY TypeParts DEF StoreInv
<1>1. holder = u /\ stage[u] = "rename" /\ temporary = Holding(document[u])
  BY <1>0, OneChanges DEF RenameTemporary, StoreInv, DocumentReady
<1>2. \A w \in Users : stage'[w] # "rename"
  BY <1>0, <1>1, OneChanges DEF RenameTemporary, Unlock, Held
<1>3. Shown' = active'.content
  BY <1>2, ShownFileNext
<1>4. CASE active.exists
  <2>1. UNCHANGED <<active, saved, accepted>>
    BY <1>4 DEF RenameTemporary
  <2>2. Shown = active.content
    BY <1>4 DEF Shown
  <2> QED
    BY <1>2, <1>3, <1>4, <2>1, <2>2 DEF ShowsSame
<1>5. CASE ~active.exists
  <2>1. active' = temporary /\ saved' = saved
        /\ accepted' = [accepted EXCEPT ![request[u][1]] = request[u][2]]
    BY <1>5 DEF RenameTemporary, Benign
  <2>2. Shown = document[u]
    BY <1>1, <1>5 DEF Shown
  <2>3. Shown' = document[u]
    BY <1>1, <1>3, <2>1 DEF Holding
  <2>4. document[u][request[u][1]] = request[u][2]
    BY <1>1 DEF StoreInv, DocumentReady
  <2> QED
    BY <1>2, <1>5, <2>1, <2>2, <2>3, <2>4 DEF ShowsAccepted
<1> QED
  BY <1>2, <1>4, <1>5

(* The copies, which run while nobody changes a setting.                   *)
LEMMA CopyFacts ==
    ASSUME Benign, StoreInv, NEW u \in Users,
           BeginRestore(u) \/ EndRestore(u) \/ BeginSave(u) \/ EndSave(u)
    PROVE  /\ holder = NoUser
           /\ \A w \in Users : stage[w] # "rename" /\ stage'[w] # "rename"
           /\ Shown = active.content /\ Shown' = active'.content
<1>0. Held /\ TakeTurns
  BY TypeParts DEF StoreInv
<1>1. holder = NoUser
  BY <1>0 DEF BeginRestore, EndRestore, BeginSave, EndSave, Benign, TakeTurns, Copying
<1>2. \A w \in Users : stage[w] # "rename" /\ stage'[w] # "rename"
  BY <1>0, <1>1, StoreAssumption
     DEF BeginRestore, EndRestore, BeginSave, EndSave, Held
<1> QED
  BY <1>1, <1>2, ShownFile, ShownFileNext

(* A restore replaces the settings by a part of the defaults, a save the   *)
(* defaults by a part of the settings.                                     *)
LEMMA CopyStep ==
    ASSUME Benign, StoreInv, NEW u \in Users
    PROVE  /\ BeginRestore(u) \/ EndRestore(u) =>
                  Shown' \in PartsOf(saved.content) /\ saved' = saved
           /\ BeginSave(u) \/ EndSave(u) =>
                  saved'.content \in PartsOf(Shown) /\ Shown' = Shown /\ accepted' = accepted
<1>0. active.content \in Documents /\ saved.content \in Documents
  BY TypeParts, FileFacts DEF StoreInv
<1>1. ASSUME BeginRestore(u) PROVE Shown' \in PartsOf(saved.content) /\ saved' = saved
  BY <1>0, <1>1, CopyFacts, DocumentFacts DEF BeginRestore, Holding
<1>2. ASSUME EndRestore(u) PROVE Shown' \in PartsOf(saved.content) /\ saved' = saved
  <2>1. PICK d \in PartsOf(saved.content) : active' = Holding(d)
    BY <1>2 DEF EndRestore
  <2>2. Shown' = d
    BY <1>2, <2>1, CopyFacts DEF Holding
  <2> QED
    BY <1>2, <2>1, <2>2 DEF EndRestore
<1>3. ASSUME BeginSave(u)
      PROVE  saved'.content \in PartsOf(Shown) /\ Shown' = Shown /\ accepted' = accepted
  BY <1>0, <1>3, CopyFacts, DocumentFacts DEF BeginSave, Holding
<1>4. ASSUME EndSave(u)
      PROVE  saved'.content \in PartsOf(Shown) /\ Shown' = Shown /\ accepted' = accepted
  <2>1. PICK d \in PartsOf(active.content) : saved' = Holding(d)
    BY <1>4 DEF EndSave
  <2>2. saved'.content = d
    BY <2>1 DEF Holding
  <2>3. Shown = active.content /\ Shown' = active'.content
    BY <1>4, CopyFacts
  <2> QED
    BY <1>4, <2>1, <2>2, <2>3 DEF EndSave
<1> QED
  BY <1>1, <1>2, <1>3, <1>4

(* Each step of the store is a step of the table of settings, or none.     *)
LEMMA StepMaps ==
    ASSUME Benign, StoreInv, [StoreNext]_storeVars
    PROVE  [Promised!SettingsNext]_<<Shown, saved.content>>
<1> USE DEF Promised!SettingsNext, Promised!Change, Promised!Restore, Promised!SaveDefaults,
            Promised!PartsOf, Promised!Tables, PartsOf, Documents
<1>1. CASE UNCHANGED storeVars
  BY <1>1 DEF storeVars, Shown
<1>2. CASE StorePowerLoss
  BY <1>2, PowerStep DEF StorePowerLoss
<1>3. ASSUME NEW u \in Users, UserStep(u)
      PROVE  [Promised!SettingsNext]_<<Shown, saved.content>>
  <2>0. request[u][1] \in Keys /\ request[u][2] \in Values
    BY TypeParts DEF StoreInv, Known
  <2>1. CASE ShowsSame
    BY <2>1 DEF ShowsSame
  <2>2. CASE ShowsChange(u)
    BY <2>0, <2>2 DEF ShowsChange, Shown
  <2>3. CASE ShowsAccepted(u)
    BY <2>3 DEF ShowsAccepted
  <2>4. CASE BeginRestore(u) \/ EndRestore(u)
    BY <2>4, CopyStep DEF Shown
  <2>5. CASE BeginSave(u) \/ EndSave(u)
    BY <2>5, CopyStep DEF Shown
  <2> QED
    BY <1>3, <2>1, <2>2, <2>3, <2>4, <2>5, QuietSteps, RemoveStep, RenameStep DEF UserStep
<1> QED
  BY <1>1, <1>2, <1>3 DEF StoreNext, UserStep

(* The file store of the configuration is the table of settings that users *)
(* are promised, for any users, settings and values: one setting changes   *)
(* at a time, a failed or interrupted update changes none, and only a      *)
(* restore replaces them (configuration_file_store.cpp).                   *)
THEOREM StoreImplementsSettings ==
    ASSUME Benign
    PROVE  StoreSpec => ImplementsSettings
<1>1. StoreInit => Promised!SettingsInit
  BY DocumentFacts, StoreStarts, TypeParts, FileFacts, ShownFile
     DEF StoreInit, StoreInv, Shown, Promised!SettingsInit, Promised!Tables, Documents
<1>2. StoreInv /\ [StoreNext]_storeVars => [Promised!SettingsNext]_<<Shown, saved.content>>
  BY StepMaps
<1> QED
  BY <1>1, <1>2, StoreStarts, StoreStep, PTL
     DEF StoreSpec, ImplementsSettings, Promised!SettingsSpec, Shown

-----------------------------------------------------------------------------
(* A restore has taken all accepted values back; else they are what is     *)
(* shown, but for the setting that a user is about to change.              *)
NothingAfterRestore == \A u \in Users : stage[u] = "restore" => accepted = Empty
AcceptedKept ==
    \A k \in Keys : accepted[k] # Unset =>
        \/ Shown[k] = accepted[k]
        \/ \E u \in Users : stage[u] = "rename" /\ ~active.exists /\ k = request[u][1]

(* Nothing is accepted while a restore runs.                               *)
LEMMA RestoreStep ==
    ASSUME Benign, StoreInv, NothingAfterRestore, NEW u \in Users, UserStep(u)
    PROVE  NothingAfterRestore'
<1>0. Held /\ TakeTurns
  BY TypeParts DEF StoreInv
<1>1. CASE RenameTemporary(u)
  <2>1. \A w \in Users : stage[w] # "restore"
    BY <1>0, <1>1, StoreAssumption DEF RenameTemporary, Held, TakeTurns, Copying
  <2> QED
    BY <1>0, <1>1, <2>1 DEF RenameTemporary, Unlock, Held, NothingAfterRestore
<1>2. CASE BeginRestore(u)
  BY <1>2 DEF BeginRestore, NothingAfterRestore
<1>3. CASE \/ \E k \in Keys, v \in Values : BeginSet(u, k, v)
           \/ ReadDocument(u) \/ WriteTemporary(u) \/ RemoveActive(u)
           \/ EndRestore(u) \/ BeginSave(u) \/ EndSave(u)
  <2>1. accepted' = accepted
    BY <1>3 DEF BeginSet, ReadDocument, WriteTemporary, RemoveActive, EndRestore, BeginSave,
                EndSave
  <2>2. \A w \in Users : stage'[w] = "restore" => stage[w] = "restore"
    BY <1>0, <1>3
       DEF BeginSet, ReadDocument, WriteTemporary, RemoveActive, EndRestore, BeginSave, EndSave,
           Unlock, Held
  <2> QED
    BY <2>1, <2>2 DEF NothingAfterRestore
<1> QED
  BY <1>1, <1>2, <1>3 DEF UserStep

(* No step of a user takes an accepted value from the table but the change *)
(* of that setting and a restore.                                          *)
LEMMA AcceptedStep ==
    ASSUME Benign, StoreInv, AcceptedKept, NothingAfterRestore, NEW u \in Users, UserStep(u)
    PROVE  AcceptedKept'
<1>0. /\ Held /\ TakeTurns /\ Filed(active) /\ Known
      /\ request[u][1] \in Keys /\ request[u][2] \in Values
  BY TypeParts DEF StoreInv, Known
<1>1. ASSUME ShowsSame, \A w \in Users : stage[w] # "rename" PROVE AcceptedKept'
  BY <1>1 DEF ShowsSame, AcceptedKept
<1>2. CASE RemoveActive(u)
  <2>1. \A w \in Users : stage[w] # "rename"
    BY <1>0, <1>2, OneChanges DEF RemoveActive
  <2>2. CASE ShowsChange(u)
    <3> SUFFICES ASSUME NEW k \in Keys, accepted'[k] # Unset, k # request[u][1]
                 PROVE  Shown'[k] = accepted'[k]
      BY <2>2 DEF ShowsChange, AcceptedKept
    <3>1. Shown = active.content /\ active.content \in Documents
      BY <1>0, <2>1, ShownFile, FileFacts
    <3>2. Shown'[k] = Shown[k]
      BY <1>0, <2>2, <3>1 DEF ShowsChange, Documents
    <3> QED
      BY <2>1, <2>2, <3>2 DEF ShowsChange, AcceptedKept
  <2> QED
    BY <1>1, <1>2, <2>1, <2>2, RemoveStep
<1>3. CASE RenameTemporary(u)
  <2>1. CASE ShowsSame /\ active.exists
    BY <2>1 DEF ShowsSame, AcceptedKept
  <2>2. CASE ShowsAccepted(u) /\ ~active.exists
    <3> SUFFICES ASSUME NEW k \in Keys, accepted'[k] # Unset
                 PROVE  Shown'[k] = accepted'[k]
      BY DEF AcceptedKept
    <3>1. CASE k = request[u][1]
      BY <1>0, <2>2, <3>1 DEF ShowsAccepted, Known, Documents
    <3>2. CASE k # request[u][1]
      <4>1. accepted'[k] = accepted[k]
        BY <1>0, <2>2, <3>2 DEF ShowsAccepted, Known, Documents
      <4>2. \A w \in Users : stage[w] = "rename" => w = u
        BY <1>0, <1>3, OneChanges DEF RenameTemporary
      <4> QED
        BY <2>2, <3>2, <4>1, <4>2 DEF ShowsAccepted, AcceptedKept
    <3> QED
      BY <3>1, <3>2
  <2> QED
    BY <1>3, <2>1, <2>2, RenameStep
<1>4. CASE BeginRestore(u) \/ EndRestore(u)
  <2>1. accepted' = Empty
    BY <1>0, <1>4 DEF BeginRestore, EndRestore, NothingAfterRestore
  <2> QED
    BY <2>1 DEF AcceptedKept, Empty
<1>5. CASE BeginSave(u) \/ EndSave(u)
  BY <1>5, CopyStep, CopyFacts DEF AcceptedKept
<1>6. CASE (\E k \in Keys, v \in Values : BeginSet(u, k, v)) \/ ReadDocument(u)
              \/ WriteTemporary(u)
  BY <1>1, <1>6, QuietSteps
<1> QED
  BY <1>2, <1>3, <1>4, <1>5, <1>6 DEF UserStep

(* A value the user was told of stays, for any users, settings and values  *)
(* (set, read_document and the copies of configuration_files.cpp).         *)
THEOREM AcceptedIsKept ==
    ASSUME Benign
    PROVE  StoreSpec => []AcceptedValuesStay
<1> DEFINE Inv == StoreInv /\ AcceptedKept /\ NothingAfterRestore
<1>1. StoreInit => Inv
  BY StoreStarts DEF StoreInit, AcceptedKept, NothingAfterRestore, Empty
<1>2. Inv /\ [StoreNext]_storeVars => Inv'
  <2> SUFFICES ASSUME Inv, [StoreNext]_storeVars PROVE Inv'
    OBVIOUS
  <2>1. CASE UNCHANGED storeVars
    <3>1. Shown' = Shown
      BY <2>1 DEF storeVars, Shown
    <3> QED
      BY <2>1, <3>1, StoreStep DEF storeVars, AcceptedKept, NothingAfterRestore
  <2>2. ASSUME NEW u \in Users, UserStep(u) PROVE Inv'
    BY <2>2, StoreStep, RestoreStep, AcceptedStep
  <2>3. CASE StorePowerLoss
    BY <2>3, PowerStep DEF StorePowerLoss, AcceptedKept, NothingAfterRestore
  <2> QED
    BY <2>1, <2>2, <2>3 DEF StoreNext, UserStep
<1>3. Inv => AcceptedValuesStay
  <2> SUFFICES ASSUME Inv, holder = NoUser, ~Copying PROVE AcceptedValuesStay
    BY DEF AcceptedValuesStay
  <2>1. \A u \in Users : stage[u] # "rename"
    BY TypeParts, StoreAssumption DEF StoreInv, Held
  <2> QED
    BY <2>1, ShownFile DEF AcceptedKept, AcceptedValuesStay
<1> QED
  BY <1>1, <1>2, <1>3, PTL DEF StoreSpec

-----------------------------------------------------------------------------
(* All the services (MCServices).  A behaviour of MCServices is one of each *)
(* of them, of which at most one does anything.                             *)
THEOREM ServicesAreTheirs ==
    MCSpec =>
        /\ DestinationsSpec /\ RecSpec /\ StoreSpec /\ ConnectivitySpec /\ CanopenSpec
        /\ SdSpec /\ RecordsSpec /\ MediaSpec /\ DecoderSpec
<1>1. MCSpec => DestinationsSpec
  <2>1. MCInit => DestinationsInit
    BY Zenon DEF MCInit
  <2>2. [MCNext]_serviceVars => [DestinationsNext]_destinationVars
    BY DEF MCNext, Only, serviceVars
  <2> QED
    BY <2>1, <2>2, PTL DEF MCSpec, DestinationsSpec
<1>2. MCSpec => RecSpec
  <2>1. MCInit => RecInit
    BY Zenon DEF MCInit
  <2>2. [MCNext]_serviceVars => [RecNext]_recVars
    BY DEF MCNext, Only, serviceVars
  <2> QED
    BY <2>1, <2>2, PTL DEF MCSpec, RecSpec
<1>3. MCSpec => StoreSpec
  <2>1. MCInit => StoreInit
    BY Zenon DEF MCInit
  <2>2. [MCNext]_serviceVars => [StoreNext]_storeVars
    BY DEF MCNext, Only, serviceVars
  <2> QED
    BY <2>1, <2>2, PTL DEF MCSpec, StoreSpec
<1>4. MCSpec => BlufiSpec
  <2>1. MCInit => BlufiInit
    BY Zenon DEF MCInit
  <2>2. [MCNext]_serviceVars => [BlufiNext]_blufiVars
    BY DEF MCNext, Only, serviceVars
  <2> QED
    BY <2>1, <2>2, PTL DEF MCSpec, BlufiSpec
<1>5. MCSpec => StationSpec
  <2>1. MCInit => StationInit
    BY Zenon DEF MCInit
  <2>2. [MCNext]_serviceVars => [StationNext]_stationVars
    BY DEF MCNext, Only, serviceVars
  <2> QED
    BY <2>1, <2>2, PTL DEF MCSpec, StationSpec
<1>6. MCSpec => ApSpec
  <2>1. MCInit => ApInit
    BY Zenon DEF MCInit
  <2>2. [MCNext]_serviceVars => [ApNext]_apVars
    BY DEF MCNext, Only, serviceVars
  <2> QED
    BY <2>1, <2>2, PTL DEF MCSpec, ApSpec
<1>7. MCSpec => CanSpec
  <2>1. MCInit => CanInit
    BY Zenon DEF MCInit
  <2>2. [MCNext]_serviceVars => [CanNext]_canVars
    BY DEF MCNext, Only, serviceVars
  <2> QED
    BY <2>1, <2>2, PTL DEF MCSpec, CanSpec
<1>8. MCSpec => PdoSpec
  <2>1. MCInit => PdoInit
    BY Zenon DEF MCInit
  <2>2. [MCNext]_serviceVars => [PdoNext]_pdoVars
    BY DEF MCNext, Only, serviceVars
  <2> QED
    BY <2>1, <2>2, PTL DEF MCSpec, PdoSpec
<1>9. MCSpec => DictionarySpec
  <2>1. MCInit => DictionaryInit
    BY Zenon DEF MCInit
  <2>2. [MCNext]_serviceVars => [DictionaryNext]_dictionaryVars
    BY DEF MCNext, Only, serviceVars
  <2> QED
    BY <2>1, <2>2, PTL DEF MCSpec, DictionarySpec
<1>10. MCSpec => SdoSpec
  <2>1. MCInit => SdoInit
    BY Zenon DEF MCInit
  <2>2. [MCNext]_serviceVars => [SdoNext]_sdoVars
    BY DEF MCNext, Only, serviceVars
  <2> QED
    BY <2>1, <2>2, PTL DEF MCSpec, SdoSpec
<1>11. MCSpec => DiscoverySpec
  <2>1. MCInit => DiscoveryInit
    BY Zenon DEF MCInit
  <2>2. [MCNext]_serviceVars => [DiscoveryNext]_discoveryVars
    BY DEF MCNext, Only, serviceVars
  <2> QED
    BY <2>1, <2>2, PTL DEF MCSpec, DiscoverySpec
<1>12. MCSpec => SdSpec
  <2>1. MCInit => SdInit
    BY Zenon DEF MCInit
  <2>2. [MCNext]_serviceVars => [SdNext]_sdVars
    BY DEF MCNext, Only, serviceVars
  <2> QED
    BY <2>1, <2>2, PTL DEF MCSpec, SdSpec
<1>13. MCSpec => CountersSpec
  <2>1. MCInit => CountersInit
    BY Zenon DEF MCInit
  <2>2. [MCNext]_serviceVars => [CountersNext]_counterVars
    BY DEF MCNext, Only, serviceVars
  <2> QED
    BY <2>1, <2>2, PTL DEF MCSpec, CountersSpec
<1>14. MCSpec => IdentitySpec
  <2>1. MCInit => IdentityInit
    BY Zenon DEF MCInit
  <2>2. [MCNext]_serviceVars => [IdentityNext]_identityVars
    BY DEF MCNext, Only, serviceVars
  <2> QED
    BY <2>1, <2>2, PTL DEF MCSpec, IdentitySpec
<1>15. MCSpec => VideoSpec
  <2>1. MCInit => VideoInit
    BY Zenon DEF MCInit
  <2>2. [MCNext]_serviceVars => [VideoNext]_videoVars
    BY DEF MCNext, Only, serviceVars
  <2> QED
    BY <2>1, <2>2, PTL DEF MCSpec, VideoSpec
<1>16. MCSpec => LiveSpec
  <2>1. MCInit => LiveInit
    BY Zenon DEF MCInit
  <2>2. [MCNext]_serviceVars => [LiveNext]_liveVars
    BY DEF MCNext, Only, serviceVars
  <2> QED
    BY <2>1, <2>2, PTL DEF MCSpec, LiveSpec
<1>17. MCSpec => PreviewSpec
  <2>1. MCInit => PreviewInit
    BY Zenon DEF MCInit
  <2>2. [MCNext]_serviceVars => [PreviewNext]_previewVars
    BY DEF MCNext, Only, serviceVars
  <2> QED
    BY <2>1, <2>2, PTL DEF MCSpec, PreviewSpec
<1>18. MCSpec => DecoderSpec
  <2>1. MCInit => DecoderInit
    BY Zenon DEF MCInit
  <2>2. [MCNext]_serviceVars => [DecoderNext]_decoderVars
    BY DEF MCNext, Only, serviceVars
  <2> QED
    BY <2>1, <2>2, PTL DEF MCSpec, DecoderSpec
<1> QED
  BY <1>1, <1>2, <1>3, <1>4, <1>5, <1>6, <1>7, <1>8, <1>9,
     <1>10, <1>11, <1>12, <1>13, <1>14, <1>15, <1>16, <1>17, <1>18, Zenon
     DEF ConnectivitySpec, CanopenSpec, RecordsSpec, MediaSpec

(* The invariants of the services say what the types are.                   *)
LEMMA InvariantTypes ==
    ASSUME ~ReportsOverlap, ~FilesChange, Benign,
           ~CommandsOverlap, ~LateEvents, ~AcceptsConnected,
           {"request", "password", "power"} \cap StationFaults = {},
           ~BurstsOverlap, ~FieldRaces, ~QuickRemovals, "unmount" \notin SdFaults,
           PdoCount \in 1..4, 1 \notin Timers, ~ClockSteps, ~QuickSegments, MaxWall # 0,
           ~LingersOn, ~WelcomesLost, "create" \notin LiveFaults, ~ArbiterRaces
    PROVE  /\ DestinationsSpec => []DestinationsTypeOK
           /\ RecSpec => []RecTypeOK
           /\ StoreSpec => []StoreTypeOK
           /\ StationSpec => []StationTypeOK
           /\ ApSpec => []ApTypeOK
           /\ DiscoverySpec => []DiscoveryTypeOK
           /\ CanSpec => []CanTypeOK
           /\ PdoSpec => []PdoTypeOK
           /\ SdSpec => []SdTypeOK
           /\ VideoSpec => []VideoTypeOK
           /\ LiveSpec => []LiveTypeOK
           /\ PreviewSpec => []PreviewTypeOK
<1>1. DestinationsSpec => []DestinationsTypeOK
  <2>1. DestinationsInv => DestinationsTypeOK
    BY Zenon DEF DestinationsInv
  <2>2. DestinationsInit => DestinationsInv
    BY DestinationsStart
  <2>3. DestinationsInv /\ [DestinationsNext]_destinationVars => DestinationsInv'
    BY DestinationsStep
  <2> QED
    BY <2>1, <2>2, <2>3, PTL DEF DestinationsSpec
<1>2. RecSpec => []RecTypeOK
  <2>1. RecInv => RecTypeOK
    BY Zenon DEF RecInv
  <2>2. RecInit => RecInv
    BY RecStarts
  <2>3. RecInv /\ [RecNext]_recVars => RecInv'
    BY RecStep
  <2> QED
    BY <2>1, <2>2, <2>3, PTL DEF RecSpec
<1>3. StoreSpec => []StoreTypeOK
  <2>1. StoreInv => StoreTypeOK
    BY Zenon DEF StoreInv
  <2>2. StoreInit => StoreInv
    BY StoreStarts
  <2>3. StoreInv /\ [StoreNext]_storeVars => StoreInv'
    BY StoreStep
  <2> QED
    BY <2>1, <2>2, <2>3, PTL DEF StoreSpec
<1>4. StationSpec => []StationTypeOK
  <2>1. StationInv => StationTypeOK
    BY Zenon DEF StationInv
  <2>2. StationInit => StationInv
    BY StationStarts
  <2>3. StationInv /\ [StationNext]_stationVars => StationInv'
    BY StationStep
  <2> QED
    BY <2>1, <2>2, <2>3, PTL DEF StationSpec
<1>5. ApSpec => []ApTypeOK
  <2>1. ApInv => ApTypeOK
    BY Zenon DEF ApInv
  <2>2. ApInit => ApInv
    BY ApStarts
  <2>3. ApInv /\ [ApNext]_apVars => ApInv'
    BY ApStep
  <2> QED
    BY <2>1, <2>2, <2>3, PTL DEF ApSpec
<1>6. DiscoverySpec => []DiscoveryTypeOK
  <2>1. DiscoveryInv => DiscoveryTypeOK
    BY Zenon DEF DiscoveryInv
  <2>2. DiscoveryInit => DiscoveryInv
    BY DiscoveryStarts
  <2>3. DiscoveryInv /\ [DiscoveryNext]_discoveryVars => DiscoveryInv'
    BY DiscoveryStep
  <2> QED
    BY <2>1, <2>2, <2>3, PTL DEF DiscoverySpec
<1>7. CanSpec => []CanTypeOK
  <2>1. CanInv => CanTypeOK
    BY Zenon DEF CanInv
  <2>2. CanInit => CanInv
    BY CanStarts
  <2>3. CanInv /\ [CanNext]_canVars => CanInv'
    BY CanStep
  <2> QED
    BY <2>1, <2>2, <2>3, PTL DEF CanSpec
<1>8. PdoSpec => []PdoTypeOK
  <2>1. PdoInv => PdoTypeOK
    BY Zenon DEF PdoInv
  <2>2. PdoInit => PdoInv
    BY PdoStarts
  <2>3. PdoInv /\ [PdoNext]_pdoVars => PdoInv'
    BY PdoStep
  <2> QED
    BY <2>1, <2>2, <2>3, PTL DEF PdoSpec
<1>9. SdSpec => []SdTypeOK
  <2>1. SdInv => SdTypeOK
    BY Zenon DEF SdInv
  <2>2. SdInit => SdInv
    BY SdStart
  <2>3. SdInv /\ [SdNext]_sdVars => SdInv'
    BY SdStep
  <2> QED
    BY <2>1, <2>2, <2>3, PTL DEF SdSpec
<1>10. VideoSpec => []VideoTypeOK
  <2>1. VideoInv => VideoTypeOK
    BY Zenon DEF VideoInv
  <2>2. VideoInit => VideoInv
    BY VideoStarts
  <2>3. VideoInv /\ [VideoNext]_videoVars => VideoInv'
    BY VideoStep
  <2> QED
    BY <2>1, <2>2, <2>3, PTL DEF VideoSpec
<1>11. LiveSpec => []LiveTypeOK
  <2>1. LiveInv => LiveTypeOK
    BY Zenon DEF LiveInv
  <2>2. LiveInit => LiveInv
    BY LiveStarts
  <2>3. LiveInv /\ [LiveNext]_liveVars => LiveInv'
    BY LiveStep
  <2> QED
    BY <2>1, <2>2, <2>3, PTL DEF LiveSpec
<1>12. PreviewSpec => []PreviewTypeOK
  <2>1. PreviewInv => PreviewTypeOK
    BY Zenon DEF PreviewInv
  <2>2. PreviewInit => PreviewInv
    BY PreviewStarts
  <2>3. PreviewInv /\ [PreviewNext]_previewVars => PreviewInv'
    BY PreviewStep
  <2> QED
    BY <2>1, <2>2, <2>3, PTL DEF PreviewSpec
<1> QED
  BY <1>1, <1>2, <1>3, <1>4, <1>5, <1>6, <1>7, <1>8, <1>9, <1>10, <1>11, <1>12

(* The variables of every service keep their types and bounds, whichever of *)
(* them runs: for every value of the constants under the assumptions of the *)
(* services' own theorems.  Provisioning, the SDO client, the dictionary,   *)
(* the access point, the hour meters and the identity need none.            *)
THEOREM ServiceTypes ==
    ASSUME ~ReportsOverlap, ~FilesChange, Benign,
           ~CommandsOverlap, ~LateEvents, ~AcceptsConnected,
           {"request", "password", "power"} \cap StationFaults = {},
           ~BurstsOverlap, ~FieldRaces, ~QuickRemovals, "unmount" \notin SdFaults,
           PdoCount \in 1..4, 1 \notin Timers, ~ClockSteps, ~QuickSegments, MaxWall # 0,
           ~LingersOn, ~WelcomesLost, "create" \notin LiveFaults, ~ArbiterRaces,
           ~BackToBack, ~HeaderSilence
    PROVE  MCSpec => []ServiceTypesOK
<1> DEFINE Named ==
      part \in {"destinations", "records", "store", "blufi", "station", "accesspoint",
                "node", "pdo", "dictionary", "sdo", "discovery", "card", "counters", "identity",
                "videos", "live", "preview", "decoder"}
<1>1. MCSpec => []Named
  <2>1. MCInit => Named
    BY Zenon DEF MCInit
  <2>2. Named /\ [MCNext]_serviceVars => Named'
    <3>1. [MCNext]_serviceVars => UNCHANGED part
      BY Zenon DEF MCNext, Only, serviceVars
    <3> QED
      BY <3>1
  <2> QED
    BY <2>1, <2>2, PTL DEF MCSpec
<1>2. MCSpec => []DestinationsTypeOK /\ []RecTypeOK /\ []StoreTypeOK /\ []SdTypeOK
  BY ServicesAreTheirs, InvariantTypes, Zenon
<1>3. MCSpec => []StationTypeOK /\ []ApTypeOK /\ []DiscoveryTypeOK /\ []BlufiTypeOK
  BY ServicesAreTheirs, InvariantTypes, BlufiTypes, Zenon DEF ConnectivitySpec
<1>4. MCSpec => []CanTypeOK /\ []PdoTypeOK /\ []DictionaryTypeOK /\ []SdoTypeOK
  BY ServicesAreTheirs, InvariantTypes, DictionaryTypes, SdoTypes, Zenon DEF CanopenSpec
<1>5. MCSpec => []CountersTypeOK /\ []IdentityTypeOK
  BY ServicesAreTheirs, CountersTypesHold, IdentityTypesHold, Zenon DEF RecordsSpec
<1>6. MCSpec => []VideoTypeOK /\ []LiveTypeOK /\ []PreviewTypeOK
  BY ServicesAreTheirs, InvariantTypes, Zenon DEF MediaSpec
<1>7. MCSpec => []DecoderTypeOK
  BY ServicesAreTheirs, DecoderTypes, Zenon
<1>8. /\ Named
      /\ DestinationsTypeOK /\ RecTypeOK /\ StoreTypeOK /\ SdTypeOK
      /\ StationTypeOK /\ ApTypeOK /\ DiscoveryTypeOK /\ BlufiTypeOK
      /\ CanTypeOK /\ PdoTypeOK /\ DictionaryTypeOK /\ SdoTypeOK
      /\ CountersTypeOK /\ IdentityTypeOK /\ VideoTypeOK /\ LiveTypeOK /\ PreviewTypeOK
      /\ DecoderTypeOK
      => ServiceTypesOK
  BY DEF ServiceTypesOK
<1> QED
  BY <1>1, <1>2, <1>3, <1>4, <1>5, <1>6, <1>7, <1>8, PTL

(* What the services promise, together: everything that is checked of them  *)
(* one at a time holds for every value of the constants under the           *)
(* assumptions of the services' own theorems.                               *)
THEOREM ServicesServe ==
    ASSUME ~ReportsOverlap, ~FilesChange, Benign,
           ~CommandsOverlap, ~LateEvents, ~AcceptsConnected,
           {"request", "password", "power"} \cap StationFaults = {},
           ~BurstsOverlap, ~FieldRaces, ~QuickRemovals, "unmount" \notin SdFaults,
           PdoCount \in 1..4, 1 \notin Timers, ~ClockSteps, ~QuickSegments, MaxWall # 0,
           ~LingersOn, ~WelcomesLost, "create" \notin LiveFaults, ~ArbiterRaces,
           ~BackToBack, ~HeaderSilence,
           Faults \subseteq {"allocate"}, ~LateAnswers, ~Overtakes,
           ~StaleEvents, ~Floods, "read" \notin CounterFaults,
           ~SettersOverlap, "serial" \notin IdentityFaults
    PROVE  MCSpec =>
               /\ []DestinationsAgree /\ []RecordsDelivered /\ []AcceptedValuesStay
               /\ []ConnectivityServes /\ []CanServes /\ []SdCardServes /\ []MediaServes
               /\ []RecordsStayTrue /\ []DecoderFaithful
               /\ ImplementsSettings
<1>1. /\ DestinationsSpec => []DestinationsAgree
      /\ RecSpec => []RecordsDelivered
      /\ StoreSpec => []AcceptedValuesStay
      /\ StoreSpec => ImplementsSettings
  BY DestinationsAgreement, ControllerGetsRecords, AcceptedIsKept, StoreImplementsSettings
<1>2. /\ ConnectivitySpec => []ConnectivityServes
      /\ CanopenSpec => []CanServes
      /\ SdSpec => []SdCardServes
  BY ConnectivityIsServed, CanopenServes, SdCardInStep
<1>3. /\ MediaSpec => []MediaServes
      /\ RecordsSpec => []RecordsStayTrue
      /\ DecoderSpec => []DecoderFaithful
  BY MediaIsServed, RecordsAreTrue, FramesAreFaithful
<1> QED
  BY <1>1, <1>2, <1>3, ServicesAreTheirs, Zenon
=============================================================================
