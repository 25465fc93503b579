--------------------------- MODULE MachineIdentity ---------------------------
(***************************************************************************)
(* What a machine remembers of itself: a serial number that may be set     *)
(* once, and the time of its first start.  Three tasks (the one that works *)
(* for all TCP clients, the USB host's and the controller's) read and set  *)
(* the serial number and clear the first-boot mark, each holding one of a  *)
(* few operation slots; the counter task records the mark.  Both are NVS   *)
(* keys: a change is visible to every reader at once and is kept over a    *)
(* restart for certain only when its commit succeeded.                     *)
(***************************************************************************)
EXTENDS Naturals, FiniteSets

CONSTANTS
    Askers,             \* the tasks that carry out commands
    Serials, NoValue,   \* serial numbers of a valid form; an absent NVS key
    OperationSlots,     \* operations admitted at once
    SettersOverlap,     \* two tasks may set the serial number at once
    IdentityFaults      \* what may fail: "set", "commit" of any change,
                        \* "serial" or "first": the reading of that key

ASSUME IdentityAssumption ==
    /\ NoValue \notin Serials /\ OperationSlots \in Nat /\ SettersOverlap \in BOOLEAN
    /\ IdentityFaults \subseteq {"set", "commit", "serial", "first"}

NvsKeys == {"serial", "first"}
\* The wall clock before and after a host set it.
Clocks == {"unset", "set"}

VARIABLES
    visible, kept,  \* the NVS keys as read now, and as flash has them
    doing,          \* per task: the command it is in and how far
    slots,          \* operation slots left
    clock, recording,   \* the wall clock; the mark the counter task is to record
    granted, recorded   \* the serial number a host was told is set; the mark recorded

identityVars == <<visible, kept, doing, slots, clock, recording, granted, recorded>>

Quiet == [at |-> "idle", value |-> NoValue]
Recordings == [at : {"idle", "read", "write"}, value : Clocks \cup {NoValue}]

IdentityTypeOK ==
    /\ \A nvs \in {visible, kept} : /\ nvs.serial \in Serials \cup {NoValue}
                                    /\ nvs.first \in Clocks \cup {NoValue}
    /\ doing \in [Askers -> [at : {"idle", "check", "write", "get", "erase"},
                             value : Serials \cup {NoValue}]]
    /\ slots \in 0 .. OperationSlots
    /\ clock \in Clocks /\ recording \in Recordings
    /\ granted \in Serials \cup {NoValue} /\ recorded \in Clocks \cup {NoValue}

\* The counter task records the mark as soon as it starts.
IdentityInit ==
    /\ visible = [k \in NvsKeys |-> NoValue] /\ kept = visible
    /\ doing = [a \in Askers |-> Quiet] /\ slots = OperationSlots
    /\ clock = "unset" /\ recording = [at |-> "read", value |-> "unset"]
    /\ granted = NoValue /\ recorded = NoValue

----------------------------------------------------------------------------
(* The NVS adapter.                                                         *)

nvs_read(key) ==
    {IF visible[key] = NoValue THEN "missing" ELSE "found"}
        \cup (IF key \in IdentityFaults THEN {"failure"} ELSE {})

(* A change is refused, made, or made and not committed.                    *)
change(key, value, succeeded) ==
    IF succeeded
    THEN /\ visible' = [visible EXCEPT ![key] = value]
         /\ kept' = [kept EXCEPT ![key] = value]
    ELSE \/ "set" \in IdentityFaults /\ UNCHANGED <<visible, kept>>
         \/ "commit" \in IdentityFaults /\ visible' = [visible EXCEPT ![key] = value]
                                       /\ UNCHANGED kept

----------------------------------------------------------------------------
(* The commands.  One of a wrong form, length or alphabet is answered at    *)
(* once and one that finds no slot is answered "busy"; neither does more.   *)

admit_operation(a, step, value) ==
    /\ doing[a] = Quiet /\ slots > 0
    /\ slots' = slots - 1
    /\ doing' = [doing EXCEPT ![a] = [at |-> step, value |-> value]]
    /\ UNCHANGED <<visible, kept, clock, recording, granted, recorded>>

complete_operation(a) == doing' = [doing EXCEPT ![a] = Quiet] /\ slots' = slots + 1

handle_set(a, serial) ==
    /\ SettersOverlap \/ \A b \in Askers : doing[b].at \notin {"check", "write"}
    /\ admit_operation(a, "check", serial)

(* Only a serial number that was read stands in the way of a new one.       *)
CheckExisting(a) ==
    /\ doing[a].at = "check"
    /\ \E result \in nvs_read("serial") :
           IF result = "found" THEN complete_operation(a)
           ELSE doing' = [doing EXCEPT ![a].at = "write"] /\ UNCHANGED slots
    /\ UNCHANGED <<visible, kept, clock, recording, granted, recorded>>

write_serial(a) ==
    /\ doing[a].at = "write"
    /\ \E succeeded \in BOOLEAN :
           /\ change("serial", doing[a].value, succeeded)
           /\ granted' = IF succeeded /\ granted = NoValue THEN doing[a].value ELSE granted
    /\ complete_operation(a)
    /\ UNCHANGED <<clock, recording, recorded>>

(* Reading a value, or all of the runtime's, only answers.                  *)
handle_get(a) == admit_operation(a, "get", NoValue)

AnswerGet(a) ==
    /\ doing[a].at = "get" /\ complete_operation(a)
    /\ UNCHANGED <<visible, kept, clock, recording, granted, recorded>>

handle_clear_first_boot(a) == admit_operation(a, "erase", NoValue)

erase_first_boot(a) ==
    /\ doing[a].at = "erase"
    /\ \/ visible.first = NoValue /\ UNCHANGED <<visible, kept, recorded>>
       \/ /\ \E succeeded \in BOOLEAN : change("first", NoValue, succeeded)
          /\ recorded' = IF visible'.first = NoValue THEN NoValue ELSE recorded
    /\ complete_operation(a)
    /\ UNCHANGED <<clock, recording, granted>>

----------------------------------------------------------------------------
(* A host sets the wall clock, which asks for the mark to be recorded.      *)
set_time ==
    /\ clock' = "set" /\ recording.at = "idle"
    /\ recording' = [at |-> "read", value |-> "set"]
    /\ UNCHANGED <<visible, kept, doing, slots, granted, recorded>>

(* Mutant: a mark that cannot be read is taken for a missing one.           *)
first_boot_unread(result) == result # "found"

first_boot_missing(result) == result = "missing"

record_first_boot ==
    /\ recording.at = "read"
    /\ \E result \in nvs_read("first") :
           recording' = [recording EXCEPT !.at = IF first_boot_missing(result)
                                                 THEN "write" ELSE "idle"]
    /\ UNCHANGED <<visible, kept, doing, slots, clock, granted, recorded>>

write_first_boot ==
    /\ recording.at = "write" /\ recording' = [recording EXCEPT !.at = "idle"]
    /\ \E succeeded \in BOOLEAN :
           /\ change("first", recording.value, succeeded)
           /\ recorded' = IF succeeded /\ recorded = NoValue THEN recording.value ELSE recorded
    /\ UNCHANGED <<doing, slots, clock, granted>>

(* A change that was not committed may or may not have reached flash.       *)
PowerCycles ==
    /\ \E survives \in [NvsKeys -> BOOLEAN] :
           visible' = [k \in NvsKeys |-> IF survives[k] THEN visible[k] ELSE kept[k]]
    /\ kept' = visible' /\ recorded' = IF visible'.first = NoValue THEN NoValue ELSE recorded
    /\ doing' = [a \in Askers |-> Quiet] /\ slots' = OperationSlots
    /\ clock' = "unset" /\ recording' = [at |-> "read", value |-> "unset"]
    /\ UNCHANGED granted

IdentityNext ==
    \/ \E a \in Askers :
           \/ \E serial \in Serials : handle_set(a, serial)
           \/ CheckExisting(a) \/ write_serial(a)
           \/ handle_get(a) \/ AnswerGet(a)
           \/ handle_clear_first_boot(a) \/ erase_first_boot(a)
    \/ set_time \/ record_first_boot \/ write_first_boot
    \/ PowerCycles

IdentitySpec == IdentityInit /\ [][IdentityNext]_identityVars

----------------------------------------------------------------------------
(* The machine keeps its identity (serial_number.cpp, runtime_counters.cpp):*)
(* a serial number that a host was told is set is the serial number from    *)
(* then on, whatever later commands, failed writes and power cycles do; a   *)
(* recorded first-boot mark is replaced only after a command cleared it;    *)
(* and every way out of a command gives its operation slot back.            *)
IdentityKept ==
    /\ granted # NoValue => visible.serial = granted /\ kept.serial = granted
    /\ recorded # NoValue => visible.first = recorded
    /\ slots + Cardinality({a \in Askers : doing[a] # Quiet}) = OperationSlots
=============================================================================
