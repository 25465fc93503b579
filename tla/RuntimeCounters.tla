--------------------------- MODULE RuntimeCounters ---------------------------
(***************************************************************************)
(* The machine's hour meters: seconds powered on and seconds played.  One  *)
(* task counts them from the tick counter, saves the power-on time every   *)
(* second, and takes the play changes and save requests of other tasks     *)
(* from a queue, each stamped with the time at which it was sent.  The     *)
(* totals are read from flash when the task starts and outlive a loss of   *)
(* power.                                                                  *)
(***************************************************************************)
EXTENDS Naturals, Sequences

CONSTANTS
    Second,         \* ticks to a second
    MaxTicks,       \* bound: ticks with power, over all starts
    EventCapacity,  \* places in the queue of events
    StaleEvents,    \* ticks may pass while an event waits in the queue
    Floods,         \* events may be sent to a full queue, which drops them
    CounterFaults   \* what may fail: "read" at a start, "write" of a total

ASSUME CountersAssumption ==
    /\ Second \in Nat \ {0} /\ MaxTicks \in Nat /\ EventCapacity \in Nat \ {0}
    /\ StaleEvents \in BOOLEAN /\ Floods \in BOOLEAN
    /\ CounterFaults \subseteq {"read", "write"}

VARIABLES
    tick,           \* ticks since power came
    powered,        \* ticks with power since the machine was made
    played,         \* of those, the ticks at which a file was playing
    playing,        \* the controller plays a file
    counterEvents,  \* the queue of the task
    taskAt,         \* the task: not started, at the top of its loop or receiving
    nextSave,       \* when the task saves the power-on time again
    meter,          \* the totals and the marks the task keeps in memory
    flash           \* the totals as saved

counterVars == <<tick, powered, played, playing, counterEvents, taskAt, nextSave, meter, flash>>

Meter == [power : Nat, machine : Nat, baseline : Nat, running : BOOLEAN, started : Nat]
BlankMeter == [power |-> 0, machine |-> 0, baseline |-> 0, running |-> FALSE, started |-> 0]

CountersTypeOK ==
    /\ tick \in 0 .. MaxTicks /\ powered \in 0 .. MaxTicks /\ played \in 0 .. MaxTicks
    /\ playing \in BOOLEAN
    /\ counterEvents \in Seq([kind : {"play", "persist"}, running : BOOLEAN, at : Nat])
    /\ Len(counterEvents) <= EventCapacity
    /\ taskAt \in {"off", "top", "receive"} /\ nextSave \in Nat
    /\ meter \in Meter /\ flash \in [power : Nat, machine : Nat]

CountersInit ==
    /\ tick = 0 /\ powered = 0 /\ played = 0 /\ playing = FALSE
    /\ counterEvents = <<>> /\ taskAt = "off" /\ nextSave = 0
    /\ meter = BlankMeter /\ flash = [power |-> 0, machine |-> 0]

(* A clock that went backwards counts as no time.                           *)
whole_elapsed_seconds(start, end) == IF end < start THEN 0 ELSE (end - start) \div Second

(* The part of a second over is forgotten.                                  *)
power_counted(m, now) ==
    [m EXCEPT !.power = @ + whole_elapsed_seconds(m.baseline, now), !.baseline = now]

(* What flash may hold of a total once it was written: a write or commit    *)
(* that fails leaves either value, and is only logged.                      *)
WriteOutcomes(old, new) == IF "write" \in CounterFaults THEN {old, new} ELSE {new}

----------------------------------------------------------------------------
Enqueue(event) ==
    /\ Len(counterEvents) < EventCapacity \/ Floods
    /\ counterEvents' = IF taskAt # "off" /\ Len(counterEvents) < EventCapacity
                        THEN Append(counterEvents, event) ELSE counterEvents

notify_runtime_play_state(running) ==
    /\ playing' = running
    /\ Enqueue([kind |-> "play", running |-> running, at |-> tick])
    /\ UNCHANGED <<tick, powered, played, taskAt, nextSave, meter, flash>>

request_runtime_persistence ==
    /\ Enqueue([kind |-> "persist", running |-> FALSE, at |-> tick])
    /\ UNCHANGED <<tick, powered, played, playing, taskAt, nextSave, meter, flash>>

(* The task starts: a total that cannot be read counts as zero.  The next   *)
(* turn of the loop saves.                                                  *)
initialize ==
    /\ taskAt = "off"
    /\ \E p \in {flash.power} \cup (IF "read" \in CounterFaults THEN {0} ELSE {}),
          m \in {flash.machine} \cup (IF "read" \in CounterFaults THEN {0} ELSE {}) :
           meter' = [BlankMeter EXCEPT !.power = p, !.machine = m, !.baseline = tick]
    /\ taskAt' = "top" /\ nextSave' = tick
    /\ UNCHANGED <<tick, powered, played, playing, counterEvents, flash>>

save_power_on(now) ==
    /\ meter' = power_counted(meter, now)
    /\ \E p \in WriteOutcomes(flash.power, power_counted(meter, now).power) :
           flash' = [flash EXCEPT !.power = p]

LoopTop ==
    /\ taskAt = "top" /\ taskAt' = "receive"
    /\ IF tick >= nextSave
       THEN save_power_on(tick) /\ nextSave' = tick + Second
       ELSE UNCHANGED <<meter, flash, nextSave>>
    /\ UNCHANGED <<tick, powered, played, playing, counterEvents>>

ReceiveTimesOut ==
    /\ taskAt = "receive" /\ counterEvents = <<>> /\ tick >= nextSave
    /\ taskAt' = "top"
    /\ UNCHANGED <<tick, powered, played, playing, counterEvents, nextSave, meter, flash>>

play_running_changed(running, now) ==
    LET m == power_counted(meter, now)
        total == m.machine + whole_elapsed_seconds(m.started, now)
    IN  CASE running /\ ~m.running ->
                 /\ meter' = [m EXCEPT !.running = TRUE, !.started = now]
                 /\ \E p \in WriteOutcomes(flash.power, m.power) :
                        flash' = [flash EXCEPT !.power = p]
          [] ~running /\ m.running ->
                 /\ meter' = [m EXCEPT !.running = FALSE, !.machine = total]
                 /\ \E p \in WriteOutcomes(flash.power, m.power),
                       h \in WriteOutcomes(flash.machine, total) :
                        flash' = [power |-> p, machine |-> h]
          [] OTHER -> save_power_on(now)

ReceiveEvent ==
    /\ taskAt = "receive" /\ counterEvents # <<>>
    /\ counterEvents' = Tail(counterEvents) /\ taskAt' = "top"
    /\ LET event == Head(counterEvents)
       IN  IF event.kind = "play"
           THEN play_running_changed(event.running, event.at)
           ELSE save_power_on(event.at)
    /\ UNCHANGED <<tick, powered, played, playing, nextSave>>

Tick ==
    /\ powered < MaxTicks /\ (counterEvents = <<>> \/ StaleEvents)
    /\ tick' = tick + 1 /\ powered' = powered + 1
    /\ played' = IF playing THEN played + 1 ELSE played
    /\ UNCHANGED <<playing, counterEvents, taskAt, nextSave, meter, flash>>

(* Power goes and comes back: what is not in flash is gone.                 *)
PowerLost ==
    /\ tick' = 0 /\ playing' = FALSE /\ counterEvents' = <<>> /\ taskAt' = "off"
    /\ nextSave' = 0 /\ meter' = BlankMeter
    /\ UNCHANGED <<powered, played, flash>>

CountersNext ==
    \/ \E running \in BOOLEAN : notify_runtime_play_state(running)
    \/ request_runtime_persistence
    \/ initialize \/ LoopTop \/ ReceiveTimesOut \/ ReceiveEvent
    \/ Tick \/ PowerLost

CountersSpec == CountersInit /\ [][CountersNext]_counterVars

----------------------------------------------------------------------------
(* The meters are honest (runtime_counters.cpp): over any number of starts, *)
(* periodic saves, requested saves and play changes, flash never shows more *)
(* seconds of power or of playing than there were, and the task never holds *)
(* less than flash does, so that no later save takes hours back.            *)
CountersHonest ==
    /\ flash.power * Second <= powered
    /\ flash.machine * Second <= played
    /\ taskAt # "off" => meter.power >= flash.power /\ meter.machine >= flash.machine
=============================================================================
