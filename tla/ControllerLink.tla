--------------------------- MODULE ControllerLink ---------------------------
(***************************************************************************)
(* The task that owns the UART to the motion controller, the queue of      *)
(* frames other tasks hand to it, and the inboxes from which one task per  *)
(* family takes what the controller sends.  A frame is its kind, a queue   *)
(* of equal frames its length.  Time is counted in the 10 ms the code      *)
(* keeps between two writes and passes between any two steps; a deadline   *)
(* is the time left to it, negative when it has passed.                    *)
(***************************************************************************)
EXTENDS Integers, Sequences, SequencesExt

CONSTANTS
    Capacity,       \* maximum_pending_items, maximum_pending_frames
    WriteInterval,  \* write_interval_milliseconds
    StatusPeriod, DiagnosticPeriod,   \* periods of the two queries
    AlarmPeriod,    \* inactivity_period_milliseconds
    SlowWrites,     \* TRUE: a UART write may take longer than the interval
    HeardKinds,     \* bound: the kinds of frame the controller sends
    Lateness        \* bound: how late the task may come to a deadline, see Later

(* The families with an inbox of their own and the commands the task        *)
(* answers itself.                                                          *)
Families == {"firmware", "configuration", "factory", "play"}
LocalKinds == {"serial", "upgrade", "record"}
Kinds == Families \cup LocalKinds \cup {"status", "diagnostic", "version", "text"}
Queries == {"status", "diagnostic"}
Period(q) == IF q = "status" THEN StatusPeriod ELSE DiagnosticPeriod

ASSUME LinkAssumption ==
    /\ {Capacity, WriteInterval, StatusPeriod, DiagnosticPeriod, AlarmPeriod} \subseteq Nat \ {0}
    /\ SlowWrites \in BOOLEAN /\ Lateness \in Nat \ {0} /\ HeardKinds \subseteq Kinds

VARIABLES
    step,       \* where controller_command_task is
    decoded,    \* frames read and not dispatched yet
    outgoing,   \* frames in the queue of the forwarder
    writeIn,    \* time until the forwarder gives out the next
    queryIn,    \* query -> time until its next opportunity
    alarmIn,    \* time until silence becomes an alarm
    inbox,      \* family -> frames in its inbox
    takeIn,     \* family -> time until its task takes the next
    local,      \* local commands waiting
    time,       \* history: the time, modulo the periods of the queries
    unreported, \* history: time without a valid frame that no alarm told of
    watched     \* history: the place in outgoing of one accepted frame, or 0

linkVars == <<step, decoded, outgoing, writeIn, queryIn, alarmIn, inbox, takeIn,
              local, time, unreported, watched>>

LinkTypeOK ==
    /\ step \in {"off", "drain", "write", "query", "alarm", "read", "dispatch", "local"}
    /\ decoded \in Seq(Kinds)
    /\ outgoing \in 0..Capacity /\ watched \in 0..outgoing
    /\ writeIn \in 0..WriteInterval
    /\ \A q \in Queries : queryIn[q] \in -Lateness..Period(q)
    /\ alarmIn \in -Lateness..AlarmPeriod
    /\ inbox \in [Families -> 0..Capacity]
    /\ takeIn \in [Families -> 0..WriteInterval]
    /\ local \in Seq(LocalKinds) /\ Len(local) <= Capacity
    /\ time \in 0..StatusPeriod * DiagnosticPeriod - 1
    /\ unreported \in Nat

LinkInit ==
    /\ step = "off" /\ decoded = <<>>
    /\ outgoing = 0 /\ writeIn = 0
    /\ queryIn = [q \in Queries |-> 0] /\ alarmIn = AlarmPeriod
    /\ inbox = [f \in Families |-> 0] /\ takeIn = [f \in Families |-> 0]
    /\ local = <<>>
    /\ time = 0 /\ unreported = 0 /\ watched = 0

(* Time passes a deadline; beyond Lateness a period is folded away.         *)
Later(left, period) == IF left > -Lateness THEN left - 1 ELSE left + period - 1
Less(t) == IF t = 0 THEN 0 ELSE t - 1

(* The boot creates the task; nothing is counted before.                    *)
LinkStart ==
    /\ step = "off"
    /\ step' = "drain"
    /\ UNCHANGED <<decoded, outgoing, writeIn, queryIn, alarmIn, inbox, takeIn,
                   local, time, unreported, watched>>

LinkTick ==
    /\ step # "off"
    /\ step = "write" => SlowWrites
    /\ writeIn' = Less(writeIn)
    /\ takeIn' = [f \in Families |-> Less(takeIn[f])]
    /\ queryIn' = [q \in Queries |-> Later(queryIn[q], Period(q))]
    /\ alarmIn' = Later(alarmIn, AlarmPeriod)
    /\ time' = (time + 1) % (StatusPeriod * DiagnosticPeriod)
    /\ unreported' = unreported + alarmIn - alarmIn'
    /\ UNCHANGED <<step, decoded, outgoing, inbox, local, watched>>

-----------------------------------------------------------------------------
(* Mutants: the bound is tested too late; a frame waits for nothing.        *)
ForwardOneTooMany(watch) ==
    /\ step # "off" /\ outgoing <= Capacity
    /\ outgoing' = outgoing + 1
    /\ UNCHANGED <<step, decoded, writeIn, queryIn, alarmIn, inbox, takeIn,
                   local, time, unreported, watched>>
WriteReadyAtOnce == outgoing > 0

(* Any task hands over an encoded frame.  One that is too large, or finds   *)
(* the queue full or not there yet, is dropped and changes nothing.         *)
Forward(watch) ==
    /\ step # "off" /\ outgoing < Capacity
    /\ outgoing' = outgoing + 1
    /\ watched' = IF watch /\ watched = 0 THEN outgoing + 1 ELSE watched
    /\ UNCHANGED <<step, decoded, writeIn, queryIn, alarmIn, inbox, takeIn,
                   local, time, unreported>>

(* drain_forwarded_frames writes while a frame is ready; what becomes of    *)
(* the write is only logged.                                                *)
WriteReady == outgoing > 0 /\ writeIn = 0

DrainTake ==
    /\ step = "drain" /\ WriteReady
    /\ outgoing' = outgoing - 1 /\ watched' = Less(watched)
    /\ writeIn' = WriteInterval
    /\ step' = "write"
    /\ UNCHANGED <<decoded, queryIn, alarmIn, inbox, takeIn, local, time,
                   unreported>>

DrainWritten ==
    /\ step = "write"
    /\ step' = "drain"
    /\ UNCHANGED <<decoded, outgoing, writeIn, queryIn, alarmIn, inbox, takeIn,
                   local, time, unreported, watched>>

Drained ==
    /\ step = "drain" /\ ~WriteReady
    /\ step' = "query"
    /\ UNCHANGED <<decoded, outgoing, writeIn, queryIn, alarmIn, inbox, takeIn,
                   local, time, unreported, watched>>

(* consume_due_opportunity, and the same sum for the alarms: the deadline   *)
(* moves by whole periods until it lies ahead.                              *)
Missed(left, period) == IF left > 0 THEN 0 ELSE (-left) \div period + 1
Advanced(left, period) == left + Missed(left, period) * period

(* What is due is written at once, past the queue.                          *)
Query ==
    /\ step = "query"
    /\ queryIn' = [q \in Queries |-> Advanced(queryIn[q], Period(q))]
    /\ step' = "alarm"
    /\ UNCHANGED <<decoded, outgoing, writeIn, alarmIn, inbox, takeIn, local, time, unreported, watched>>

(* One alarm to the hosts for every period of silence.                      *)
Alarm ==
    LET alarms == Missed(alarmIn, AlarmPeriod)
    IN  /\ step = "alarm"
        /\ alarmIn' = Advanced(alarmIn, AlarmPeriod)
        /\ unreported' = unreported - alarms * AlarmPeriod
        /\ step' = "read"
        /\ UNCHANGED <<decoded, outgoing, writeIn, queryIn, inbox, takeIn, local,
                       time, watched>>

(* A read that times out starts the loop again.  Bytes may complete no      *)
(* frame, or several.                                                       *)
ReadNothing ==
    /\ step = "read"
    /\ step' = "drain"
    /\ UNCHANGED <<decoded, outgoing, writeIn, queryIn, alarmIn, inbox, takeIn,
                   local, time, unreported, watched>>

Read(chunk) ==
    /\ step = "read"
    /\ decoded' = chunk /\ step' = "dispatch"
    /\ UNCHANGED <<outgoing, writeIn, queryIn, alarmIn, inbox, takeIn, local, time, unreported, watched>>

(* One decoded frame.  It postpones the alarm; a family frame goes to its   *)
(* inbox, a local command to the queue, and what finds no room is lost.     *)
Dispatch ==
    LET k == Head(decoded)
    IN  /\ step = "dispatch" /\ decoded # <<>>
        /\ decoded' = Tail(decoded)
        /\ alarmIn' = AlarmPeriod /\ unreported' = 0
        /\ inbox' = [f \in Families |->
                        IF f = k /\ inbox[f] < Capacity THEN inbox[f] + 1 ELSE inbox[f]]
        /\ local' = IF k \in LocalKinds /\ Len(local) < Capacity THEN Append(local, k) ELSE local
        /\ UNCHANGED <<step, outgoing, writeIn, queryIn, takeIn, time, watched>>

Dispatched ==
    /\ step = "dispatch" /\ decoded = <<>>
    /\ step' = "local"
    /\ UNCHANGED <<decoded, outgoing, writeIn, queryIn, alarmIn, inbox, takeIn,
                   local, time, unreported, watched>>

(* One local command for each read that returned bytes.                     *)
AnswerLocal ==
    /\ step = "local"
    /\ local' = IF local = <<>> THEN local ELSE Tail(local)
    /\ step' = "drain"
    /\ UNCHANGED <<decoded, outgoing, writeIn, queryIn, alarmIn, inbox, takeIn, time, unreported, watched>>

(* The task of a family takes a frame, at most one in every interval.       *)
Consume(f) ==
    /\ inbox[f] > 0 /\ takeIn[f] = 0
    /\ inbox' = [inbox EXCEPT ![f] = @ - 1]
    /\ takeIn' = [takeIn EXCEPT ![f] = WriteInterval]
    /\ UNCHANGED <<step, decoded, outgoing, writeIn, queryIn, alarmIn, local, time, unreported, watched>>

LinkLoop ==
    \/ DrainTake \/ DrainWritten \/ Drained \/ Query \/ Alarm
    \/ ReadNothing \/ Dispatch \/ Dispatched \/ AnswerLocal
ReadSome == \E chunk \in BoundedSeq(HeardKinds, 2) : Read(chunk)

LinkNext ==
    \/ LinkStart \/ LinkTick \/ LinkLoop \/ ReadSome
    \/ \E watch \in BOOLEAN : Forward(watch)
    \/ \E f \in Families : Consume(f)

LinkSpec == LinkInit /\ [][LinkNext]_linkVars

(* The tasks run and time passes.  A task preempted after a write finds the *)
(* interval not over once in a while, when writes are short.  The           *)
(* controller, which gets a query every 300 ms, keeps sending bytes.        *)
LinkFairness ==
    /\ WF_linkVars(LinkTick) /\ WF_linkVars(LinkLoop)
    /\ SlowWrites \/ SF_linkVars(Drained)
    /\ SF_linkVars(ReadSome)
    /\ \A f \in Families : WF_linkVars(Consume(f))

-----------------------------------------------------------------------------
(* The queries stay on the grid they started on, however late the task      *)
(* comes, and what is planned is never in the past: a late task sends one   *)
(* query and not one for each period it missed.                             *)
QueriesKeepTheGrid ==
    [][\A q \in Queries :
           /\ (time' + queryIn'[q]) % Period(q) = 0
           /\ step = "query" /\ step' = "alarm" => queryIn'[q] \in 1..Period(q)]_linkVars

(* After every poll the hosts have seen one alarm for each whole period     *)
(* without a valid frame, no more and no fewer.                             *)
AlarmForEachSilence ==
    [][step = "alarm" /\ step' = "read" => unreported' \in 0..AlarmPeriod - 1]_linkVars

(* The task reads again and again: the hosts cannot keep it writing         *)
(* (drain_forwarded_frames).                                                *)
ReadsAgain == step # "off" ~> step = "read"

(* What was accepted for the controller is written in the end; a local      *)
(* command of the controller is answered, and a family frame handled.       *)
EverythingLeaves ==
    /\ watched > 0 ~> watched = 0
    /\ local # <<>> ~> step = "local"
    /\ \A f \in Families \cap HeardKinds : inbox[f] = Capacity ~> inbox[f] < Capacity

(* Queries and alarms follow the clock, however late the task comes.        *)
LinkKeepsTime == QueriesKeepTheGrid /\ AlarmForEachSilence

(* The link serves both directions, whatever load either puts on it, and    *)
(* keeps the time of its queries and alarms (LinkKeepsTime).                *)
LinkServes == ReadsAgain /\ EverythingLeaves /\ LinkKeepsTime
=============================================================================
