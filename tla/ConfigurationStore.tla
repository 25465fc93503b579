------------------------- MODULE ConfigurationStore -------------------------
(***************************************************************************)
(* config.txt and its users: the tasks of the transports and of the web    *)
(* server change one setting in a transaction under a mutex (read the      *)
(* whole file, write config.tmp, remove config.txt, rename), and copy      *)
(* config.txt to or from config.default without the mutex.  A document is  *)
(* a table of settings, a file a document that may be missing.  A copy     *)
(* shows an empty destination and then what it has copied; a file whose    *)
(* writing was cut short holds some of the document's settings.            *)
(***************************************************************************)
EXTENDS Integers, FiniteSets

CONSTANTS
    Users, NoUser, Keys, Values, Unset,
    ReadFaults,     \* TRUE: reading config.txt may fail
    RenameFaults,   \* TRUE: a rename to a free name may fail
    Outages,        \* bound: the stages of a user in which power may be lost
    FreeCopies      \* TRUE: a copy may run beside a transaction

ASSUME StoreAssumption ==
    /\ NoUser \notin Users /\ Unset \notin Values /\ Keys # {} /\ Values # {}
    /\ {ReadFaults, RenameFaults, FreeCopies} \subseteq BOOLEAN

VARIABLES
    active,     \* config.txt
    temporary,  \* config.tmp
    saved,      \* config.default
    holder,     \* who holds configuration_file_mutex
    stage,      \* user -> where it is
    document,   \* user -> the document in its memory
    request,    \* user -> the setting it was asked to change
    accepted    \* history: key -> value the last "has been set to" told of

storeVars == <<active, temporary, saved, holder, stage, document, request, accepted>>

Documents == [Keys -> Values \cup {Unset}]
PartsOf(table) == {part \in Documents : \A k \in Keys : part[k] \in {table[k], Unset}}
Empty == [k \in Keys |-> Unset]
StoreFiles == [exists : BOOLEAN, content : Documents]
Missing == [exists |-> FALSE, content |-> Empty]
Holding(table) == [exists |-> TRUE, content |-> table]

StoreTypeOK ==
    /\ {active, temporary, saved} \subseteq StoreFiles
    /\ \A f \in {active, temporary, saved} : ~f.exists => f = Missing
    /\ holder \in Users \cup {NoUser}
    /\ \A u \in Users : holder = u <=> stage[u] \in {"read", "write", "remove", "rename"}
    /\ stage \in [Users -> {"idle", "read", "write", "remove", "rename", "restore", "save"}]
    /\ document \in [Users -> Documents]
    /\ request \in [Users -> Keys \X Values]
    /\ accepted \in Documents

StoreInit ==
    /\ active \in {Missing} \cup {Holding(d) : d \in Documents}
    /\ temporary = Missing /\ saved \in {Missing, Holding(Empty)}
    /\ holder = NoUser /\ stage = [u \in Users |-> "idle"]
    /\ document = [u \in Users |-> Empty]
    /\ request \in [Users -> {CHOOSE r \in Keys \X Values : TRUE}]
    /\ accepted = Empty

-----------------------------------------------------------------------------
Copying == \E u \in Users : stage[u] \in {"restore", "save"}

(* Mutant: nobody waits for the mutex.                                      *)
BeginSetUnlocked(u, k, v) ==
    /\ stage[u] = "idle"
    /\ FreeCopies \/ ~Copying
    /\ holder' = u
    /\ stage' = [stage EXCEPT ![u] = "read"]
    /\ request' = [request EXCEPT ![u] = <<k, v>>]
    /\ UNCHANGED <<active, temporary, saved, document, accepted>>

(* set: the mutex is taken.                                                 *)
BeginSet(u, k, v) ==
    /\ stage[u] = "idle" /\ holder = NoUser
    /\ FreeCopies \/ ~Copying
    /\ holder' = u
    /\ stage' = [stage EXCEPT ![u] = "read"]
    /\ request' = [request EXCEPT ![u] = <<k, v>>]
    /\ UNCHANGED <<active, temporary, saved, document, accepted>>

(* read_document and the change: a file that cannot be read is like one     *)
(* that is missing, an empty document.                                      *)
ReadDocument(u) ==
    LET k == request[u][1]
        v == request[u][2]
    IN  /\ stage[u] = "read"
        /\ \E d \in {active.content} \cup (IF ReadFaults THEN {Empty} ELSE {}) :
               document' = [document EXCEPT ![u] = [d EXCEPT ![k] = v]]
        /\ stage' = [stage EXCEPT ![u] = "write"]
        /\ UNCHANGED <<active, temporary, saved, holder, request, accepted>>

(* Mutant: a failure returns with the mutex taken.                          *)
UnlockForgotten(u) ==
    /\ stage' = [stage EXCEPT ![u] = "idle"]
    /\ holder' = IF stage[u] = "rename" THEN NoUser ELSE holder

Unlock(u) == holder' = NoUser /\ stage' = [stage EXCEPT ![u] = "idle"]

(* Mutant: the new document is written in place.                            *)
WriteInPlace(u) ==
    /\ stage[u] = "write"
    /\ \/ /\ temporary' = Holding(document[u]) /\ UNCHANGED active
          /\ stage' = [stage EXCEPT ![u] = "remove"] /\ UNCHANGED holder
       \/ /\ active' \in {Holding(d) : d \in PartsOf(document[u])}
          /\ Unlock(u) /\ UNCHANGED temporary
    /\ UNCHANGED <<saved, document, request, accepted>>

(* config.tmp is written, or opening, writing or closing it fails and what  *)
(* was written stays.                                                       *)
WriteTemporary(u) ==
    /\ stage[u] = "write"
    /\ \/ /\ temporary' = Holding(document[u])
          /\ stage' = [stage EXCEPT ![u] = "remove"] /\ UNCHANGED holder
       \/ /\ temporary' \in {temporary} \cup {Holding(d) : d \in PartsOf(document[u])}
          /\ Unlock(u)
    /\ UNCHANGED <<active, saved, document, request, accepted>>

(* config.txt is removed, or is not: the result is ignored.                 *)
RemoveActive(u) ==
    /\ stage[u] = "remove"
    /\ active' \in {Missing, active}
    /\ stage' = [stage EXCEPT ![u] = "rename"]
    /\ UNCHANGED <<temporary, saved, holder, document, request, accepted>>

(* A rename to a name that is taken fails, and then the new document goes.  *)
RenameTemporary(u) ==
    /\ stage[u] = "rename"
    /\ temporary' = Missing
    /\ \/ /\ ~active.exists
          /\ active' = temporary
          /\ accepted' = [accepted EXCEPT ![request[u][1]] = request[u][2]]
       \/ /\ active.exists \/ RenameFaults
          /\ UNCHANGED <<active, accepted>>
    /\ Unlock(u)
    /\ UNCHANGED <<saved, document, request>>

-----------------------------------------------------------------------------
(* restore and save_default: the source must exist, the destination is      *)
(* truncated when it is opened, and a byte that cannot be read or written   *)
(* ends the copy where it is.                                               *)
BeginRestore(u) ==
    /\ stage[u] = "idle" /\ saved.exists
    /\ FreeCopies \/ (~Copying /\ holder = NoUser)
    /\ active' = Holding(Empty) /\ accepted' = Empty
    /\ stage' = [stage EXCEPT ![u] = "restore"]
    /\ UNCHANGED <<temporary, saved, holder, document, request>>

EndRestore(u) ==
    /\ stage[u] = "restore"
    /\ active' \in {Holding(d) : d \in PartsOf(saved.content)}
    /\ stage' = [stage EXCEPT ![u] = "idle"]
    /\ UNCHANGED <<temporary, saved, holder, document, request, accepted>>

BeginSave(u) ==
    /\ stage[u] = "idle" /\ active.exists
    /\ FreeCopies \/ (~Copying /\ holder = NoUser)
    /\ saved' = Holding(Empty)
    /\ stage' = [stage EXCEPT ![u] = "save"]
    /\ UNCHANGED <<active, temporary, holder, document, request, accepted>>

EndSave(u) ==
    /\ stage[u] = "save"
    /\ saved' \in {Holding(d) : d \in PartsOf(active.content)}
    /\ stage' = [stage EXCEPT ![u] = "idle"]
    /\ UNCHANGED <<active, temporary, holder, document, request, accepted>>

(* Power is lost: the tasks start again, and a file in the middle of being  *)
(* written holds a part.  Nothing looks for config.tmp after a start.       *)
StorePowerLoss ==
    /\ \E u \in Users : stage[u] # "idle"
    /\ \A u \in Users : stage[u] \in {"idle"} \cup Outages
    /\ temporary' \in
           IF \E u \in Users : stage[u] = "write"
           THEN {Holding(d) : d \in UNION {PartsOf(document[u]) : u \in Users}}
           ELSE {temporary}
    /\ holder' = NoUser /\ stage' = [u \in Users |-> "idle"]
    /\ UNCHANGED <<active, saved, document, request, accepted>>

StoreNext ==
    \/ \E u \in Users :
           \/ \E k \in Keys, v \in Values : BeginSet(u, k, v)
           \/ ReadDocument(u) \/ WriteTemporary(u) \/ RemoveActive(u) \/ RenameTemporary(u)
           \/ BeginRestore(u) \/ EndRestore(u) \/ BeginSave(u) \/ EndSave(u)
    \/ StorePowerLoss

StoreSpec == StoreInit /\ [][StoreNext]_storeVars

-----------------------------------------------------------------------------
(* A value the user was told "has been set to" stays in config.txt until    *)
(* another change of that setting or a restore: no update of another user,  *)
(* failed update or copy loses it (the comment in set).                     *)
AcceptedValuesStay ==
    holder = NoUser /\ ~Copying =>
        \A k \in Keys : accepted[k] # Unset => active.content[k] = accepted[k]

(* The store implements the table of settings: while a transaction has      *)
(* config.txt removed, its new document already counts.                     *)
Promised == INSTANCE Settings WITH
    settings <- IF ~active.exists /\ \E u \in Users : stage[u] = "rename"
                THEN document[holder] ELSE active.content,
    defaults <- saved.content

ImplementsSettings == Promised!SettingsSpec
=============================================================================
