------------------------------ MODULE Settings ------------------------------
(***************************************************************************)
(* What the configuration store promises its users: a table of settings in *)
(* which one setting changes at a time, and which a restore replaces by    *)
(* the saved defaults.  A copy that fails may leave a part of its source.  *)
(***************************************************************************)
CONSTANTS Keys, Values, Unset

VARIABLES
    settings,   \* key -> its value, or Unset
    defaults    \* the settings saved as defaults, in the same form

Tables == [Keys -> Values \cup {Unset}]

(* The tables that hold some of the settings of table.                      *)
PartsOf(table) ==
    {part \in Tables : \A k \in Keys : part[k] \in {table[k], Unset}}

SettingsInit == settings \in Tables /\ defaults \in Tables

Change(k, v) == settings' = [settings EXCEPT ![k] = v] /\ UNCHANGED defaults
Restore == settings' \in PartsOf(defaults) /\ UNCHANGED defaults
SaveDefaults == defaults' \in PartsOf(settings) /\ UNCHANGED settings

SettingsNext ==
    \/ \E k \in Keys, v \in Values : Change(k, v)
    \/ Restore \/ SaveDefaults

SettingsSpec == SettingsInit /\ [][SettingsNext]_<<settings, defaults>>
=============================================================================
