---------------------------- MODULE AtomicImport ----------------------------
(***************************************************************************)
(* What a replacing import promises: the settings and the conversations    *)
(* are those of one backup, and they change together.                      *)
(***************************************************************************)
CONSTANTS Operation, Key, Absent, Original

VARIABLES provides, installed

Origin == Operation \cup {Original}

(* The settings a backup holds; the ones it does not hold are removed.     *)
SettingsOf(o) == [k \in Key |-> IF k \in provides[o] THEN o ELSE Absent]

Whole(o) == [settings |-> SettingsOf(o), data |-> o]

Init == provides \in [Origin -> SUBSET Key] /\ installed = Whole(Original)

Import(o) == installed' = Whole(o) /\ UNCHANGED provides

Next == \E o \in Operation : Import(o)

Spec == Init /\ [][Next]_<<provides, installed>>
=============================================================================
