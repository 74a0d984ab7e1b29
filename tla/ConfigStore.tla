---------------------------- MODULE ConfigStore ----------------------------
(***************************************************************************)
(* What read_configs and save_configs promise to the menu: one stored      *)
(* configuration, replaced by a save.                                      *)
(*                                                                         *)
(* A save is not atomic, and the abstraction says exactly how far it is    *)
(* not: while it runs the stored value is the old configuration, the       *)
(* default one (the log is being recycled), or a beginning of the new one  *)
(* followed by erased words.  It is never a mixture of two configurations  *)
(* and never an older one.  Power can fail at any point and leaves the     *)
(* value of that moment.  A half-erased sub-sector voids the promise until *)
(* a later save erases it.                                                 *)
(***************************************************************************)
EXTENDS Naturals

CONSTANTS
  Bit,          \* bit positions of a word
  ConfLen       \* words of a configuration

ConfIdx == 0 .. ConfLen - 1
Config == [ConfIdx -> SUBSET Bit]
DefaultConfig == [j \in ConfIdx |-> Bit]

VARIABLES
  value,        \* the configuration a boot would read
  request,      \* the configuration the menu holds, to be saved
  phase,        \* "idle", "asked" (a save began) or "writing"
  damaged       \* a sub-sector is half erased

vars == <<value, request, phase, damaged>>

\* v is a beginning of c: words of c, at most one unfinished, erased words
BeginningOf(v, c) ==
  \E k \in ConfIdx :
    /\ \A j \in ConfIdx : j < k => v[j] = c[j]
    /\ v[k] \subseteq c[k]
    /\ \A j \in ConfIdx : j > k => v[j] = {}

Init ==
  /\ value = DefaultConfig
  /\ request \in Config
  /\ phase = "idle"
  /\ damaged = FALSE

\* The menu reads the store or edits its copy
Choose ==
  /\ phase = "idle"
  /\ request' \in Config
  /\ UNCHANGED <<value, phase, damaged>>

Ask ==
  /\ phase = "idle" /\ phase' = "asked"
  /\ UNCHANGED <<value, request, damaged>>

\* The log is erased for reuse: the old configuration is gone before the new
\* one is there
Recycle ==
  /\ phase = "asked"
  /\ value' = DefaultConfig
  /\ damaged' \in {damaged, FALSE}
  /\ UNCHANGED <<request, phase>>

Write ==
  /\ phase \in {"asked", "writing"} /\ phase' = "writing"
  /\ value' \in Config /\ BeginningOf(value', request)
  /\ UNCHANGED <<request, damaged>>

Commit ==
  /\ phase = "writing" /\ phase' = "idle"
  /\ value' = request
  /\ UNCHANGED <<request, damaged>>

\* Power fails; a command it interrupts may still have its effect
Stop ==
  /\ phase' = "idle"
  /\ request' \in Config
  /\ \/ value' = value
     \/ /\ phase # "idle"
        /\ value' \in Config /\ BeginningOf(value', request)
  /\ UNCHANGED damaged

\* Power fails within an erase
Damage ==
  /\ phase = "asked" /\ phase' = "idle"
  /\ damaged' = TRUE
  /\ value' \in Config /\ request' \in Config

\* No promise while a sub-sector is half erased
Unreliable ==
  /\ damaged /\ damaged'
  /\ value' \in Config /\ request' \in Config
  /\ phase' \in {"idle", "asked", "writing"}

Next ==
  \/ Choose \/ Ask \/ Recycle \/ Write \/ Commit
  \/ Stop \/ Damage \/ Unreliable

Spec == Init /\ [][Next]_vars
=============================================================================
