-------------------------------- MODULE Terminal --------------------------------
(***************************************************************************)
(* fp::raw_mode, which keeps the settings of the terminal in static        *)
(* variables between a call that enables raw mode and one that disables    *)
(* it.  Settings are the set of the flags that are on.                     *)
(***************************************************************************)
EXTENDS Naturals

CONSTANTS Flags, MaxCalls

VARIABLES settings,         \* of the terminal
          original, saved,  \* the static variables of raw_mode
          in_raw, before,   \* whether raw mode is on, and the settings when it was turned on
          enabled           \* calls so far

vars == <<settings, original, saved, in_raw, before, enabled>>

Raw(s) == s \ {"ICANON", "ECHO"}

Init == /\ settings \in SUBSET Flags
        /\ original = {} /\ saved = FALSE
        /\ in_raw = FALSE /\ before = {} /\ enabled = 0

\* raw_mode(true): the settings are saved by every call, and setting them may fail.
Enable == /\ enabled < MaxCalls /\ enabled' = enabled + 1
          /\ original' = settings /\ saved' = TRUE
          /\ \/ /\ settings' = Raw(settings) /\ in_raw' = TRUE
                /\ before' = IF in_raw THEN before ELSE settings
             \/ UNCHANGED <<settings, in_raw, before>>

\* raw_mode(false): nothing to restore before the first save.
Disable == /\ saved
           /\ settings' = original /\ in_raw' = FALSE
           /\ UNCHANGED <<original, saved, before, enabled>>

Next == Enable \/ Disable

Spec == Init /\ [][Next]_vars

-----------------------------------------------------------------------------
\* What the comment on raw_mode says: the state saved on the first enable is restored on disable,
\* however often raw mode was enabled in between.
OriginalComesBack == [][in_raw /\ ~in_raw' => settings' = before]_vars
=============================================================================
