------------------------------ MODULE Notifier ------------------------------
(***************************************************************************)
(* What a Client object promises about the quantities it measures: each has  *)
(* a signal, and a value that a method returns; no value changes without its *)
(* signal being emitted.  A signal that repeats a value is allowed.          *)
(***************************************************************************)
CONSTANT Signals     \* the kinds of signal, one for each quantity

VARIABLES
    values,          \* what the method of each quantity returns
    emitted          \* the signals of the last step

notifierVars == <<values, emitted>>

Changed == {s \in Signals : values'[s] # values[s]}

Notify == Changed \subseteq emitted' /\ emitted' \subseteq Signals

NotifierSpec == emitted = {} /\ [][Notify]_notifierVars
=============================================================================
