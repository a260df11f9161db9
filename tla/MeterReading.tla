---------------------------- MODULE MeterReading ----------------------------
(***************************************************************************)
(* What the system promises about the pulses of a meter, whatever happens  *)
(* between the contact of the meter and the table device_changes: a pulse  *)
(* that was sensed waits, and from there it is either recorded, once, or   *)
(* lost for good.  Pulses are recorded in groups, at once.                 *)
(*                                                                         *)
(* It does not promise that a pulse is recorded: the board keeps pulses in *)
(* RAM only and gives a group up after an error.                           *)
(***************************************************************************)
EXTENDS Naturals

CONSTANT Pulses

VARIABLES
    sensed,      \* pulses that the meter has given
    waiting,     \* those that may still be recorded
    recorded     \* how many times each pulse is recorded

vars == <<sensed, waiting, recorded>>

Init ==
    /\ sensed = {}
    /\ waiting = {}
    /\ recorded = [p \in Pulses |-> 0]

Sense(S) ==
    /\ S \cap sensed = {}
    /\ sensed' = sensed \cup S
    /\ waiting' = waiting \cup S
    /\ UNCHANGED recorded

Record(S) ==
    /\ recorded' = [p \in Pulses |-> IF p \in S THEN recorded[p] + 1 ELSE recorded[p]]
    /\ waiting' = waiting \ S
    /\ UNCHANGED sensed

Lose(S) ==
    /\ waiting' = waiting \ S
    /\ UNCHANGED <<sensed, recorded>>

Next ==
    \/ \E S \in SUBSET (Pulses \ sensed) : Sense(S)
    \/ \E S \in SUBSET waiting : Record(S) \/ Lose(S)

Spec == Init /\ [][Next]_vars

\* No pulse is counted twice: the consumption on the dashboard is never more
\* than what the meter gave.
AtMostOnce == \A p \in Pulses : recorded[p] <= 1

\* Only a pulse of the meter is ever counted.
NothingInvented == \A p \in Pulses : recorded[p] > 0 => p \in sensed
=============================================================================
