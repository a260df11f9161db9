----------------------------- MODULE MeterInput -----------------------------
(***************************************************************************)
(* The contacts of the meters and how loop() (borad/main/main.ino) polls   *)
(* them once a second through Bounce2, in front of PulseBuffer: a put that *)
(* waits for room in the queue holds up the polling of every pin.          *)
(*                                                                         *)
(* The interval of Bounce2 is 10 ms and two polls are at least a second    *)
(* apart, so its test of the elapsed time is true at every poll.  A        *)
(* contact moves freely between two polls; only readings are modelled.     *)
(***************************************************************************)
EXTENDS PulseBuffer, FiniteSetsExt

\* The elements of GPIOPin: the first is 0, and they rise.
ASSUME PinsAssumption == Pins \subseteq Nat /\ 0 \in Pins

VARIABLES
    unstable,   \* UNSTABLE_STATE of each Bounce: the last reading
    debounced,  \* DEBOUNCED_STATE of each Bounce
    turn,       \* GPIOPin[i] in the loop over the pins
    uncounted   \* history: the contact was seen to close after its last pulse

bounceVars == <<unstable, debounced, turn, uncounted>>
inputVars  == <<vars, bounceVars>>

\* What digitalRead answers; "LOW" while the contact is closed.
Reading == {"LOW", "HIGH"}

InputInit ==
    /\ Init
    /\ unstable \in [Pins -> Reading]
    /\ debounced = unstable
    /\ turn = 0
    /\ uncounted = [p \in Pins |-> FALSE]

-----------------------------------------------------------------------------
\* The history after a reading that gives no pulse.
Seen(reading, p) == uncounted[p] \/ (unstable[p] = "HIGH" /\ reading = "LOW")

\* Debouncer::update: a reading that differs from the last one only restarts
\* the interval; the same reading twice is the new state.
Debounce(p, reading) == IF reading = unstable[p] THEN reading ELSE debounced[p]

Later(p) == {q \in Pins : q > p}

\* Mutant of NextPin: a reading that changed ends the round.
NextPinReturn(p) ==
    IF unstable'[p] = unstable[p] /\ Later(p) # {} THEN Min(Later(p)) ELSE 0

\* The next pin of the round, or the first one of the next round.
NextPin(p) == IF Later(p) # {} THEN Min(Later(p)) ELSE 0

\* Mutant of IsPulse: the contact's opening is taken for a pulse as well.
IsPulseEitherEdge(p) == debounced'[p] # debounced[p]

\* update() reports a change and read() is LOW.
IsPulse(p) == debounced'[p] # debounced[p] /\ debounced'[p] = "LOW"

\* One pin of the loop.
Poll(p, reading) ==
    /\ loopPc = "poll"
    /\ turn = p
    /\ debounced' = [debounced EXCEPT ![p] = Debounce(p, reading)]
    /\ unstable' = [unstable EXCEPT ![p] = reading]
    /\ turn' = NextPin(p)
    /\ uncounted' = [uncounted EXCEPT ![p] = Seen(reading, p) /\ ~IsPulse(p)]
    /\ IF IsPulse(p) THEN Sense(p) ELSE UNCHANGED vars

\* The rest of putData2Buffer, in the same task.
PutStep == (PutAccepted \/ PutTimedOut \/ MarkPut) /\ UNCHANGED bounceVars

LoopTask == PutStep \/ \E p \in Pins, reading \in Reading : Poll(p, reading)

SenderStep == Sender /\ UNCHANGED bounceVars

\* Debouncer::begin, called by attach in setup(), copies the reading to both bits.
Begin ==
    /\ unstable' \in [Pins -> Reading]
    /\ debounced' = unstable'

\* A loss of power, during which contacts may move, and setup().
Boot ==
    /\ Reboot
    /\ Begin
    /\ turn' = 0
    /\ uncounted' = [p \in Pins |-> Seen(unstable'[p], p)]

InputNext ==
    \/ LoopTask \/ SenderStep \/ Boot
    \/ Tick /\ UNCHANGED bounceVars

(* Arduino calls loop() for ever, and every wait in it ends; the fairness  *)
(* of SenderTask is PulseBuffer's.                                         *)
InputFairness ==
    /\ WF_inputVars(LoopTask)
    /\ WF_inputVars(SenderStep)
    /\ SF_inputVars(InitWebReturns(TRUE) /\ UNCHANGED bounceVars)

InputSpec == InputInit /\ [][InputNext]_inputVars /\ InputFairness

-----------------------------------------------------------------------------
(* Properties; those of PulseBuffer are checked in this composition too.   *)

\* A closure of a contact, from one reading HIGH to the next, is counted at most
\* once, however long it lasts, however its edges bounce between two readings
\* and wherever the board restarts (update() and the LOW test of loop(),
\* begin() in setup()).
OncePerClosure == [][sensed' # sensed => uncounted[putting'[1].pin]]_inputVars

\* A contact that stays closed is counted, unless power is lost first: neither
\* a full queue nor the other pin keeps loop() from polling it twice.
HeldClosureIsCounted ==
    \A p \in Pins, n \in 0..MaxReboots :
        (unstable[p] = "LOW" /\ debounced[p] = "HIGH" /\ reboots = n)
            ~> (unstable[p] = "HIGH" \/ ~uncounted[p] \/ reboots > n \/ sensed = MaxPulses)
=============================================================================
