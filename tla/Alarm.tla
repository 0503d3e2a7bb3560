------------------------------- MODULE Alarm -------------------------------
(***************************************************************************)
(* The audible alarm of a page (monitor_alarm.js).  A page evaluates it    *)
(* after every snapshot it receives, over the channels, the boards and the *)
(* boosters it holds.  Time is counted in units of which Interval make the *)
(* least distance of two beeps; the two ages are kept only up to Interval, *)
(* because the code compares them with nothing larger.                     *)
(*                                                                         *)
(* A beep that the evaluation makes is seen as since falling back to zero. *)
(* Abstracted away: the sound and the browser's rule that there is none    *)
(* before the first gesture of the user, the single beeps that answer a    *)
(* gesture or an unmuting, the wording of the button.                      *)
(***************************************************************************)
EXTENDS Naturals

CONSTANT Interval     \* ALARM_BEEP_INTERVAL_MS, in units of the clock

ASSUME IntervalAssumption == Interval \in Nat \ {0}

VARIABLES
  faults,    \* the kinds of data held by the page that show a fault
  active,    \* alarmActive
  muted,     \* alarmMuted
  since,     \* time since _lastBeepTime
  up,        \* performance.now(): time since the page was opened
  button     \* what the mute button and the dots of the tabs show

alarmVars == <<faults, active, muted, since, up, button>>

Sources == {"ch", "bd", "bst"}

ButtonShows(on, quiet, f) == [on |-> on, quiet |-> on /\ quiet, dots |-> f]

AlarmInit ==
  /\ faults = {} /\ active = FALSE /\ muted = FALSE
  /\ since = 0 /\ up = 0
  /\ button = ButtonShows(FALSE, FALSE, {})

Appeared(f) == f # {} /\ ~active

\* Mutant: any change of the faults clears it.
QuietedUntilAnyChange(f) == muted /\ f = faults
\* alarmMuted after an evaluation: both edges of the fault condition clear it.
Quieted(f) == muted /\ (f # {}) = active

\* The time that the throttle sees: a new alarm sets _lastBeepTime to 0.
Age(f) == IF Appeared(f) THEN up ELSE since

\* Mutant: an alarm beeps once.
DueOnce(f) == Appeared(f) /\ Age(f) >= Interval
Due(f) == f # {} /\ ~Quieted(f) /\ Age(f) >= Interval

\* evaluateAlarm, on data that show the faults f; it beeps if a beep is due.
Evaluate(f) ==
  /\ faults' = f
  /\ active' = (f # {})
  /\ muted' = Quieted(f)
  /\ since' = IF Due(f) THEN 0 ELSE Age(f)
  /\ button' = ButtonShows(f # {}, Quieted(f), f)
  /\ UNCHANGED up

\* The mute button.
ToggleMute ==
  /\ muted' = ~muted
  /\ button' = ButtonShows(active, muted', button.dots)
  /\ UNCHANGED <<faults, active, since, up>>

Older(age) == IF age < Interval THEN age + 1 ELSE age

Tick ==
  /\ since' = Older(since) /\ up' = Older(up)
  /\ UNCHANGED <<faults, active, muted, button>>

\* A step of the page in which the alarm has no part.
AlarmQuiet == UNCHANGED alarmVars

AlarmTypeOK ==
  /\ faults \in SUBSET Sources /\ active \in BOOLEAN /\ muted \in BOOLEAN
  /\ since \in 0..Interval /\ up \in 0..Interval
  /\ button \in [on : BOOLEAN, quiet : BOOLEAN, dots : SUBSET Sources]
=============================================================================
