------------------------------ MODULE AlarmLog ------------------------------
(***************************************************************************)
(* What the fault log promises its readers.  Each key (a channel, board or *)
(* booster) has at most one alarm at a time, and its log is the exact list *)
(* of the changes of that alarm: the end of an alarm is written with the   *)
(* very status and level that announced it, before the next one begins.    *)
(***************************************************************************)
EXTENDS Sequences

CONSTANTS Keys, Alarms, NoAlarm

VARIABLES
    active,   \* active[k]: the alarm of k, or NoAlarm
    log       \* log[k]: the log entries about k, oldest first

alarmVars == <<active, log>>

Entry(dir, alarm) == [dir |-> dir, alarm |-> alarm]

Ended(alarm) == IF alarm = NoAlarm THEN <<>> ELSE <<Entry("DISAPPEAR", alarm)>>
Begun(alarm) == IF alarm = NoAlarm THEN <<>> ELSE <<Entry("APPEAR", alarm)>>

Change(old, new) == IF old = new THEN <<>> ELSE Ended(old) \o Begun(new)

AlarmInit ==
    /\ active = [k \in Keys |-> NoAlarm]
    /\ log = [k \in Keys |-> <<>>]

AlarmChange ==
    /\ active' \in [Keys -> Alarms \cup {NoAlarm}]
    /\ log' = [k \in Keys |-> log[k] \o Change(active[k], active'[k])]

\* A restart of the writer: nobody is told, and the alarms begin anew.
AlarmForget ==
    /\ active' = [k \in Keys |-> NoAlarm]
    /\ UNCHANGED log

AlarmNext == AlarmChange \/ AlarmForget

AlarmSpec == AlarmInit /\ [][AlarmNext]_alarmVars
=============================================================================
