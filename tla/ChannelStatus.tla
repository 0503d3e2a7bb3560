--------------------------- MODULE ChannelStatus ---------------------------
(***************************************************************************)
(* What the daemon makes of one status word: the status string of a        *)
(* channel or a board, the level ChannelClassifier gives it, and whether   *)
(* FaultTracker counts it as a fault.  A status string is a list of tokens *)
(* in a fixed order followed by a description that the tokens determine,   *)
(* so it is modelled by its set of tokens; a suppressed token (written     *)
(* "~OV" in the string) carries ignored = TRUE.                            *)
(*                                                                         *)
(* A reading is one channel as ReadAllParams leaves it: the flags set in   *)
(* its status word (the software flag OVL included), its Pw parameter, and *)
(* whether |VMon - V0Set| exceeds the threshold of its name (FALSE also    *)
(* when one of them is NAN).                                               *)
(***************************************************************************)
CONSTANTS
    Names,        \* channel names
    ErrorFlags,   \* abbreviations of the error bits of a channel status word
    BoardFlags,   \* abbreviations of the bits of a board status word
    Ignored       \* <<name, flag>> pairs matched by an error ignore rule

OperatingFlags == {"ON", "RUP", "RDN"}

\* The tokens FaultTracker takes for normal operation.
NormalTokens == {"ON", "OFF", "RUP", "RDN", "OK", "NORMAL"}

ASSUME StatusAssumption ==
    /\ Ignored \subseteq Names \X ErrorFlags
    /\ (ErrorFlags \cup BoardFlags) \cap (NormalTokens \cup {"DVW"}) = {}

Token(f, ign) == [flag |-> f, ignored |-> ign]

IsErrorSuppressed(name, f) == <<name, f>> \in Ignored

GetStatusString(name, bits) ==
    IF bits = {} THEN {Token("OFF", FALSE)}
                 ELSE {Token(f, IsErrorSuppressed(name, f)) : f \in bits}

GetBdStatusString(bits) ==
    IF bits = {} THEN {Token("OK", FALSE)} ELSE {Token(f, FALSE) : f \in bits}

Readings == [bits : SUBSET (OperatingFlags \cup ErrorFlags),
             pw : BOOLEAN, dvLarge : BOOLEAN]

-----------------------------------------------------------------------------
\* ChannelClassifier.  OFF counts for nothing; any other token that is not
\* an operating one is a fault, suppressed or not.
ErrorTokens(status)  == {t \in status : t.flag \notin OperatingFlags \cup {"OFF"}}
HasFault(status)     == \E t \in ErrorTokens(status) : ~t.ignored
HasSuppressed(status) == \E t \in ErrorTokens(status) : t.ignored
IsRamping(status)    == \E t \in status : t.flag \in {"RUP", "RDN"}
IsOn(status, pw)     == pw \/ \E t \in status : t.flag = "ON"

DvWarn(name, r) ==
    LET status == GetStatusString(name, r.bits)
    IN  /\ IsOn(status, r.pw)
        /\ ~HasFault(status)
        /\ ~IsRamping(status)
        /\ r.dvLarge

Classify(name, r) ==
    LET status == GetStatusString(name, r.bits)
    IN  IF HasFault(status) THEN "fault"
        ELSE IF HasSuppressed(status) THEN "suppressed"
        ELSE IF DvWarn(name, r) THEN "warn"
        ELSE IF IsRamping(status) THEN "ramp"
        ELSE IF IsOn(status, r.pw) THEN "on" ELSE "off"

-----------------------------------------------------------------------------
\* The poll loop hands FaultTracker the status with a synthetic DVW token
\* when the classifier warns about dV, and a level for the log entry.
TrackStatus(name, r) ==
    GetStatusString(name, r.bits)
        \cup (IF DvWarn(name, r) THEN {Token("DVW", FALSE)} ELSE {})

\* Mutant: a suppressed error is logged as a FAULT.
LogLevelSuppressed(name, r) ==
    IF DvWarn(name, r) /\ ~HasFault(GetStatusString(name, r.bits)) THEN "WARN" ELSE "FAULT"

LogLevel(name, r) ==
    IF \/ Classify(name, r) \in {"warn", "suppressed"}
       \/ DvWarn(name, r) /\ Classify(name, r) # "fault"
    THEN "WARN" ELSE "FAULT"

\* FaultTracker.  A suppressed token starts with "~" and so is never one of
\* the normal words.
IsFault(status) == \E t \in status : t.ignored \/ t.flag \notin NormalTokens
=============================================================================
