---------------------------- MODULE ReportProofs ----------------------------
(***************************************************************************)
(* Theorems about both ends of a report: the server that asks for it and   *)
(* keeps it (AutoReport), for any number of pages, connections and         *)
(* requests and any timeouts and intervals, and the page that makes it     *)
(* (PageDisplay and ReportCapture), for any list of tabs, any number of    *)
(* requests and any number of events.                                      *)
(*                                                                         *)
(* That a request is saved once rests on what is known of the request that *)
(* is pending: it has not been saved (SavedInv), it is not one of those    *)
(* still to come (PendingInv), and whoever was asked for it is in its      *)
(* tried (AskedInv).  The timeouts play no part in it.                     *)
(*                                                                         *)
(* On the page, what is drawn is known from two facts about the screen:    *)
(* one that any tab may be opened with (ScreenInv), and one for the tab in *)
(* view (ViewInv).  Each drawing function keeps the first and brings about *)
(* the second, so their compositions in Click and ActivateTab do.  A       *)
(* request that nobody disturbed has the page for itself between its steps *)
(* (AloneInv), and the other properties of the report follow.              *)
(***************************************************************************)
EXTENDS AutoReport, ReportCapture, TLAPS

-----------------------------------------------------------------------------
(* The server. *)

PendingInv == pending.request <= requests

SavedInv ==
    \A r \in Requests :
        /\ saved[r] <= 1
        /\ saved[r] > 0 => r <= requests /\ r # pending.request

AskedInv ==
    \A n \in Connections, r \in Requests :
        /\ asked[<<n, r>>] <= 1
        /\ asked[<<n, r>>] > 0 => r <= requests /\ (r = pending.request => n \in pending.tried)

ReportInv == TypeOK /\ PendingInv /\ SavedInv /\ AskedInv

-----------------------------------------------------------------------------
\* Counting up to a limit stays within it.
LEMMA UpToType ==
    ASSUME NEW limit \in Nat, NEW n \in Nat
    PROVE  UpTo(limit, n) \in 0..limit /\ UpTo(limit, n) <= n
BY DEF UpTo

\* Pending requests have the type TypeOK says.
PendingType(p) == p \in [request : 0..MaxRequests, tried : SUBSET Connections]

LEMMA NothingType == PendingType(Nothing) /\ Nothing.request = 0
BY ReportAssumption DEF PendingType, Nothing

LEMMA InitReport == Init => ReportInv
<1> SUFFICES ASSUME Init PROVE ReportInv
  OBVIOUS
<1> USE ReportAssumption
<1>1. TypeOK
  <2>1. pending \in [request : 0..MaxRequests, tried : SUBSET Connections]
    BY NothingType DEF Init, PendingType
  <2>2. asked \in [Connections \X Requests -> 0..2] /\ saved \in [Requests -> 0..2]
    BY DEF Init
  <2>3. work \in [Clients -> SUBSET Requests] /\ conn \in [Clients -> 0..MaxOpens]
    BY DEF Init
  <2>4. reporters \subseteq {conn[c] : c \in Clients} \ {0}
    BY DEF Init
  <2>5. /\ opens \in 0..MaxOpens /\ requests \in 0..MaxRequests /\ age \in 0..Timeout + 1
        /\ sinceFire \in 0..Interval /\ sinceSave \in 0..MinInterval
        /\ attempts \in 0..MaxEntries /\ entries \in 0..MaxEntries
    BY DEF Init
  <2>6. started \in BOOLEAN
    BY DEF Init
  <2> QED
    BY <2>1, <2>2, <2>3, <2>4, <2>5, <2>6 DEF TypeOK
<1>2. PendingInv /\ SavedInv /\ AskedInv
  BY NothingType DEF Init, PendingInv, SavedInv, AskedInv
<1> QED
  BY <1>1, <1>2 DEF ReportInv

\* The summary and the count of attempts.
LEMMA WrittenType ==
    ASSUME TypeOK, NEW n \in Nat, Written(n)
    PROVE  entries' \in 0..MaxEntries
<1>1. entries + n \in Nat
  BY ReportAssumption DEF TypeOK
<1> QED
  BY <1>1, ReportAssumption, UpToType DEF Written

LEMMA AttemptedType ==
    ASSUME TypeOK, Attempted
    PROVE  attempts' \in 0..MaxEntries
<1>1. attempts + 1 \in Nat
  BY ReportAssumption DEF TypeOK
<1> QED
  BY <1>1, ReportAssumption, UpToType DEF Attempted

\* The two ways to ask: for the next request, or again for the pending one.
NewOrRetried(n, r, tried) ==
    \/ /\ r = requests + 1
       /\ requests' = requests + 1
    \/ /\ r = pending.request
       /\ requests' = requests
       /\ tried = pending.tried
       /\ n \notin tried

\* A page that was not tried is asked for the next request, or for the pending
\* one again.
LEMMA AskKeeps ==
    ASSUME ReportInv,
           NEW n \in reporters, NEW r \in Requests, NEW tried \in SUBSET Connections,
           Ask(n, r, tried),
           NewOrRetried(n, r, tried),
           UNCHANGED <<conn, opens, reporters, started, sinceSave, saved, entries>>,
           sinceFire' \in 0..Interval
    PROVE  ReportInv'
<1> USE ReportAssumption DEF ReportInv, Requests, Connections, NewOrRetried
<1>1. n \in Connections
  BY DEF TypeOK
<1>2. pending' = [request |-> r, tried |-> tried \cup {n}] /\ PendingType(pending')
  BY <1>1 DEF Ask, PendingType
<1>3. asked[<<n, r>>] = 0
  <2>1. asked[<<n, r>>] \in 0..2
    BY <1>1 DEF TypeOK
  <2> QED
    BY <1>1, <2>1 DEF AskedInv, TypeOK
<1>4. asked' = [asked EXCEPT ![<<n, r>>] = 1]
  BY <1>3 DEF Ask, UpTo
<1>5. TypeOK'
  <2>1. asked' \in [Connections \X Requests -> 0..2]
    BY <1>1, <1>4 DEF TypeOK
  <2>2. work' \in [Clients -> SUBSET Requests]
    BY DEF Ask, TypeOK
  <2>3. attempts' \in 0..MaxEntries
    BY AttemptedType DEF Ask
  <2>4. age' \in 0..Timeout + 1
    <3>1. age' = 0
      BY DEF Ask
    <3> QED
      BY <3>1 DEF ReportAssumption
  <2>5. requests' \in 0..MaxRequests
    <3>1. requests \in 0..MaxRequests /\ r \in 1..MaxRequests
      BY DEF TypeOK
    <3>2. requests' = requests \/ requests' = r
      BY DEF NewOrRetried
    <3> QED
      BY <3>1, <3>2
  <2> QED
    BY <1>2, <2>1, <2>2, <2>3, <2>4, <2>5 DEF TypeOK, PendingType
<1>6. PendingInv'
  BY <1>2 DEF PendingInv, TypeOK
<1>7. SavedInv'
  BY <1>2 DEF SavedInv, TypeOK
<1>8. AskedInv'
  <2> SUFFICES ASSUME NEW m \in Connections, NEW q \in Requests
               PROVE  /\ asked'[<<m, q>>] <= 1
                      /\ asked'[<<m, q>>] > 0 =>
                            /\ q <= requests'
                            /\ q = pending'.request => m \in pending'.tried
    BY DEF AskedInv
  <2>1. CASE m = n /\ q = r
    <3>1. asked'[<<n, r>>] = 1
      BY <1>1, <1>4 DEF TypeOK
    <3>2. r <= requests' /\ n \in pending'.tried
      BY <1>2 DEF TypeOK, PendingInv
    <3> QED
      BY <2>1, <3>1, <3>2
  <2>2. CASE ~(m = n /\ q = r)
    <3>1. asked'[<<m, q>>] = asked[<<m, q>>] /\ asked[<<m, q>>] \in 0..2
      BY <1>1, <1>4, <2>2 DEF TypeOK
    <3> QED
      BY <1>2, <3>1 DEF AskedInv, TypeOK
  <2> QED
    BY <2>1, <2>2
<1> QED
  BY <1>5, <1>6, <1>7, <1>8

-----------------------------------------------------------------------------
LEMMA StepReport == ReportInv /\ [Next]_reportVars => ReportInv'
<1> SUFFICES ASSUME ReportInv, [Next]_reportVars PROVE ReportInv'
  OBVIOUS
<1> USE ReportAssumption DEF ReportInv
<1>0. CASE UNCHANGED reportVars
  BY <1>0 DEF reportVars, TypeOK, PendingInv, SavedInv, AskedInv
<1>1. ASSUME NEW c \in Clients, NEW reload \in BOOLEAN, Open(c, reload) PROVE ReportInv'
  <2>1. TypeOK'
    BY <1>1 DEF Open, TypeOK, clockVars
  <2> QED
    BY <1>1, <2>1 DEF Open, clockVars, PendingInv, SavedInv, AskedInv
<1>2. ASSUME NEW c \in Clients, Hello(c) PROVE ReportInv'
  <2>1. TypeOK'
    BY <1>2 DEF Hello, TypeOK, clockVars
  <2> QED
    BY <1>2, <2>1 DEF Hello, clockVars, PendingInv, SavedInv, AskedInv
<1>3. ASSUME NEW c \in Clients, Close(c) PROVE ReportInv'
  <2>1. TypeOK'
    BY <1>3 DEF Close, TypeOK, clockVars
  <2> QED
    BY <1>3, <2>1 DEF Close, clockVars, PendingInv, SavedInv, AskedInv
<1>4. ASSUME NEW c \in Clients, NEW r \in work[c], GiveUp(c, r) PROVE ReportInv'
  <2>1. TypeOK'
    BY <1>4 DEF GiveUp, TypeOK, pageVars, clockVars
  <2> QED
    BY <1>4, <2>1 DEF GiveUp, pageVars, clockVars, PendingInv, SavedInv, AskedInv
<1>5. ASSUME NEW c \in Clients, NEW r \in work[c], Post(c, r) PROVE ReportInv'
  <2>1. r \in Requests /\ work' \in [Clients -> SUBSET Requests]
    BY <1>5 DEF Post, TypeOK
  <2>2. CASE r = pending.request /\ sinceSave >= MinInterval
    <3>1. saved[r] = 0
      BY <2>1, <2>2 DEF SavedInv, TypeOK
    <3>2. saved' = [saved EXCEPT ![r] = 1] /\ pending' = Nothing
      BY <1>5, <2>2, <3>1 DEF Post, UpTo
    <3>3. entries' \in 0..MaxEntries
      BY <1>5, <2>2, WrittenType DEF Post
    <3>4. TypeOK'
      BY <1>5, <2>1, <2>2, <3>2, <3>3, NothingType DEF Post, TypeOK, pageVars, PendingType
    <3>5. PendingInv' /\ SavedInv' /\ AskedInv'
      BY <1>5, <2>1, <2>2, <3>2, NothingType
         DEF Post, pageVars, TypeOK, PendingInv, SavedInv, AskedInv, Requests
    <3> QED
      BY <3>4, <3>5
  <2>3. CASE ~(r = pending.request /\ sinceSave >= MinInterval)
    <3>1. TypeOK'
      BY <1>5, <2>1, <2>3 DEF Post, TypeOK, pageVars
    <3> QED
      BY <1>5, <2>3, <3>1 DEF Post, pageVars, PendingInv, SavedInv, AskedInv
  <2> QED
    BY <2>2, <2>3
<1>6. CASE Midnight
  <2>1. TypeOK'
    BY <1>6 DEF Midnight, TypeOK, pageVars
  <2> QED
    BY <1>6, <2>1 DEF Midnight, pageVars, PendingInv, SavedInv, AskedInv
<1>7. CASE Second
  <2>1. age' \in 0..Timeout + 1 /\ sinceFire' \in 0..Interval /\ sinceSave' \in 0..MinInterval
    BY <1>7 DEF Second, UpTo, TypeOK
  <2>2. TypeOK'
    BY <1>7, <2>1 DEF Second, TypeOK, pageVars
  <2> QED
    BY <1>7, <2>2 DEF Second, pageVars, PendingInv, SavedInv, AskedInv
<1>8. CASE FirstTick
  <2>1. TypeOK'
    BY <1>8 DEF FirstTick, TypeOK, pageVars
  <2> QED
    BY <1>8, <2>1 DEF FirstTick, pageVars, PendingInv, SavedInv, AskedInv
<1>9. CASE NobodyForSchedule
  <2>1. entries' \in 0..MaxEntries
    <3>1. Written(2) \/ Written(1)
      BY <1>9 DEF NobodyForSchedule
    <3> QED
      BY <3>1, WrittenType
  <2>2. attempts' \in 0..MaxEntries
    BY <1>9, AttemptedType DEF NobodyForSchedule
  <2>3. TypeOK'
    BY <1>9, <2>1, <2>2 DEF NobodyForSchedule, TypeOK, pageVars
  <2> QED
    BY <1>9, <2>3 DEF NobodyForSchedule, pageVars, PendingInv, SavedInv, AskedInv
<1>10. CASE Schedule
  <2>1. CASE InFlight
    <3>1. TypeOK'
      BY <1>10, <2>1 DEF Schedule, TypeOK, pageVars
    <3> QED
      BY <1>10, <2>1, <3>1 DEF Schedule, pageVars, PendingInv, SavedInv, AskedInv
  <2>2. CASE ~InFlight
    <3>1. PICK n \in reporters : Ask(n, requests + 1, {})
      BY <1>10, <2>2 DEF Schedule
    <3>2. requests + 1 \in Requests /\ requests' = requests + 1
      BY <1>10, <2>2 DEF Schedule, Due, Requests, TypeOK
    <3>3. /\ UNCHANGED <<conn, opens, reporters, started, sinceSave, saved, entries>>
          /\ sinceFire' \in 0..Interval
      BY <1>10 DEF Schedule, pageVars
    <3> QED
      BY <3>1, <3>2, <3>3, AskKeeps DEF NewOrRetried
  <2> QED
    BY <2>1, <2>2
<1>11. CASE NobodyForRetry
  <2>1. entries' \in 0..MaxEntries
    BY <1>11, WrittenType DEF NobodyForRetry
  <2>2. TypeOK'
    BY <1>11, <2>1 DEF NobodyForRetry, TypeOK, pageVars, clockVars
  <2> QED
    BY <1>11, <2>2 DEF NobodyForRetry, pageVars, clockVars, PendingInv, SavedInv, AskedInv
<1>12. CASE Retry
  <2>1. PICK n \in reporters \ pending.tried : Ask(n, pending.request, pending.tried)
    BY <1>12 DEF Retry
  <2>2. pending.request \in Requests /\ pending.tried \in SUBSET Connections
    BY <1>12 DEF Retry, Stale, TypeOK, Requests
  <2>3. /\ UNCHANGED <<conn, opens, reporters, started, sinceSave, saved, entries>>
        /\ sinceFire' \in 0..Interval /\ requests' = requests
    BY <1>12 DEF Retry, pageVars, clockVars, TypeOK
  <2> QED
    BY <2>1, <2>2, <2>3, AskKeeps DEF NewOrRetried
<1>13. CASE Exhausted
  <2>1. entries' \in 0..MaxEntries
    BY <1>13, WrittenType DEF Exhausted
  <2>2. TypeOK'
    BY <1>13, <2>1, NothingType DEF Exhausted, TypeOK, pageVars, clockVars, PendingType
  <2>3. PendingInv' /\ SavedInv' /\ AskedInv'
    BY <1>13, NothingType
       DEF Exhausted, pageVars, clockVars, TypeOK, PendingInv, SavedInv, AskedInv, Requests
  <2> QED
    BY <2>2, <2>3
<1> QED
  BY <1>0, <1>1, <1>2, <1>3, <1>4, <1>5, <1>6, <1>7, <1>8, <1>9, <1>10, <1>11, <1>12, <1>13
     DEF Next, Timer

\* ReportInv holds in every state.
THEOREM ReportInvariant == Spec => []ReportInv
<1>1. Init => ReportInv
  BY InitReport
<1>2. ReportInv /\ [Next]_reportVars => ReportInv'
  BY StepReport
<1> QED
  BY <1>1, <1>2, PTL DEF Spec

\* The variables of the server and of the pages keep their types, and only open
\* connections are asked for reports.
THEOREM TypeCorrect == Spec => []TypeOK
BY ReportInvariant, PTL DEF ReportInv

\* handleElogPost saves one report at most for each request that was sent,
\* whatever was posted late, twice or by a page that was given up.
THEOREM ReportOnce == Spec => []OneReportPerRequest
<1>1. ReportInv => OneReportPerRequest
  BY DEF ReportInv, SavedInv, OneReportPerRequest
<1> QED
  BY <1>1, ReportInvariant, PTL

\* dispatchCapture asks no connection twice for the same request.
THEOREM AskOnce == Spec => []AskedOnce
<1>1. ReportInv => AskedOnce
  BY DEF ReportInv, AskedInv, AskedOnce
<1> QED
  BY <1>1, ReportInvariant, PTL

-----------------------------------------------------------------------------
(* The server's steps are those of ReportRequests: the values it has there. *)

Late == pending.request # 0 /\ age >= Timeout
Outcome(r) == IF saved[r] > 0 THEN "saved"
              ELSE IF r <= requests /\ r # pending.request THEN "dropped" ELSE "no"

LEMMA BookValues ==
    /\ Book!requestVars =
         <<pending.request, pending.tried, Late, [r \in Requests |-> Outcome(r)]>>
    /\ Book!RequestsInit <=>
         /\ pending.request = 0 /\ pending.tried = {} /\ Late = FALSE
         /\ [r \in Requests |-> Outcome(r)] = [r \in Requests |-> "no"]
BY DEF Book!requestVars, Book!RequestsInit, Late, Outcome

\* The request under way is one of those made, and has no report yet.
LEMMA CurrentFacts ==
    ASSUME ReportInv
    PROVE  /\ requests \in Nat /\ requests <= MaxRequests /\ MaxRequests \in Nat
           /\ pending.request \in Nat /\ pending.request <= requests
           /\ \A r \in Requests : saved[r] \in 0..1 /\ r \in Nat \ {0}
           /\ \A r \in Requests : r = pending.request \/ r > requests => saved[r] = 0
           /\ age \in Nat /\ Timeout \in Nat \ {0}
           /\ reporters \subseteq Connections
<1>1. TypeOK /\ PendingInv /\ SavedInv
  BY DEF ReportInv
<1>2. /\ requests \in Nat /\ requests <= MaxRequests /\ MaxRequests \in Nat
      /\ pending.request \in Nat /\ pending.request <= requests
      /\ age \in Nat /\ Timeout \in Nat \ {0}
  BY <1>1, ReportAssumption DEF TypeOK, PendingInv
<1>3. \A r \in Requests : saved[r] \in 0..2 /\ saved[r] <= 1 /\ r \in Nat \ {0}
  BY <1>1, ReportAssumption DEF TypeOK, SavedInv, Requests
<1>4. \A r \in Requests : saved[r] > 0 => r <= requests /\ r # pending.request
  BY <1>1 DEF SavedInv
<1>5. reporters \subseteq Connections
  <2>1. \A c \in Clients : conn[c] \in 0..MaxOpens
    BY <1>1 DEF TypeOK
  <2>2. \A n \in reporters : \E c \in Clients : n = conn[c] /\ n # 0
    BY <1>1 DEF TypeOK
  <2> QED
    BY <2>1, <2>2, ReportAssumption DEF Connections
<1> QED
  BY <1>2, <1>3, <1>4, <1>5

\* Nothing of what ReportRequests tells apart changes.
LEMMA SameRequests ==
    ASSUME UNCHANGED <<pending, requests, saved, age>>
    PROVE  UNCHANGED Book!requestVars
BY BookValues DEF Book!requestVars, Requests

LEMMA SecondBook ==
    ASSUME ReportInv, Second
    PROVE  Book!RequestsNext \/ UNCHANGED Book!requestVars
<1>1. age' = UpTo(Timeout + 1, age + 1) /\ UNCHANGED <<pending, requests, saved>>
  BY DEF Second
<1>2. age >= Timeout => age' >= Timeout
  BY <1>1, CurrentFacts DEF UpTo
<1>3. CASE Late' = Late
  BY <1>1, <1>3 DEF Book!requestVars, Late
<1>4. CASE Late' # Late
  <2>1. ~Late /\ Late' /\ pending.request # 0
    BY <1>1, <1>2, <1>4 DEF Late
  <2>2. Book!Overdue
    BY <1>1, <2>1 DEF Book!Overdue, Late
  <2> QED
    BY <2>2 DEF Book!RequestsNext
<1> QED
  BY <1>3, <1>4

LEMMA PostBook ==
    ASSUME ReportInv, NEW c \in Clients, NEW r \in work[c], Post(c, r)
    PROVE  Book!RequestsNext \/ UNCHANGED Book!requestVars
<1>1. requests' = requests /\ age' = age
  BY DEF Post, pageVars
<1>2. CASE ~(r = pending.request /\ sinceSave >= MinInterval)
  <2>1. UNCHANGED <<pending, saved>>
    BY <1>2 DEF Post
  <2> QED
    BY <1>1, <2>1, SameRequests
<1>3. CASE r = pending.request /\ sinceSave >= MinInterval
  <2>1. saved' = [saved EXCEPT ![r] = UpTo(2, @ + 1)] /\ pending' = Nothing
    BY <1>3 DEF Post
  <2>2. r \in Requests
    BY DEF ReportInv, TypeOK
  <2>3. saved' = [saved EXCEPT ![r] = 1] /\ saved \in [Requests -> 0..2]
    <3>1. saved[r] = 0
      BY <1>3, <2>2, CurrentFacts
    <3>2. UpTo(2, 0 + 1) = 1
      BY DEF UpTo
    <3> QED
      BY <2>1, <3>1, <3>2 DEF ReportInv, TypeOK
  <2>4. pending'.request = 0 /\ pending'.tried = {}
    BY <2>1 DEF Nothing
  <2>5. \A q \in Requests : Outcome(q)' = IF q = r THEN "saved" ELSE Outcome(q)
    BY <1>1, <1>3, <2>3, <2>4, CurrentFacts DEF Outcome
  <2>6. [q \in Requests |-> Outcome(q)]' =
          [[q \in Requests |-> Outcome(q)] EXCEPT ![pending.request] = "saved"]
    BY <1>3, <2>2, <2>5
  <2>7. Late' = FALSE /\ pending.request # 0
    BY <1>3, <2>2, <2>4, CurrentFacts DEF Late
  <2>8. Book!End("saved")
    BY <2>4, <2>6, <2>7 DEF Book!End, Outcome, Late
  <2> QED
    BY <2>8 DEF Book!RequestsNext
<1> QED
  BY <1>2, <1>3

LEMMA ScheduleBook ==
    ASSUME ReportInv, Schedule
    PROVE  Book!RequestsNext \/ UNCHANGED Book!requestVars
<1>1. saved' = saved
  BY DEF Schedule
<1>2. CASE InFlight
  BY <1>1, <1>2, SameRequests DEF Schedule
<1>3. CASE ~InFlight
  <2>1. requests' = requests + 1 /\ requests < MaxRequests
    BY <1>3 DEF Schedule, Due
  <2>2. PICK n \in reporters : Ask(n, requests + 1, {})
    BY <1>3 DEF Schedule
  <2> PICK r : r = requests + 1
    OBVIOUS
  <2>3. r \in Requests /\ n \in Connections /\ r # 0
    BY <2>1, CurrentFacts DEF Requests
  <2>4. pending'.request = r /\ pending'.tried = {n} /\ age' = 0
    BY <2>2 DEF Ask
  <2>5. Late' = FALSE
    BY <2>4, CurrentFacts DEF Late
  <2>6. pending.request # 0 => Late
    BY <1>3, CurrentFacts DEF InFlight, Late
  <2>7. /\ \A q \in Requests : Outcome(q) = "no" => q >= r \/ q = pending.request
        /\ Outcome(r) = "no" /\ r # pending.request
    BY <2>3, CurrentFacts DEF Outcome
  <2>8. \A q \in Requests :
           Outcome(q)' = IF q = pending.request THEN "dropped" ELSE Outcome(q)
    BY <1>1, <2>1, <2>4, CurrentFacts DEF Outcome
  <2>9. [q \in Requests |-> Outcome(q)]' =
          [q \in Requests |-> IF q = pending.request THEN "dropped" ELSE Outcome(q)]
    BY <2>8 DEF Requests
  <2>10. Book!Begin(r, n)
    BY <2>3, <2>4, <2>5, <2>6, <2>7, <2>9 DEF Book!Begin, Outcome, Late
  <2> QED
    BY <2>3, <2>10 DEF Book!RequestsNext
<1> QED
  BY <1>2, <1>3

LEMMA RetryBook ==
    ASSUME ReportInv, Retry
    PROVE  Book!RequestsNext
<1>1. pending.request # 0 /\ Late /\ UNCHANGED <<requests, saved>>
  BY CurrentFacts DEF Retry, Stale, Late
<1>2. PICK n \in reporters \ pending.tried : Ask(n, pending.request, pending.tried)
  BY DEF Retry
<1>3. pending'.request = pending.request /\ pending'.tried = pending.tried \cup {n} /\ age' = 0
  BY <1>2 DEF Ask
<1>4. Late' = FALSE /\ n \in Connections
  BY <1>3, CurrentFacts DEF Late
<1>5. [r \in Requests |-> Outcome(r)]' = [r \in Requests |-> Outcome(r)]
  BY <1>1, <1>3 DEF Outcome, Requests
<1>6. Book!AskNext(n)
  BY <1>1, <1>2, <1>3, <1>4, <1>5 DEF Book!AskNext, Outcome, Late
<1> QED
  BY <1>4, <1>6 DEF Book!RequestsNext

LEMMA ExhaustedBook ==
    ASSUME ReportInv, Exhausted
    PROVE  Book!RequestsNext
<1>1. pending.request # 0 /\ Late /\ UNCHANGED <<requests, saved, age>> /\ pending' = Nothing
  BY CurrentFacts DEF Exhausted, Stale, Late
<1>2. pending'.request = 0 /\ pending'.tried = {}
  BY <1>1 DEF Nothing
<1>3. pending.request \in Requests
  BY <1>1, CurrentFacts DEF Requests
<1>4. \A q \in Requests : Outcome(q)' = IF q = pending.request THEN "dropped" ELSE Outcome(q)
  BY <1>1, <1>2, CurrentFacts DEF Outcome
<1>5. [q \in Requests |-> Outcome(q)]' =
        [[q \in Requests |-> Outcome(q)] EXCEPT ![pending.request] = "dropped"]
  BY <1>3, <1>4
<1>6. Late' = FALSE
  BY <1>2 DEF Late
<1>7. Book!End("dropped")
  BY <1>1, <1>2, <1>5, <1>6 DEF Book!End, Outcome, Late
<1> QED
  BY <1>7 DEF Book!RequestsNext

\* The server implements ReportRequests: every step of timer, pages and posts is
\* a step of the one request under way, or none at all.
THEOREM ServerKeepsRequests == Spec => KeepsRequests
<1>1. Init => Book!RequestsInit
  <2> SUFFICES ASSUME Init PROVE Book!RequestsInit
    OBVIOUS
  <2>1. pending.request = 0 /\ pending.tried = {} /\ Late = FALSE
    BY DEF Init, Nothing, Late
  <2>2. \A r \in Requests : Outcome(r) = "no"
    BY ReportAssumption DEF Init, Outcome, Requests
  <2> QED
    BY <2>1, <2>2, BookValues
<1>2. ReportInv /\ [Next]_reportVars => [Book!RequestsNext]_(Book!requestVars)
  <2> SUFFICES ASSUME ReportInv, [Next]_reportVars
               PROVE  Book!RequestsNext \/ UNCHANGED Book!requestVars
    OBVIOUS
  <2>1. ASSUME NEW c \in Clients, NEW r \in work[c], Post(c, r)
        PROVE  Book!RequestsNext \/ UNCHANGED Book!requestVars
    BY <2>1, PostBook
  <2>2. CASE Second
    BY <2>2, SecondBook
  <2>3. CASE Schedule
    BY <2>3, ScheduleBook
  <2>4. CASE Retry
    BY <2>4, RetryBook
  <2>5. CASE Exhausted
    BY <2>5, ExhaustedBook
  <2>6. CASE \/ \E c \in Clients :
                   \/ \E reload \in BOOLEAN : Open(c, reload)
                   \/ Hello(c) \/ Close(c)
                   \/ \E r \in work[c] : GiveUp(c, r)
             \/ Midnight \/ FirstTick \/ NobodyForSchedule \/ NobodyForRetry
             \/ UNCHANGED reportVars
    <3>1. UNCHANGED <<pending, requests, saved, age>>
      BY <2>6 DEF Open, Hello, Close, GiveUp, Midnight, FirstTick, NobodyForSchedule,
                  NobodyForRetry, reportVars
    <3> QED
      BY <3>1, SameRequests
  <2> QED
    BY <2>1, <2>2, <2>3, <2>4, <2>5, <2>6 DEF Next, Timer
<1> QED
  BY <1>1, <1>2, ReportInvariant, PTL DEF Spec, KeepsRequests, Book!RequestsSpec

-----------------------------------------------------------------------------
(* The page. *)

Canvases == {"none", "empty", "drawn"}
Flags    == {"data", "board", "booster", "color", "fault"}

\* What Screen is.
Screens == [stale : SUBSET Parts, dirty : SUBSET Flags, throttled : SUBSET HVMonParts,
            unread : BOOLEAN, canvas : [Maps -> Canvases]]

\* The flags that make the render loop draw whatever is open.
Awaited(s) == "data" \in s.dirty \/ "booster" \in s.dirty

\* Screen s may be shown with any tab: a map without a canvas waits for its
\* resize observer, an old popup for a frame, the fault log and the colours have
\* their flags, or the log has no entries to show.
ScreenInv(s) ==
  /\ \A w \in Maps : s.canvas[w] = "none" => w \notin sized
  /\ s.canvas["hvmon"] # "empty"
  /\ \A p \in Popups : p \in s.stale => p \in popups /\ Awaited(s)
  /\ "links" \in s.stale => "data" \in s.dirty
  /\ "faultlog" \in s.stale /\ logged => "fault" \in s.dirty
  /\ ~touched /\ "colors" \in s.stale => "color" \in s.dirty

\* What is old on tab t of screen s is flagged, or waits for the canvas.
ViewInv(s, t) ==
  /\ t = "table" /\ "table" \in s.stale => "data" \in s.dirty
  /\ t = "board" /\ "board" \in s.stale => "board" \in s.dirty
  /\ t = "booster" /\ "booster" \in s.stale => "booster" \in s.dirty
  /\ t = "faultlog" /\ logged => "faultlog" \notin s.stale
  /\ t = "geo" /\ "geo" \in s.stale /\ ~touched => Awaited(s) \/ "geo" \notin sized

DisplayType == tab \in Tabs /\ Screen \in Screens /\ popups \subseteq Popups

DueInv == DisplayType /\ ScreenInv(Screen) /\ ViewInv(Screen, tab)

-----------------------------------------------------------------------------
(* What the drawing functions do to a screen. *)

LEMMA RenderKeeps ==
  ASSUME NEW s \in Screens, NEW w \in Maps, ScreenInv(s), NEW r, r = Render(s, w)
  PROVE  /\ r \in Screens /\ ScreenInv(r)
         /\ r.stale \subseteq s.stale
         /\ r.dirty = s.dirty \/ r.dirty = s.dirty \ {"color"}
         /\ r.canvas = s.canvas \/ r.canvas = [s.canvas EXCEPT ![w] = "drawn"]
         /\ w = "geo" /\ "geo" \in r.stale /\ ~touched => "geo" \notin sized
         /\ r.unread = s.unread
<1>1. CASE s.canvas[w] = "none"
  <2>1. r = s
    BY <1>1 DEF Render
  <2> QED
    BY <2>1, <1>1 DEF ScreenInv, Maps
<1>2. CASE s.canvas[w] # "none"
  <2> DEFINE st == s.stale \ Colored(s, w)
             di == IF w = "geo" THEN s.dirty \ {"color"} ELSE s.dirty
             ca == [s.canvas EXCEPT ![w] = "drawn"]
  <2>1. r = [s EXCEPT !.canvas = ca, !.stale = st, !.dirty = di]
    BY <1>2 DEF Render, Screens
  <2>2. st \in SUBSET Parts /\ di \in SUBSET Flags /\ ca \in [Maps -> Canvases]
    BY DEF Screens, Canvases, Maps
  <2>3. r = [stale |-> st, dirty |-> di, throttled |-> s.throttled,
             unread |-> s.unread, canvas |-> ca]
    BY <2>1 DEF Screens
  <2>4. /\ r.stale = st /\ r.dirty = di /\ r.canvas = ca /\ r \in Screens
        /\ r.unread = s.unread
    BY <2>2, <2>3 DEF Screens
  <2>5. /\ \A v \in Maps : ca[v] = "none" => s.canvas[v] = "none"
        /\ ca["hvmon"] # "empty"
    BY DEF Screens, Maps, ScreenInv
  <2>6. st \subseteq s.stale
    OBVIOUS
  <2>7. /\ \A p \in Popups : p \in st => "data" \in di \/ "booster" \in di
        /\ "links" \in st => "data" \in di
    BY <2>6 DEF ScreenInv, Awaited
  <2>8. "faultlog" \in st /\ logged => "fault" \in di
    BY <2>6 DEF ScreenInv
  <2>9. ~touched /\ "colors" \in st => "color" \in di
    BY DEF ScreenInv, Colored, ModuleColorsAreTrue, Maps
  <2>10. ScreenInv(r)
    BY <2>4, <2>5, <2>6, <2>7, <2>8, <2>9 DEF ScreenInv, Awaited
  <2>11. w = "geo" /\ "geo" \in st => touched
    BY DEF ScreenInv, Colored, ModuleColorsAreTrue
  <2> QED
    BY <2>4, <2>6, <2>10, <2>11
<1> QED
  BY <1>1, <1>2

LEMMA RenderMapKeeps ==
  ASSUME NEW s \in Screens, NEW t \in Tabs, ScreenInv(s), NEW r, r = RenderMap(s, t)
  PROVE  /\ r \in Screens /\ ScreenInv(r)
         /\ r.stale \subseteq s.stale
         /\ r.dirty = s.dirty \/ r.dirty = s.dirty \ {"color"}
         /\ r.canvas = s.canvas \/ (t \in Maps /\ r.canvas = [s.canvas EXCEPT ![t] = "drawn"])
         /\ t = "geo" /\ "geo" \in r.stale /\ ~touched => "geo" \notin sized
         /\ r.unread = s.unread
<1>1. CASE t \in Maps /\ (t = "hvmon" => "sigma" \notin s.throttled)
  <2>1. r = Render(s, t) /\ t \in Maps
    BY <1>1 DEF RenderMap
  <2>2. /\ r \in Screens /\ ScreenInv(r)
        /\ r.stale \subseteq s.stale
        /\ r.dirty = s.dirty \/ r.dirty = s.dirty \ {"color"}
        /\ r.canvas = s.canvas \/ r.canvas = [s.canvas EXCEPT ![t] = "drawn"]
        /\ t = "geo" /\ "geo" \in r.stale /\ ~touched => "geo" \notin sized
        /\ r.unread = s.unread
    BY <2>1, RenderKeeps
  <2> QED
    BY <2>1, <2>2
<1>2. CASE ~(t \in Maps /\ (t = "hvmon" => "sigma" \notin s.throttled))
  <2>1. r = s /\ t # "geo"
    BY <1>2 DEF RenderMap, Maps
  <2> QED
    BY <2>1
<1> QED
  BY <1>1, <1>2

LEMMA DrawnKeeps ==
  ASSUME NEW s \in Screens, NEW t \in Tabs, ScreenInv(s), NEW r, r = Drawn(s, t)
  PROVE  /\ r \in Screens /\ ScreenInv(r)
         /\ t \in {"table", "geo", "faultlog", "hvmon"} => ViewInv(r, t)
         /\ t \in {"board", "booster"} /\ (t \in s.dirty \/ ViewInv(s, t)) => ViewInv(r, t)
         /\ t # "geo" => r.canvas["geo"] = s.canvas["geo"]
         /\ r.canvas["geo"] \in {s.canvas["geo"], "drawn"}
         /\ t # "faultlog" => r.unread = s.unread
<1>0. PICK m : m = RenderMap(s, t)
  OBVIOUS
<1>1. /\ m \in Screens /\ ScreenInv(m)
      /\ m.stale \subseteq s.stale
      /\ m.dirty = s.dirty \/ m.dirty = s.dirty \ {"color"}
      /\ m.canvas = s.canvas \/ (t \in Maps /\ m.canvas = [s.canvas EXCEPT ![t] = "drawn"])
      /\ t = "geo" /\ "geo" \in m.stale /\ ~touched => "geo" \notin sized
  BY <1>0, RenderMapKeeps
<1> DEFINE st == m.stale \ (Redrawn(s, t) \union RefreshAllPopups(s))
           di == m.dirty \ Cleared(t)
           th == m.throttled \union (IF t = "hvmon" THEN HVMonParts ELSE {})
<1>2. r = [m EXCEPT !.stale = st, !.dirty = di, !.throttled = th, !.unread = Dot(s, t)]
  BY <1>0 DEF Drawn
<1>3. r = [stale |-> st, dirty |-> di, throttled |-> th, unread |-> Dot(s, t),
           canvas |-> m.canvas]
  BY <1>1, <1>2 DEF Screens
<1>4. m.canvas \in [Maps -> Canvases] /\ Dot(s, t) \in BOOLEAN
  BY <1>1 DEF Dot, Screens
<1>5. th \in SUBSET HVMonParts /\ st \in SUBSET Parts /\ di \in SUBSET Flags
  BY <1>1 DEF Screens
<1>6. r.stale = st /\ r.dirty = di /\ r.canvas = m.canvas /\ r \in Screens
  <2> HIDE DEF st, di, th
  <2>1. r.stale = st /\ r.dirty = di /\ r.canvas = m.canvas
    BY <1>3
  <2>2. r \in Screens
    <3>1. PICK d \in BOOLEAN : d = Dot(s, t)
      BY <1>4
    <3>2. r = [stale |-> st, dirty |-> di, throttled |-> th, unread |-> d, canvas |-> m.canvas]
      BY <1>3, <3>1
    <3> QED
      BY <1>4, <1>5, <3>2 DEF Screens
  <2> QED
    BY <2>1, <2>2
<1>7. (\A p \in Popups : p \notin st) /\ "links" \notin st
  BY <1>1 DEF RefreshAllPopups, ModuleParts
<1>8. "faultlog" \in st /\ logged => "fault" \in di /\ t # "faultlog"
  BY <1>1 DEF Redrawn, RenderFaultLog, Cleared, ScreenInv, Tabs
<1>9. ~touched /\ "colors" \in st => "color" \in di
  BY <1>1 DEF ScreenInv, Cleared, Tabs
<1>10. ScreenInv(r)
  BY <1>1, <1>6, <1>7, <1>8, <1>9 DEF ScreenInv
<1>11. t = "table" => "table" \notin st
  BY DEF Redrawn, RenderTable
<1>12. t = "geo" /\ "geo" \in st /\ ~touched => "geo" \notin sized
  BY <1>1
<1>13. t \in {"board", "booster"} /\ (t \in s.dirty \/ t \notin s.stale) => t \notin st
  BY <1>1 DEF Redrawn, RenderBoardTable, RenderBoosterCards
<1>14. t \in {"table", "geo", "faultlog", "hvmon"} => ViewInv(r, t)
  BY <1>6, <1>8, <1>11, <1>12 DEF ViewInv
<1>15. t \in {"board", "booster"} /\ (t \in s.dirty \/ ViewInv(s, t)) => ViewInv(r, t)
  BY <1>6, <1>13 DEF ViewInv
<1>16. /\ t # "geo" => r.canvas["geo"] = s.canvas["geo"]
       /\ r.canvas["geo"] \in {s.canvas["geo"], "drawn"}
  BY <1>1, <1>6 DEF Screens, Maps
<1>17. t # "faultlog" => r.unread = s.unread
  <2>1. r.unread = Dot(s, t)
    BY <1>3
  <2>2. s.unread \in BOOLEAN
    BY DEF Screens
  <2>3. t # "faultlog" => (Dot(s, t) <=> s.unread)
    BY DEF Dot
  <2> QED
    BY <1>4, <2>1, <2>2, <2>3, Zenon
<1> QED
  BY <1>6, <1>10, <1>14, <1>15, <1>16, <1>17 DEF Tabs

\* A tab that opens is drawn anew.
LEMMA OpenedKeeps ==
  ASSUME NEW s \in Screens, NEW t \in Tabs, NEW more \in SUBSET Flags, ScreenInv(s),
         NEW r, r = Opened(s, t, more)
  PROVE  /\ r \in Screens /\ ScreenInv(r) /\ ViewInv(r, t)
         /\ t # "geo" => r.canvas["geo"] = s.canvas["geo"]
         /\ t # "faultlog" => r.unread = s.unread
<1> DEFINE di == s.dirty \union more \union ({t} \intersect {"board", "booster"})
<1>1. PICK u : u = [s EXCEPT !.dirty = di]
  OBVIOUS
<1>2. u = [stale |-> s.stale, dirty |-> di, throttled |-> s.throttled, unread |-> s.unread,
           canvas |-> s.canvas]
  BY <1>1 DEF Screens
<1>3. di \in SUBSET Flags /\ s.dirty \subseteq di
  BY DEF Screens, Flags
<1>4. /\ u \in Screens
      /\ u.stale = s.stale /\ u.canvas = s.canvas /\ u.dirty = di /\ u.unread = s.unread
  <2> HIDE DEF di
  <2> QED
    BY <1>2, <1>3 DEF Screens
<1>5. t \in {"board", "booster"} => t \in u.dirty
  BY <1>4
<1>6. ScreenInv(u)
  <2> HIDE DEF di
  <2> QED
    BY <1>3, <1>4 DEF ScreenInv, Awaited
<1>7. r = Drawn(u, t)
  BY <1>1 DEF Opened
<1>8. /\ r \in Screens /\ ScreenInv(r)
      /\ t \in {"table", "geo", "faultlog", "hvmon"} => ViewInv(r, t)
      /\ t \in {"board", "booster"} /\ (t \in u.dirty \/ ViewInv(u, t)) => ViewInv(r, t)
      /\ t # "geo" => r.canvas["geo"] = u.canvas["geo"]
      /\ t # "faultlog" => r.unread = u.unread
  BY <1>4, <1>6, <1>7, DrawnKeeps
<1> QED
  BY <1>4, <1>5, <1>8 DEF Tabs

\* The map's canvas is emptied.
LEMMA ResizeKeeps ==
  ASSUME NEW s \in Screens, ScreenInv(s), NEW t \in Tabs, NEW r, r = ResizeGeoCanvas(s, t)
  PROVE  /\ r \in Screens /\ ScreenInv(r)
         /\ ViewInv(s, t) => ViewInv(r, t)
         /\ t # "geo" => r = s
         /\ t = "geo" => r.canvas["geo"] = "empty"
         /\ r.unread = s.unread
<1>1. CASE t # "geo"
  BY <1>1 DEF ResizeGeoCanvas
<1>2. CASE t = "geo"
  <2>1. PICK ca : ca = [s.canvas EXCEPT !["geo"] = "empty"]
    OBVIOUS
  <2>2. ca \in [Maps -> Canvases] /\ ca["geo"] = "empty" /\ ca["hvmon"] = s.canvas["hvmon"]
    BY <2>1 DEF Screens, Maps, Canvases
  <2>3. r = [stale |-> s.stale, dirty |-> s.dirty, throttled |-> s.throttled,
             unread |-> s.unread, canvas |-> ca]
    BY <1>2, <2>1 DEF ResizeGeoCanvas, Screens
  <2>4. /\ r \in Screens
        /\ r.stale = s.stale /\ r.dirty = s.dirty /\ r.canvas = ca /\ r.unread = s.unread
    BY <2>2, <2>3 DEF Screens
  <2>5. ScreenInv(r)
    BY <2>2, <2>4 DEF ScreenInv, Awaited, Maps
  <2>6. ViewInv(s, t) => ViewInv(r, t)
    BY <2>4 DEF ViewInv, Awaited
  <2> QED
    BY <1>2, <2>2, <2>4, <2>5, <2>6
<1> QED
  BY <1>1, <1>2

LEMMA InitHVMonKeeps ==
  ASSUME NEW s \in Screens, ScreenInv(s), NEW t \in Tabs, ViewInv(s, t),
         NEW r, r = InitHVMonGeo(s, t)
  PROVE  /\ r \in Screens /\ ScreenInv(r) /\ ViewInv(r, t)
         /\ r.canvas["geo"] = s.canvas["geo"] /\ r.unread = s.unread
<1>1. CASE t # "hvmon"
  BY <1>1 DEF InitHVMonGeo
<1>2. CASE t = "hvmon"
  <2>1. r = Render(s, t) /\ t \in Maps
    BY <1>2 DEF InitHVMonGeo, Maps
  <2>2. /\ r \in Screens /\ ScreenInv(r) /\ r.unread = s.unread
        /\ r.canvas = s.canvas \/ r.canvas = [s.canvas EXCEPT ![t] = "drawn"]
    BY <2>1, RenderKeeps
  <2>3. r.canvas["geo"] = s.canvas["geo"]
    BY <1>2, <2>2 DEF Screens, Maps
  <2>4. ViewInv(r, t)
    BY <1>2 DEF ViewInv
  <2> QED
    BY <2>2, <2>3, <2>4
<1> QED
  BY <1>1, <1>2

\* What a report does to the screen when it opens a tab.
LEMMA ActivateKeeps ==
  ASSUME NEW s \in Screens, ScreenInv(s), NEW t \in Tabs, NEW r, r = ActivateTab(s, t)
  PROVE  /\ r \in Screens /\ ScreenInv(r) /\ ViewInv(r, t)
         /\ t # "geo" => r.canvas["geo"] = s.canvas["geo"]
         /\ t # "faultlog" => r.unread = s.unread
<1>1. PICK u : u = Opened(s, t, {})
  OBVIOUS
<1>2. /\ u \in Screens /\ ScreenInv(u) /\ ViewInv(u, t)
      /\ t # "geo" => u.canvas["geo"] = s.canvas["geo"]
      /\ t # "faultlog" => u.unread = s.unread
  BY <1>1, OpenedKeeps
<1>3. PICK v : v = ResizeGeoCanvas(u, t)
  OBVIOUS
<1>4. /\ v \in Screens /\ ScreenInv(v) /\ ViewInv(v, t) /\ v.unread = u.unread
      /\ t # "geo" => v = u
  BY <1>2, <1>3, ResizeKeeps
<1>5. r = InitHVMonGeo(v, t)
  BY <1>1, <1>3 DEF ActivateTab
<1>6. /\ r \in Screens /\ ScreenInv(r) /\ ViewInv(r, t)
      /\ r.canvas["geo"] = v.canvas["geo"] /\ r.unread = v.unread
  BY <1>4, <1>5, InitHVMonKeeps
<1> QED
  BY <1>2, <1>4, <1>6

\* What a click does to the screen: the map is drawn at once.
Clicked(t) ==
  LET s == ResizeGeoCanvas(Opened(Screen, t, {"data"}), t) IN InitHVMonGeo(ResetGeoView(s, t), t)

LEMMA ClickKeeps ==
  ASSUME Screen \in Screens, ScreenInv(Screen), NEW t \in Tabs, NEW r, r = Clicked(t)
  PROVE  /\ r \in Screens /\ ScreenInv(r) /\ ViewInv(r, t)
         /\ t = "geo" => r.canvas["geo"] = "drawn"
         /\ t # "faultlog" => r.unread = unread
<1>1. PICK u : u = Opened(Screen, t, {"data"})
  OBVIOUS
<1>2. /\ u \in Screens /\ ScreenInv(u) /\ ViewInv(u, t)
      /\ t # "faultlog" => u.unread = unread
  <2>1. Screen.unread = unread /\ {"data"} \in SUBSET Flags
    BY DEF Screen, Flags
  <2> QED
    BY <1>1, <2>1, OpenedKeeps
<1>3. PICK v : v = ResizeGeoCanvas(u, t)
  OBVIOUS
<1>4. /\ v \in Screens /\ ScreenInv(v) /\ ViewInv(v, t) /\ v.unread = u.unread
      /\ t = "geo" => v.canvas["geo"] = "empty"
  BY <1>2, <1>3, ResizeKeeps
<1>5. PICK w : w = ResetGeoView(v, t)
  OBVIOUS
<1>6. /\ w \in Screens /\ ScreenInv(w) /\ ViewInv(w, t) /\ w.unread = v.unread
      /\ t = "geo" => w.canvas["geo"] = "drawn"
  <2>1. CASE t # "geo"
    BY <1>4, <1>5, <2>1 DEF ResetGeoView
  <2>2. CASE t = "geo"
    <3>1. w = Render(v, t) /\ t \in Maps
      BY <1>5, <2>2 DEF ResetGeoView, Maps
    <3>2. /\ w \in Screens /\ ScreenInv(w) /\ w.unread = v.unread
          /\ t = "geo" /\ "geo" \in w.stale /\ ~touched => "geo" \notin sized
      BY <1>4, <3>1, RenderKeeps
    <3>3. w.canvas["geo"] = "drawn"
      BY <1>4, <2>2, <3>1 DEF Render, Screens, Maps
    <3>4. ViewInv(w, t)
      BY <2>2, <3>2 DEF ViewInv
    <3> QED
      BY <3>2, <3>3, <3>4
  <2> QED
    BY <2>1, <2>2
<1>7. r = InitHVMonGeo(w, t)
  BY <1>1, <1>3, <1>5 DEF Clicked
<1>8. /\ r \in Screens /\ ScreenInv(r) /\ ViewInv(r, t)
      /\ r.canvas["geo"] = w.canvas["geo"] /\ r.unread = w.unread
  BY <1>6, <1>7, InitHVMonKeeps
<1> QED
  BY <1>2, <1>4, <1>6, <1>8

-----------------------------------------------------------------------------
(* Nothing old is left undue by the page's own steps. *)

\* The state shows screen s and tab t.
LEMMA ShownDue ==
  ASSUME NEW s \in Screens, Shows(s), ScreenInv(s), NEW t \in Tabs, ViewInv(s, t), tab' = t,
         popups \subseteq Popups, UNCHANGED <<sized, popups, touched, logged>>
  PROVE  DueInv' /\ canvas' = s.canvas
<1>1. /\ stale' = s.stale /\ dirty' = s.dirty /\ throttled' = s.throttled
      /\ unread' = s.unread /\ canvas' = s.canvas
  BY DEF Shows
<1>2. Screen' = s
  BY <1>1 DEF Screen, Screens
<1>3. DisplayType'
  BY <1>2 DEF DisplayType
<1>4. ScreenInv(Screen)'
  BY <1>2 DEF ScreenInv, Awaited
<1>5. ViewInv(Screen, tab)'
  BY <1>2 DEF ViewInv, Awaited
<1> QED
  BY <1>1, <1>3, <1>4, <1>5 DEF DueInv

LEMMA FrameDue == ASSUME DueInv, Frame PROVE DueInv'
<1>1. PICK s : s = Drawn(Screen, tab)
  OBVIOUS
<1>2. s \in Screens /\ ScreenInv(s) /\ ViewInv(s, tab)
  <2>1. Screen \in Screens /\ tab \in Tabs /\ ScreenInv(Screen) /\ ViewInv(Screen, tab)
    BY DEF DueInv, DisplayType
  <2>2. /\ s \in Screens /\ ScreenInv(s)
        /\ tab \in {"table", "geo", "faultlog", "hvmon"} => ViewInv(s, tab)
        /\ tab \in {"board", "booster"} /\ (tab \in Screen.dirty \/ ViewInv(Screen, tab))
             => ViewInv(s, tab)
    BY <1>1, <2>1, DrawnKeeps
  <2> QED
    BY <2>1, <2>2 DEF Tabs
<1>3. Shows(s) /\ tab' = tab /\ UNCHANGED <<sized, popups, touched, logged>>
  BY <1>1 DEF Frame, logVars
<1> QED
  BY <1>2, <1>3, ShownDue DEF DueInv, DisplayType

LEMMA ResizeDueKeeps ==
  ASSUME DueInv, NEW w \in Maps, ResizeCanvas(w)
  PROVE  DueInv'
<1> USE DEF Maps
<1>0. /\ Screen \in Screens /\ tab \in Tabs /\ popups \subseteq Popups
      /\ ScreenInv(Screen) /\ ViewInv(Screen, tab)
  BY DEF DueInv, DisplayType
<1>1. PICK u : u = [Screen EXCEPT !.canvas[w] = IF tab = w THEN "empty" ELSE "none"]
  OBVIOUS
<1>2. PICK ca : ca = [canvas EXCEPT ![w] = IF tab = w THEN "empty" ELSE "none"]
  OBVIOUS
<1>3. /\ u.stale = stale /\ u.dirty = dirty /\ u.throttled = throttled /\ u.unread = unread
      /\ u.canvas = ca
      /\ u = [stale |-> stale, dirty |-> dirty, throttled |-> throttled, unread |-> unread,
              canvas |-> ca]
  BY <1>1, <1>2 DEF Screen
<1>4. ca \in [Maps -> Canvases] /\ canvas \in [Maps -> Canvases]
  BY <1>0, <1>2 DEF Screen, Screens, Canvases
<1>5. u \in Screens
  BY <1>0, <1>3, <1>4 DEF Screen, Screens
<1>6. CASE tab = w
  <2>1. sized' = sized \union {w} /\ Shows(Render(u, w))
    BY <1>1, <1>6 DEF ResizeCanvas
  <2>2. PICK s : s = Render(u, w)
    OBVIOUS
  <2>3. /\ u.canvas[w] = "empty"
        /\ s = [u EXCEPT !.canvas[w] = "drawn", !.stale = @ \ Colored(u, w),
                        !.dirty = IF w = "geo" THEN @ \ {"color"} ELSE @]
    BY <1>2, <1>3, <1>4, <1>6, <2>2 DEF Render
  <2> DEFINE st == stale \ Colored(u, w)
             di == IF w = "geo" THEN dirty \ {"color"} ELSE dirty
  <2>4. PICK cb : cb = [ca EXCEPT ![w] = "drawn"]
    OBVIOUS
  <2>5. /\ stale' = st /\ dirty' = di /\ throttled' = throttled /\ unread' = unread
        /\ canvas' = cb
    BY <1>3, <2>1, <2>2, <2>3, <2>4 DEF Shows
  <2>6. /\ cb \in [Maps -> Canvases] /\ cb[w] = "drawn"
        /\ \A v \in Maps : v # w => cb[v] = canvas[v]
    BY <1>2, <1>4, <2>4 DEF Canvases
  <2>7. st \in SUBSET Parts /\ di \in SUBSET Flags /\ st \subseteq stale
    BY <1>0 DEF Screen, Screens
  <2>8. DisplayType'
    <3>1. Screen' = [stale |-> st, dirty |-> di, throttled |-> throttled, unread |-> unread,
                     canvas |-> cb]
      BY <2>5 DEF Screen
    <3>2. throttled \in SUBSET HVMonParts /\ unread \in BOOLEAN
      BY <1>0 DEF Screen, Screens
    <3>3. Screen' \in Screens
      <4> HIDE DEF st, di
      <4> QED
        BY <2>6, <2>7, <3>1, <3>2 DEF Screens
    <3>4. tab' = tab /\ popups' = popups
      BY DEF ResizeCanvas
    <3> QED
      BY <1>0, <3>3, <3>4 DEF DisplayType
  <2>9. UNCHANGED <<popups, touched, logged, tab>>
    BY DEF ResizeCanvas, logVars
  <2>10. (\A v \in Maps : cb[v] = "none" => v \notin sized') /\ cb["hvmon"] # "empty"
    BY <1>0, <2>1, <2>6 DEF ScreenInv, Screen
  <2>11. /\ \A p \in Popups : p \in st => p \in popups' /\ ("data" \in di \/ "booster" \in di)
         /\ "links" \in st => "data" \in di
    BY <1>0, <2>7, <2>9 DEF ScreenInv, Screen, Awaited
  <2>12. /\ "faultlog" \in st /\ logged' => "fault" \in di
         /\ ~touched' /\ "colors" \in st => "color" \in di
    BY <1>0, <2>7, <2>9, <1>3 DEF ScreenInv, Screen, Colored, ModuleColorsAreTrue
  <2>13. ScreenInv(Screen)'
    BY <2>5, <2>10, <2>11, <2>12 DEF ScreenInv, Screen, Awaited
  <2>14. "geo" \in st /\ w = "geo" => touched
    BY <1>0, <1>3 DEF Colored, ModuleColorsAreTrue, ScreenInv, Screen
  <2>15. ViewInv(Screen, tab)'
    BY <1>6, <2>5, <2>9, <2>14 DEF ViewInv, Screen
  <2> QED
    BY <2>8, <2>13, <2>15 DEF DueInv
<1>7. CASE tab # w
  <2>1. sized' = sized \ {w} /\ Shows(u) /\ UNCHANGED <<tab, popups, touched, logged>>
    BY <1>1, <1>7 DEF ResizeCanvas, logVars
  <2>2. Screen' = u
    BY <1>3, <2>1 DEF Screen, Shows
  <2>3. DisplayType'
    BY <1>0, <1>5, <2>1, <2>2 DEF DisplayType
  <2>4. \A v \in Maps : ca[v] = "none" => v \notin sized'
    BY <1>0, <1>2, <1>4, <2>1 DEF ScreenInv, Screen
  <2>5. ca["hvmon"] # "empty"
    BY <1>0, <1>2, <1>4, <1>7 DEF ScreenInv, Screen
  <2>6. ScreenInv(Screen)'
    BY <1>0, <1>3, <2>1, <2>2, <2>4, <2>5 DEF ScreenInv, Screen, Awaited
  <2>7. ViewInv(Screen, tab)'
    BY <1>0, <1>3, <2>1, <2>2 DEF ViewInv, Screen, Awaited
  <2> QED
    BY <2>3, <2>6, <2>7 DEF DueInv
<1> QED
  BY <1>6, <1>7

\* The flags of what arrives answer for the parts it makes old.
Answers(flags, parts) ==
  /\ parts \intersect Popups # {} => "data" \in flags \/ "booster" \in flags
  /\ "links" \in parts => "data" \in flags
  /\ "faultlog" \notin parts
  /\ "table" \in parts => "data" \in flags
  /\ "board" \in parts => "board" \in flags
  /\ "booster" \in parts => "booster" \in flags

LEMMA ArriveDue ==
  ASSUME DueInv, NEW flags \in SUBSET Flags, NEW parts \in SUBSET Parts, NEW settled,
         Arrive(flags, parts, settled), Answers(flags, parts),
         "colors" \in parts => "color" \in flags,
         "geo" \in parts \/ "color" \in flags => "data" \in flags \/ "booster" \in flags
  PROVE  DueInv'
<1>0. /\ Screen \in Screens /\ tab \in Tabs /\ popups \subseteq Popups
      /\ ScreenInv(Screen) /\ ViewInv(Screen, tab)
  BY DEF DueInv, DisplayType
<1>1. /\ dirty' = dirty \union flags /\ stale' \subseteq stale \union parts
      /\ \A p \in Popups : p \in stale' => p \in stale \/ (p \in parts /\ p \in popups)
      /\ touched' = (touched /\ "color" \notin flags)
      /\ UNCHANGED <<tab, popups, throttled, canvas, sized, unread, logged>>
  BY DEF Arrive, Closed, PartsOf, ModuleParts, Popups, logVars
<1>2. stale' \in SUBSET Parts /\ dirty' \in SUBSET Flags
  BY <1>0, <1>1 DEF Screen, Screens
<1>3. Screen' \in Screens
  <2>1. throttled \in SUBSET HVMonParts /\ unread \in BOOLEAN /\ canvas \in [Maps -> Canvases]
    BY <1>0 DEF Screen, Screens
  <2>2. Screen' = [stale |-> stale', dirty |-> dirty', throttled |-> throttled,
                   unread |-> unread, canvas |-> canvas]
    BY <1>1 DEF Screen
  <2> QED
    BY <1>2, <2>1, <2>2 DEF Screens
<1>4. DisplayType'
  BY <1>0, <1>1, <1>3 DEF DisplayType
<1>5. touched => touched' \/ "color" \in flags
  BY <1>1
<1>6. ScreenInv(Screen)'
  BY <1>0, <1>1, <1>5 DEF ScreenInv, Screen, Awaited, Answers
<1>7. ViewInv(Screen, tab)'
  <2>1. \A x \in {"table", "board", "booster"} : tab' = x /\ x \in stale' => x \in stale \/ x \in parts
    BY <1>1
  <2>2. tab' = "faultlog" /\ logged' => "faultlog" \notin stale'
    BY <1>0, <1>1 DEF ViewInv, Screen, Answers
  <2>3. tab' = "geo" /\ "geo" \in stale' /\ ~touched'
          => "data" \in dirty' \/ "booster" \in dirty' \/ "geo" \notin sized'
    BY <1>0, <1>1, <1>5 DEF ViewInv, Screen, Awaited
  <2> QED
    BY <1>0, <1>1, <2>1, <2>2, <2>3 DEF ViewInv, Screen, Awaited, Answers
<1> QED
  BY <1>4, <1>6, <1>7 DEF DueInv

LEMMA TouchDue ==
  ASSUME DueInv, NEW flags \in SUBSET Flags, NEW parts \in SUBSET Parts, NEW fresh,
         Touch(flags, parts, fresh), Answers(flags, parts),
         parts \intersect (Popups \union {"links"}) = {}
  PROVE  DueInv'
<1>0. /\ Screen \in Screens /\ tab \in Tabs /\ popups \subseteq Popups
      /\ ScreenInv(Screen) /\ ViewInv(Screen, tab)
  BY DEF DueInv, DisplayType
<1>1. /\ dirty' = dirty \union flags \/ dirty' = (dirty \union flags) \ {"color"}
      /\ stale' \subseteq stale \union parts
      /\ touched' = TRUE
      /\ UNCHANGED <<tab, popups, throttled, canvas, sized, unread, logged>>
  BY DEF Touch, logVars
<1>2. stale' \in SUBSET Parts /\ dirty' \in SUBSET Flags
  BY <1>0, <1>1 DEF Screen, Screens
<1>3. Screen' \in Screens
  <2>1. throttled \in SUBSET HVMonParts /\ unread \in BOOLEAN /\ canvas \in [Maps -> Canvases]
    BY <1>0 DEF Screen, Screens
  <2>2. Screen' = [stale |-> stale', dirty |-> dirty', throttled |-> throttled,
                   unread |-> unread, canvas |-> canvas]
    BY <1>1 DEF Screen
  <2> QED
    BY <1>2, <2>1, <2>2 DEF Screens
<1>4. DisplayType'
  BY <1>0, <1>1, <1>3 DEF DisplayType
<1>5. ScreenInv(Screen)'
  BY <1>0, <1>1 DEF ScreenInv, Screen, Awaited, Answers
<1>6. ViewInv(Screen, tab)'
  BY <1>0, <1>1 DEF ViewInv, Screen, Awaited, Answers
<1> QED
  BY <1>4, <1>5, <1>6 DEF DueInv

\* Steps that make nothing old and open nothing.
LEMMA QuietDue ==
  ASSUME DueInv, UNCHANGED <<tab, dirty, canvas, sized, touched, logged>>,
         stale' \subseteq stale, unread' \in BOOLEAN, throttled' \subseteq throttled,
         popups' \subseteq Popups,
         \A p \in Popups : p \in stale' => p \in popups'
  PROVE  DueInv'
<1>0. /\ Screen \in Screens /\ tab \in Tabs /\ popups \subseteq Popups
      /\ ScreenInv(Screen) /\ ViewInv(Screen, tab)
  BY DEF DueInv, DisplayType
<1>1. Screen' = [stale |-> stale', dirty |-> dirty, throttled |-> throttled', unread |-> unread',
                 canvas |-> canvas]
  BY DEF Screen
<1>2. Screen' \in Screens
  <2>1. PICK d \in BOOLEAN : d = unread'
    OBVIOUS
  <2>2. /\ dirty \in SUBSET Flags /\ canvas \in [Maps -> Canvases]
        /\ stale' \in SUBSET Parts /\ throttled' \in SUBSET HVMonParts
    BY <1>0 DEF Screen, Screens
  <2>3. Screen' = [stale |-> stale', dirty |-> dirty, throttled |-> throttled', unread |-> d,
                   canvas |-> canvas]
    BY <1>1, <2>1
  <2> QED
    BY <2>2, <2>3 DEF Screens
<1>3. DisplayType'
  BY <1>0, <1>2 DEF DisplayType
<1>4. ScreenInv(Screen)'
  BY <1>0 DEF ScreenInv, Screen, Awaited
<1>5. ViewInv(Screen, tab)'
  BY <1>0 DEF ViewInv, Screen, Awaited
<1> QED
  BY <1>3, <1>4, <1>5 DEF DueInv

LEMMA LogDue == ASSUME DueInv, ReceiveFaults PROVE DueInv'
<1>0. /\ Screen \in Screens /\ tab \in Tabs /\ popups \subseteq Popups
      /\ ScreenInv(Screen) /\ ViewInv(Screen, tab)
  BY DEF DueInv, DisplayType
<1>1. UNCHANGED <<tab, popups, throttled, canvas, sized, touched>>
  BY DEF ReceiveFaults
<1>2. unread \in BOOLEAN /\ unread' \in BOOLEAN
  <2>1. unread \in BOOLEAN
    BY <1>0 DEF Screen, Screens
  <2>2. unread' = unread \/ unread' = (unread \/ ~initial)
    BY DEF ReceiveFaults
  <2> QED
    BY <2>1, <2>2
<1>3. \/ tab = "faultlog" /\ stale' = stale \ {"faultlog"} /\ dirty' = dirty \ {"fault"}
      \/ tab # "faultlog" /\ stale' = stale \union {"faultlog"} /\ dirty' = dirty \union {"fault"}
  BY DEF ReceiveFaults
<1>4. stale' \in SUBSET Parts /\ dirty' \in SUBSET Flags
  BY <1>0, <1>3 DEF Screen, Screens, Parts, Tabs, Flags
<1>5. Screen' \in Screens
  <2>1. PICK d \in BOOLEAN : d = unread'
    BY <1>2
  <2>2. throttled \in SUBSET HVMonParts /\ canvas \in [Maps -> Canvases]
    BY <1>0 DEF Screen, Screens
  <2>3. Screen' = [stale |-> stale', dirty |-> dirty', throttled |-> throttled, unread |-> d,
                   canvas |-> canvas]
    BY <1>1, <2>1 DEF Screen
  <2> QED
    BY <1>4, <2>2, <2>3 DEF Screens
<1>6. DisplayType'
  BY <1>0, <1>1, <1>5 DEF DisplayType
<1>7. ScreenInv(Screen)'
  BY <1>0, <1>1, <1>3 DEF ScreenInv, Screen, Awaited, Popups
<1>8. ViewInv(Screen, tab)'
  BY <1>0, <1>1, <1>3 DEF ViewInv, Screen, Awaited
<1> QED
  BY <1>6, <1>7, <1>8 DEF DueInv

LEMMA ReconnectDue == ASSUME DueInv, Reconnect PROVE DueInv'
<1>0. /\ Screen \in Screens /\ tab \in Tabs /\ popups \subseteq Popups
      /\ ScreenInv(Screen) /\ ViewInv(Screen, tab)
  BY DEF DueInv, DisplayType
<1>1. /\ dirty' = dirty \union {"data", "booster"}
      /\ stale' \subseteq stale \union {"table", "booster", "faultlog"} \union popups
      /\ ~logged' /\ UNCHANGED <<tab, popups, throttled, canvas, sized, touched>> /\ unread' = FALSE
  BY DEF Reconnect
<1>2. stale' \in SUBSET Parts /\ dirty' \in SUBSET Flags
  BY <1>0, <1>1 DEF Screen, Screens, Parts, Tabs, Flags
<1>3. Screen' \in Screens
  <2>1. throttled \in SUBSET HVMonParts /\ canvas \in [Maps -> Canvases]
    BY <1>0 DEF Screen, Screens
  <2>2. Screen' = [stale |-> stale', dirty |-> dirty', throttled |-> throttled, unread |-> FALSE,
                   canvas |-> canvas]
    BY <1>1 DEF Screen
  <2> QED
    BY <1>2, <2>1, <2>2 DEF Screens
<1>4. DisplayType'
  BY <1>0, <1>1, <1>3 DEF DisplayType
<1>5. ScreenInv(Screen)'
  BY <1>0, <1>1 DEF ScreenInv, Screen, Awaited, Popups
<1>6. ViewInv(Screen, tab)'
  BY <1>0, <1>1 DEF ViewInv, Screen, Awaited, Popups
<1> QED
  BY <1>4, <1>5, <1>6 DEF DueInv

\* Every step of the page alone.
LEMMA DisplayDue == ASSUME DueInv, DisplayStep PROVE DueInv'
<1> USE DEF Flags
<1>0. unread \in BOOLEAN /\ popups \subseteq Popups
  BY DEF DueInv, DisplayType, Screen, Screens
<1>1. CASE Frame
  BY <1>1, FrameDue
<1>2. ASSUME NEW w \in Maps, ResizeCanvas(w) PROVE DueInv'
  BY <1>2, ResizeDueKeeps
<1>3. ASSUME NEW p \in HVMonParts, Unthrottle(p) PROVE DueInv'
  <2>1. /\ UNCHANGED <<tab, dirty, canvas, sized, touched, logged>>
        /\ stale' = stale /\ unread' = unread /\ popups' = popups
        /\ throttled' = throttled \ {p}
    BY <1>3 DEF Unthrottle, logVars
  <2>2. \A q \in Popups : q \in stale => q \in popups
    BY DEF DueInv, ScreenInv, Screen
  <2> QED
    BY <1>0, <2>1, <2>2, QuietDue
<1>4. CASE ChannelsUpdated
  <2> DEFINE flags == {"data"} \union RebuildChMap
  <2>1. PICK links \in SUBSET {"links"} :
          Arrive(flags, {"table", "module", "texts", "primary"} \union links \union MapParts,
                 {"links"})
    BY <1>4 DEF ChannelsUpdated
  <2> DEFINE parts == {"table", "module", "texts", "primary"} \union links \union MapParts
  <2>2. flags \in SUBSET Flags /\ parts \in SUBSET Parts /\ Answers(flags, parts)
    BY <2>1 DEF Answers, Parts, Tabs, Popups, ModuleParts, MapParts, RebuildChMap
  <2>3. "color" \in flags /\ "data" \in flags
    BY DEF RebuildChMap
  <2>4. Arrive(flags, parts, {"links"})
    BY <2>1
  <2> HIDE DEF flags, parts
  <2> QED
    BY <2>2, <2>3, <2>4, ArriveDue
<1>5. CASE VmonUpdated
  <2> DEFINE flags == {"data", "color"}
             parts == {"table", "module", "primary"} \union HVMonParts \union MapParts
  <2>1. flags \in SUBSET Flags /\ parts \in SUBSET Parts /\ Answers(flags, parts)
    BY DEF Answers, Parts, Tabs, Popups, ModuleParts, MapParts, HVMonParts
  <2>2. Arrive(flags, parts, {}) /\ "color" \in flags /\ "data" \in flags
    BY <1>5 DEF VmonUpdated
  <2> HIDE DEF flags, parts
  <2> QED
    BY <2>1, <2>2, ArriveDue
<1>6. CASE BoardsUpdated
  <2> DEFINE flags == {"board"}
             parts == {"board"}
  <2>1. flags \in SUBSET Flags /\ parts \in SUBSET Parts /\ Answers(flags, parts)
    BY DEF Answers, Parts, Tabs, Popups
  <2>2. Arrive(flags, parts, {}) /\ "colors" \notin parts /\ "geo" \notin parts /\ "color" \notin flags
    BY <1>6 DEF BoardsUpdated
  <2> HIDE DEF flags, parts
  <2> QED
    BY <2>1, <2>2, ArriveDue
<1>7. CASE BoosterUpdated
  <2> DEFINE flags == {"booster", "color"}
             parts == {"booster", "supply"} \union MapParts
  <2>1. flags \in SUBSET Flags /\ parts \in SUBSET Parts /\ Answers(flags, parts)
    BY DEF Answers, Parts, Tabs, Popups, MapParts
  <2>2. Arrive(flags, parts, {}) /\ "color" \in flags /\ "booster" \in flags
    BY <1>7 DEF BoosterUpdated
  <2> HIDE DEF flags, parts
  <2> QED
    BY <2>1, <2>2, ArriveDue
<1>8. CASE AggUpdated
  <2> DEFINE parts == {"plots"}
  <2>1. {} \in SUBSET Flags /\ parts \in SUBSET Parts /\ Answers({}, parts)
    BY DEF Answers, Parts, Tabs, Popups, HVMonParts
  <2>2. Arrive({}, parts, {}) /\ "colors" \notin parts /\ "geo" \notin parts
    BY <1>8 DEF AggUpdated
  <2> HIDE DEF parts
  <2> QED
    BY <2>1, <2>2, ArriveDue
<1>9. CASE AccessUpdated
  <2> DEFINE flags == {"data", "booster", "board"}
             parts == {"table", "booster"} \union Popups
  <2>1. flags \in SUBSET Flags /\ parts \in SUBSET Parts /\ Answers(flags, parts)
    BY DEF Answers, Parts, Tabs, Popups
  <2>2. "colors" \notin parts /\ "data" \in flags
    BY DEF Popups
  <2>3. Arrive(flags, parts, {})
    BY <1>9 DEF AccessUpdated
  <2> HIDE DEF flags, parts
  <2> QED
    BY <2>1, <2>2, <2>3, ArriveDue
<1>10. CASE SearchMap
  <2>1. MapParts \in SUBSET Parts /\ Answers({}, MapParts) /\ MapParts \intersect (Popups \union {"links"}) = {}
    BY DEF Answers, Parts, Tabs, Popups, MapParts
  <2>2. Touch({}, MapParts, {}) /\ {} \in SUBSET Flags
    BY <1>10 DEF SearchMap
  <2> QED
    BY <2>1, <2>2, TouchDue
<1>11. CASE EditRange
  <2> DEFINE parts == {"geo"}
  <2>1. parts \in SUBSET Parts /\ Answers({}, parts) /\ parts \intersect (Popups \union {"links"}) = {}
    BY DEF Answers, Parts, Tabs, Popups
  <2>2. Touch({}, parts, {"colors"}) /\ {} \in SUBSET Flags
    BY <1>11 DEF EditRange
  <2> HIDE DEF parts
  <2> QED
    BY <2>1, <2>2, TouchDue
<1>12. CASE ModuleCommand
  <2> DEFINE parts == MapParts \union {"table"}
             flags == {"data"}
  <2>1. /\ parts \in SUBSET Parts /\ Answers(flags, parts) /\ parts \intersect (Popups \union {"links"}) = {}
        /\ flags \in SUBSET Flags
    BY DEF Answers, Parts, Tabs, Popups, MapParts
  <2>2. Touch(flags, parts, ModuleParts)
    BY <1>12 DEF ModuleCommand
  <2> HIDE DEF parts, flags
  <2> QED
    BY <2>1, <2>2, TouchDue
<1>13. CASE BoosterCommand
  <2> DEFINE parts == MapParts \union {"booster"}
             flags == {"booster"}
  <2>1. /\ parts \in SUBSET Parts /\ Answers(flags, parts) /\ parts \intersect (Popups \union {"links"}) = {}
        /\ flags \in SUBSET Flags
    BY DEF Answers, Parts, Tabs, Popups, MapParts
  <2>2. Touch(flags, parts, {"supply"})
    BY <1>13 DEF BoosterCommand
  <2> HIDE DEF parts, flags
  <2> QED
    BY <2>1, <2>2, TouchDue
<1>14. ASSUME NEW p \in Popups, OpenPopup(p) PROVE DueInv'
  <2>1. /\ UNCHANGED <<tab, dirty, canvas, sized, touched, logged>>
        /\ stale' = stale /\ unread' = unread /\ popups' = popups \union {p}
        /\ throttled' = throttled
    BY <1>14 DEF OpenPopup, screenVars, logVars
  <2>2. \A q \in Popups : q \in stale => q \in popups
    BY DEF DueInv, ScreenInv, Screen
  <2> QED
    BY <1>0, <2>1, <2>2, QuietDue
<1>15. ASSUME NEW p \in Popups, CloseModPopup(p) PROVE DueInv'
  <2>1. /\ UNCHANGED <<tab, dirty, canvas, sized, touched, logged>>
        /\ stale' = stale \ PartsOf(p) /\ unread' = unread /\ popups' = popups \ {p}
        /\ throttled' = throttled
    BY <1>15 DEF CloseModPopup, logVars
  <2>2. (\A q \in Popups : q \in stale => q \in popups) /\ p \in PartsOf(p)
    BY DEF DueInv, ScreenInv, Screen, PartsOf, ModuleParts
  <2> QED
    BY <1>0, <2>1, <2>2, QuietDue
<1>16. CASE ReceiveFaults
  BY <1>16, LogDue
<1>17. CASE ReceiveNoFaults
  <2>1. /\ UNCHANGED <<tab, dirty, canvas, sized, touched, logged>>
        /\ stale' = stale /\ unread' = unread /\ popups' = popups /\ throttled' = throttled
    BY <1>17 DEF ReceiveNoFaults, screenVars
  <2>2. \A q \in Popups : q \in stale => q \in popups
    BY DEF DueInv, ScreenInv, Screen
  <2> QED
    BY <1>0, <2>1, <2>2, QuietDue
<1>18. CASE Reconnect
  BY <1>18, ReconnectDue
<1>19. CASE OpenModPopup \/ OpenBoosterPopup
  BY <1>14, <1>19 DEF OpenModPopup, OpenBoosterPopup, Popups
<1> QED
  BY <1>1, <1>2, <1>3, <1>4, <1>5, <1>6, <1>7, <1>8, <1>9, <1>10, <1>11, <1>12, <1>13, <1>15,
     <1>16, <1>17, <1>18, <1>19
     DEF DisplayStep

-----------------------------------------------------------------------------
(* What the steps of a request do to its record. *)

Captors  == 1..MaxCaptures
Pictures == [of : Captors, tab : Tabs, blank : BOOLEAN]
Captures == [phase : {"idle", "settle", "image", "upload", "done"}, at : Nat, prev : Tabs,
             blank : BOOLEAN, posted : Seq(Pictures), alone : BOOLEAN]

Busy(cp) == cp.phase \in {"settle", "image"}

CaptureType ==
  /\ captures \in [Captors -> Captures] /\ attachments \in Seq(Pictures) /\ chosen \in Tabs
  /\ \A c \in Captors : Busy(captures[c]) => captures[c].at \in DOMAIN ReportTabs

\* What both values of a disturbed capture have in common.
LEMMA DisturbedFields ==
  ASSUME captures \in [Captors -> Captures], NEW cs, NEW q, q = Disturbed(cs)
  PROVE  /\ q \in [Captors -> Captures]
         /\ \A c \in Captors :
              /\ q[c].phase = captures[c].phase /\ q[c].at = captures[c].at
              /\ q[c].prev = captures[c].prev /\ q[c].blank = captures[c].blank
              /\ q[c].posted = captures[c].posted
              /\ q[c].alone => captures[c].alone /\ c \notin cs
<1>1. q = [c \in Captors |-> [captures[c] EXCEPT !.alone = @ /\ c \notin cs]]
  BY DEF Disturbed, Captors
<1>2. ASSUME NEW c \in Captors
      PROVE  /\ q[c] \in Captures
             /\ q[c].phase = captures[c].phase /\ q[c].at = captures[c].at
             /\ q[c].prev = captures[c].prev /\ q[c].blank = captures[c].blank
             /\ q[c].posted = captures[c].posted
             /\ q[c].alone => captures[c].alone /\ c \notin cs
  <2>1. PICK cp \in Captures : cp = captures[c]
    OBVIOUS
  <2>2. cp.alone \in BOOLEAN
    BY DEF Captures
  <2>3. PICK b \in BOOLEAN : b = (cp.alone /\ c \notin cs)
    OBVIOUS
  <2>4. q[c] = [captures[c] EXCEPT !.alone = captures[c].alone /\ c \notin cs]
    BY <1>1
  <2>5. q[c] = [cp EXCEPT !.alone = b]
    BY <2>1, <2>3, <2>4
  <2>6. q[c] = [phase |-> cp.phase, at |-> cp.at, prev |-> cp.prev, blank |-> cp.blank,
                posted |-> cp.posted, alone |-> b]
    BY <2>5 DEF Captures
  <2>7. q[c] \in Captures
    BY <2>6 DEF Captures
  <2>8. /\ q[c].phase = cp.phase /\ q[c].at = cp.at /\ q[c].prev = cp.prev
        /\ q[c].blank = cp.blank /\ q[c].posted = cp.posted /\ q[c].alone = b
    BY <2>6
  <2>9. b => cp.alone /\ c \notin cs
    BY <2>3
  <2>10. q[c].alone => captures[c].alone /\ c \notin cs
    BY <2>1, <2>8, <2>9, Zenon
  <2> QED
    BY <2>1, <2>7, <2>8, <2>10
<1>3. q \in [Captors -> Captures]
  BY <1>1, <1>2
<1> QED
  BY <1>2, <1>3

\* The end of a request, or the tab of its next picture.
Proceeded(cs, c, k, s, t, pictures) ==
  /\ captures' \in [Captors -> Captures] /\ attachments' = pictures
  /\ \A d \in Captors : d # c => captures'[d] = cs[d]
  /\ captures'[c].alone = cs[c].alone
  /\ \/ /\ k > Len(ReportTabs) /\ tab' = t /\ Shows(s)
        /\ captures'[c].phase = "upload" /\ captures'[c].posted = pictures
        /\ captures'[c].prev = cs[c].prev
     \/ /\ k \in DOMAIN ReportTabs /\ tab' = ReportTabs[k] /\ ReportTabs[k] \in Tabs
        /\ captures'[c].at = k /\ captures'[c].prev = t
        /\ \/ /\ ReportTabs[k] = t /\ Shows(s) /\ captures'[c].phase = "image"
              /\ captures'[c].blank => t \in Maps
           \/ /\ ReportTabs[k] # t /\ Shows(ActivateTab(s, ReportTabs[k]))
              /\ captures'[c].phase = "settle"

LEMMA ProceedFields ==
  ASSUME NEW cs \in [Captors -> Captures], NEW c \in Captors, NEW k \in Nat \ {0}, NEW s,
         NEW t \in Tabs, NEW pictures \in Seq(Pictures), Proceed(cs, c, k, s, t, pictures)
  PROVE  Proceeded(cs, c, k, s, t, pictures)
<1> USE DEF Proceeded
<1>1. PICK cp \in Captures : cp = cs[c]
  OBVIOUS
<1>2. attachments' = pictures
  BY DEF Proceed
<1>3. CASE k > Len(ReportTabs)
  <2>1. /\ captures' = [cs EXCEPT ![c].phase = "upload", ![c].posted = pictures]
        /\ tab' = t /\ Shows(s)
    BY <1>3 DEF Proceed
  <2>2. captures' = [cs EXCEPT ![c] = [cp EXCEPT !.phase = "upload", !.posted = pictures]]
    BY <1>1, <2>1
  <2>3. PICK cn : cn = [cp EXCEPT !.phase = "upload", !.posted = pictures]
    OBVIOUS
  <2>4. cn = [phase |-> "upload", at |-> cp.at, prev |-> cp.prev, blank |-> cp.blank,
              posted |-> pictures, alone |-> cp.alone]
    BY <2>3 DEF Captures
  <2>5. cn \in Captures
    BY <2>4 DEF Captures
  <2>6. /\ captures' \in [Captors -> Captures] /\ captures'[c] = cn
        /\ \A d \in Captors : d # c => captures'[d] = cs[d]
    BY <2>2, <2>3, <2>5
  <2> QED
    BY <1>1, <1>2, <1>3, <2>1, <2>4, <2>6
<1>4. CASE ~(k > Len(ReportTabs))
  <2>0. k \in DOMAIN ReportTabs /\ ReportTabs[k] \in Tabs
    <3>1. Len(ReportTabs) \in Nat /\ DOMAIN ReportTabs = 1..Len(ReportTabs)
      BY CaptureAssumption
    <3>2. k \in DOMAIN ReportTabs
      BY <1>4, <3>1
    <3> QED
      BY <3>2, CaptureAssumption
  <2>1. PICK r : r = ReportTabs[k]
    OBVIOUS
  <2>2. PICK ph : ph = IF r = t THEN "image" ELSE "settle"
    OBVIOUS
  <2>3. PICK b \in BOOLEAN : b = (r = t /\ Blank(s, r))
    OBVIOUS
  <2>4. /\ captures' = [cs EXCEPT ![c].phase = IF r = t THEN "image" ELSE "settle",
                                  ![c].at = k, ![c].prev = t, ![c].blank = (r = t /\ Blank(s, r))]
        /\ tab' = r /\ Shows(IF r = t THEN s ELSE ActivateTab(s, r))
    BY <1>4, <2>1 DEF Proceed
  <2>5. captures' = [cs EXCEPT ![c] = [cp EXCEPT !.phase = ph, !.at = k, !.prev = t, !.blank = b]]
    <3>1. captures' = [cs EXCEPT ![c].phase = ph, ![c].at = k, ![c].prev = t, ![c].blank = b]
      BY <2>2, <2>3, <2>4, Zenon
    <3> QED
      BY <1>1, <3>1
  <2>6. PICK cn : cn = [cp EXCEPT !.phase = ph, !.at = k, !.prev = t, !.blank = b]
    OBVIOUS
  <2>7. cn = [phase |-> ph, at |-> k, prev |-> t, blank |-> b,
              posted |-> cp.posted, alone |-> cp.alone]
    BY <2>6 DEF Captures
  <2>8. ph \in {"image", "settle"} /\ (r = t => ph = "image") /\ (r # t => ph = "settle")
    BY <2>2
  <2>9. cn \in Captures
    BY <2>7, <2>8 DEF Captures
  <2>10. /\ captures' \in [Captors -> Captures] /\ captures'[c] = cn
         /\ \A d \in Captors : d # c => captures'[d] = cs[d]
    BY <2>5, <2>6, <2>9
  <2>11. b => t \in Maps
    BY <2>3 DEF Blank
  <2>12. /\ cn.phase = ph /\ cn.at = k /\ cn.prev = t /\ cn.alone = cp.alone
         /\ cn.blank => t \in Maps
    BY <2>7, <2>11
  <2>13. /\ r = t => Shows(s)
         /\ r # t => Shows(ActivateTab(s, r))
    BY <2>4
  <2> QED
    BY <1>1, <1>2, <2>0, <2>1, <2>4, <2>8, <2>10, <2>12, <2>13
<1> QED
  BY <1>3, <1>4

LEMMA ProceedDue ==
  ASSUME NEW cs \in [Captors -> Captures], NEW c \in Captors, NEW k \in Nat \ {0},
         NEW t \in Tabs, NEW pictures \in Seq(Pictures),
         NEW s \in Screens, ScreenInv(s), ViewInv(s, t), Proceed(cs, c, k, s, t, pictures),
         popups \subseteq Popups, UNCHANGED <<sized, popups, touched, logged>>
  PROVE  DueInv'
<1>1. \/ tab' = t /\ Shows(s)
      \/ /\ k \in DOMAIN ReportTabs /\ tab' = ReportTabs[k] /\ ReportTabs[k] \in Tabs
         /\ (Shows(s) /\ tab' = t) \/ Shows(ActivateTab(s, ReportTabs[k]))
  BY ProceedFields DEF Proceeded
<1>2. CASE tab' = t /\ Shows(s)
  BY <1>2, ShownDue
<1>3. CASE k \in DOMAIN ReportTabs /\ tab' = ReportTabs[k] /\ ReportTabs[k] \in Tabs
           /\ Shows(ActivateTab(s, ReportTabs[k]))
  <2>1. PICK u : u = ActivateTab(s, ReportTabs[k])
    OBVIOUS
  <2>2. u \in Screens /\ ScreenInv(u) /\ ViewInv(u, ReportTabs[k])
    BY <1>3, <2>1, ActivateKeeps
  <2> QED
    BY <1>3, <2>1, <2>2, ShownDue
<1> QED
  BY <1>1, <1>2, <1>3

-----------------------------------------------------------------------------
(* The steps of a request, taken apart. *)

BaseInv == CaptureType /\ DueInv

\* What is said of cs in Start.
StartOf(c, cs) ==
  /\ cs \in [Captors -> Captures]
  /\ \A d \in Captors :
       /\ cs[d].phase = captures[d].phase /\ cs[d].at = captures[d].at
       /\ cs[d].prev = captures[d].prev /\ cs[d].blank = captures[d].blank
       /\ cs[d].posted = captures[d].posted
       /\ cs[d].alone => captures[d].alone
       /\ cs[d].alone /\ (Busy(captures[d]) \/ d = c) =>
            visible /\ \A e \in Captors : ~Busy(captures[e])

LEMMA StartParts ==
  ASSUME CaptureType, NEW c \in Captors, Start(c)
  PROVE  \E cs \in [Captors -> Captures] :
            StartOf(c, cs) /\ Proceed(cs, c, 1, Screen, tab, <<>>)
<1>0. captures \in [Captors -> Captures] /\ \A d \in Captors : Busy(captures[d]) <=> d \in Capturing
  BY DEF CaptureType, Capturing, Busy, Captors
<1>1. CASE Capturing = {} /\ visible
  <2>1. Proceed(captures, c, 1, Screen, tab, <<>>)
    BY <1>1 DEF Start, NoPictures
  <2>2. StartOf(c, captures)
    BY <1>0, <1>1 DEF StartOf
  <2> QED
    BY <1>0, <2>1, <2>2
<1>2. CASE ~(Capturing = {} /\ visible)
  <2>1. PICK cs : cs = Disturbed(Capturing \union {c})
    OBVIOUS
  <2>2. Proceed(cs, c, 1, Screen, tab, <<>>)
    BY <1>2, <2>1 DEF Start, NoPictures
  <2>3. /\ cs \in [Captors -> Captures]
        /\ \A d \in Captors :
             /\ cs[d].phase = captures[d].phase /\ cs[d].at = captures[d].at
             /\ cs[d].prev = captures[d].prev /\ cs[d].blank = captures[d].blank
             /\ cs[d].posted = captures[d].posted
             /\ cs[d].alone => captures[d].alone /\ d \notin Capturing \union {c}
    BY <1>0, <2>1, DisturbedFields
  <2>4. StartOf(c, cs)
    BY <1>0, <2>3 DEF StartOf
  <2> QED
    BY <2>2, <2>3, <2>4
<1> QED
  BY <1>1, <1>2

LEMMA AppendFacts ==
  ASSUME NEW S, NEW q \in Seq(S), NEW e \in S
  PROVE  /\ Append(q, e) \in Seq(S) /\ Len(Append(q, e)) = Len(q) + 1 /\ Len(q) \in Nat
         /\ \A i \in 1..Len(q) : Append(q, e)[i] = q[i]
         /\ Append(q, e)[Len(q) + 1] = e
         /\ DOMAIN q = 1..Len(q) /\ DOMAIN Append(q, e) = 1..(Len(q) + 1)
OBVIOUS

\* What is said of s, t and pictures in Picture.
PictureOf(c, s, t, pictures) ==
  /\ s \in Screens /\ ScreenInv(s) /\ ViewInv(s, t) /\ t \in Tabs
  /\ pictures \in Seq(Pictures)
  /\ \/ pictures = attachments
     \/ pictures = Append(attachments, [of |-> c, tab |-> ReportTabs[captures[c].at],
                                        blank |-> captures[c].blank])
  /\ \/ captures[c].prev # ReportTabs[captures[c].at] /\ t = captures[c].prev
     \/ captures[c].prev = ReportTabs[captures[c].at] /\ t = tab /\ s = Screen
  /\ t # "geo" => s.canvas["geo"] = canvas["geo"]
  /\ t # "faultlog" => s.unread = unread

LEMMA PictureParts ==
  ASSUME BaseInv, NEW c \in Captors, Picture(c)
  PROVE  \E s, t, pictures :
            /\ PictureOf(c, s, t, pictures) /\ Proceed(captures, c, captures[c].at + 1, s, t, pictures)
            /\ captures[c].at \in DOMAIN ReportTabs
<1>1. /\ captures[c].phase = "image" /\ captures[c].at \in DOMAIN ReportTabs
      /\ captures[c] \in Captures /\ attachments \in Seq(Pictures)
  BY DEF Picture, BaseInv, CaptureType, Busy
<1>2. /\ Screen \in Screens /\ ScreenInv(Screen) /\ ViewInv(Screen, tab) /\ tab \in Tabs
      /\ Screen.canvas = canvas /\ Screen.unread = unread
  BY DEF BaseInv, DueInv, DisplayType, Screen
<1>3. ReportTabs[captures[c].at] \in Tabs /\ captures[c].prev \in Tabs
      /\ captures[c].blank \in BOOLEAN
  BY <1>1, CaptureAssumption DEF Captures
<1>4. PICK b \in BOOLEAN : b = captures[c].blank
  BY <1>3
<1>5. PICK e : e = [of |-> c, tab |-> ReportTabs[captures[c].at], blank |-> captures[c].blank]
  OBVIOUS
<1>6. e \in Pictures
  <2>1. e = [of |-> c, tab |-> ReportTabs[captures[c].at], blank |-> b]
    BY <1>4, <1>5
  <2> QED
    BY <1>3, <2>1 DEF Pictures
<1>7. PICK s : s = IF GoBack(c) THEN ActivateTab(Screen, captures[c].prev) ELSE Screen
  OBVIOUS
<1>8. PICK t : t = IF GoBack(c) THEN captures[c].prev ELSE tab
  OBVIOUS
<1>9. PICK pictures \in {attachments, AddAttachment(c, ReportTabs[captures[c].at])} :
         Proceed(captures, c, captures[c].at + 1, s, t, pictures)
  BY <1>7, <1>8, Zenon DEF Picture
<1>10. pictures \in Seq(Pictures) /\ (pictures = attachments \/ pictures = Append(attachments, e))
  <2>1. Append(attachments, e) \in Seq(Pictures)
    BY <1>1, <1>6, AppendFacts
  <2>2. pictures = attachments \/ pictures = Append(attachments, e)
    BY <1>5, <1>9 DEF AddAttachment
  <2> QED
    BY <1>1, <2>1, <2>2
<1>11. CASE GoBack(c)
  <2>1. s = ActivateTab(Screen, t) /\ t = captures[c].prev
    BY <1>7, <1>8, <1>11
  <2>2. /\ s \in Screens /\ ScreenInv(s) /\ ViewInv(s, t)
        /\ t # "geo" => s.canvas["geo"] = Screen.canvas["geo"]
        /\ t # "faultlog" => s.unread = Screen.unread
    BY <1>2, <1>3, <2>1, ActivateKeeps
  <2>3. captures[c].prev # ReportTabs[captures[c].at]
    BY <1>11 DEF GoBack
  <2>4. PictureOf(c, s, t, pictures)
    BY <1>2, <1>3, <1>5, <1>10, <2>1, <2>2, <2>3 DEF PictureOf
  <2> QED
    BY <1>1, <1>9, <2>4
<1>12. CASE ~GoBack(c)
  <2>1. s = Screen /\ t = tab /\ captures[c].prev = ReportTabs[captures[c].at]
    BY <1>7, <1>8, <1>12 DEF GoBack
  <2>2. PictureOf(c, s, t, pictures)
    BY <1>2, <1>5, <1>10, <2>1 DEF PictureOf
  <2> QED
    BY <1>1, <1>9, <2>2
<1> QED
  BY <1>11, <1>12

-----------------------------------------------------------------------------
(* The types, what is due, and the dots. *)

\* The fault log puts the dot out: it is not the tab in view, unless excused.
DotInv == DotStays /\ (tab = "faultlog" /\ unseen => excused)

LEMMA ProceedDot ==
  ASSUME NEW cs \in [Captors -> Captures], NEW c \in Captors, NEW k \in Nat \ {0},
         NEW t \in Tabs, NEW pictures \in Seq(Pictures),
         NEW s \in Screens, ScreenInv(s), Proceed(cs, c, k, s, t, pictures),
         DotInv, unseen' = unseen, t # "faultlog" => s.unread = unread
  PROVE  DotInv'
<1>1. excused' = (excused \/ tab' = "faultlog" \/ t = "faultlog")
  BY DEF Proceed
<1>2. \/ tab' = t /\ Shows(s)
      \/ /\ tab' = ReportTabs[k] /\ ReportTabs[k] \in Tabs
         /\ (Shows(s) /\ tab' = t) \/ Shows(ActivateTab(s, ReportTabs[k]))
  BY ProceedFields DEF Proceeded
<1>3. tab' # "faultlog" /\ t # "faultlog" => unread' = unread
  <2> SUFFICES ASSUME tab' # "faultlog", t # "faultlog" PROVE unread' = unread
    OBVIOUS
  <2>1. CASE Shows(s)
    BY <2>1 DEF Shows
  <2>2. CASE tab' = ReportTabs[k] /\ ReportTabs[k] \in Tabs /\ Shows(ActivateTab(s, ReportTabs[k]))
    <3>1. PICK u : u = ActivateTab(s, ReportTabs[k])
      OBVIOUS
    <3>2. u.unread = s.unread
      BY <2>2, <3>1, ActivateKeeps
    <3>3. unread' = u.unread
      BY <2>2, <3>1 DEF Shows
    <3> QED
      BY <3>2, <3>3
  <2> QED
    BY <1>2, <2>1, <2>2
<1> QED
  BY <1>1, <1>3, Zenon DEF DotInv, DotStays

LEMMA StartBase ==
  ASSUME BaseInv, DotInv, NEW c \in Captors, Start(c)
  PROVE  BaseInv' /\ DotInv'
<1>1. PICK cs \in [Captors -> Captures] :
         StartOf(c, cs) /\ Proceed(cs, c, 1, Screen, tab, <<>>)
  BY StartParts DEF BaseInv
<1>2. /\ Screen \in Screens /\ ScreenInv(Screen) /\ ViewInv(Screen, tab) /\ tab \in Tabs
      /\ Screen.unread = unread /\ popups \subseteq Popups
  BY DEF BaseInv, DueInv, DisplayType, Screen
<1>3. UNCHANGED <<sized, popups, touched, logged, unseen, chosen>>
  BY DEF Start
<1>4. <<>> \in Seq(Pictures) /\ 1 \in Nat \ {0}
  OBVIOUS
<1>5. DueInv'
  BY <1>1, <1>2, <1>3, <1>4, ProceedDue
<1>6. DotInv'
  BY <1>1, <1>2, <1>3, <1>4, ProceedDot
<1>7. /\ captures' \in [Captors -> Captures] /\ attachments' = <<>>
      /\ \A d \in Captors : d # c => captures'[d] = cs[d]
      /\ captures'[c].phase = "upload" \/ (1 \in DOMAIN ReportTabs /\ captures'[c].at = 1)
  <2>1. Proceeded(cs, c, 1, Screen, tab, <<>>)
    BY <1>1, <1>2, <1>4, ProceedFields
  <2> QED
    BY <2>1 DEF Proceeded
<1>8. CaptureType'
  BY <1>1, <1>3, <1>7 DEF CaptureType, BaseInv, StartOf, Busy
<1> QED
  BY <1>5, <1>6, <1>8 DEF BaseInv

LEMMA PictureBase ==
  ASSUME BaseInv, DotInv, NEW c \in Captors, Picture(c)
  PROVE  BaseInv' /\ DotInv'
<1>1. PICK s, t, pictures :
         /\ PictureOf(c, s, t, pictures) /\ Proceed(captures, c, captures[c].at + 1, s, t, pictures)
         /\ captures[c].at \in DOMAIN ReportTabs
  BY PictureParts
<1>2. PICK k : k = captures[c].at + 1
  OBVIOUS
<1>3. k \in Nat \ {0}
  BY <1>2 DEF BaseInv, CaptureType, Captures
<1>4. /\ s \in Screens /\ ScreenInv(s) /\ ViewInv(s, t) /\ t \in Tabs /\ pictures \in Seq(Pictures)
      /\ t # "faultlog" => s.unread = unread
  BY <1>1 DEF PictureOf
<1>5. popups \subseteq Popups /\ captures \in [Captors -> Captures]
  BY DEF BaseInv, DueInv, DisplayType, CaptureType
<1>6. UNCHANGED <<sized, popups, touched, logged, unseen, chosen>>
  BY DEF Picture
<1>7. Proceed(captures, c, k, s, t, pictures)
  BY <1>1, <1>2
<1>8. DueInv'
  BY <1>3, <1>4, <1>5, <1>6, <1>7, ProceedDue
<1>9. DotInv'
  BY <1>3, <1>4, <1>5, <1>6, <1>7, ProceedDot
<1>10. /\ captures' \in [Captors -> Captures] /\ attachments' = pictures
       /\ \A d \in Captors : d # c => captures'[d] = captures[d]
       /\ captures'[c].phase = "upload" \/ (k \in DOMAIN ReportTabs /\ captures'[c].at = k)
  <2>1. Proceeded(captures, c, k, s, t, pictures)
    BY <1>3, <1>4, <1>5, <1>7, ProceedFields
  <2> QED
    BY <2>1 DEF Proceeded
<1>11. CaptureType'
  BY <1>4, <1>6, <1>10 DEF CaptureType, BaseInv, Busy
<1> QED
  BY <1>8, <1>9, <1>11 DEF BaseInv

\* The display as it was.
LEMMA DisplaySame ==
  ASSUME DueInv, DotInv,
         UNCHANGED <<tab, stale, dirty, throttled, unread, canvas, sized, popups, touched, logged,
                     unseen, excused>>
  PROVE  DueInv' /\ DotInv'
<1>1. Screen' = Screen /\ popups' = popups /\ tab' = tab /\ sized' = sized /\ touched' = touched
      /\ logged' = logged
  BY DEF Screen
<1>2. DueInv'
  BY <1>1 DEF DueInv, DisplayType, ScreenInv, ViewInv, Awaited
<1>3. DotInv'
  BY DEF DotInv, DotStays
<1> QED
  BY <1>2, <1>3

\* The record of a request at the end of its wait, and of its post.
ShotOf(cp, cn) ==
  /\ cn \in Captures /\ cn.phase = "image" /\ cn.at = cp.at /\ cn.prev = cp.prev
  /\ cn.alone = cp.alone
  /\ cn.blank => ReportTabs[cp.at] \in Maps
       /\ (tab # ReportTabs[cp.at] \/ canvas[ReportTabs[cp.at]] # "drawn")

LEMMA ShootFields ==
  ASSUME CaptureType, NEW c \in Captors, Shoot(c)
  PROVE  /\ captures' \in [Captors -> Captures]
         /\ \A d \in Captors : d # c => captures'[d] = captures[d]
         /\ ShotOf(captures[c], captures'[c])
<1>1. PICK cp \in Captures : cp = captures[c]
  BY DEF CaptureType
<1>2. PICK r : r = ReportTabs[captures[c].at]
  OBVIOUS
<1>3. PICK b \in BOOLEAN : b = (r \in Maps /\ (tab # r \/ Blank(Screen, r)))
  OBVIOUS
<1>4. captures' = [captures EXCEPT ![c].phase = "image",
                     ![c].blank = (r \in Maps /\ (tab # r \/ Blank(Screen, r)))]
  BY <1>2 DEF Shoot
<1>5. captures' = [captures EXCEPT ![c].phase = "image", ![c].blank = b]
  BY <1>3, <1>4, Zenon
<1>6. PICK cn : cn = [cp EXCEPT !.phase = "image", !.blank = b]
  OBVIOUS
<1>7. captures' = [captures EXCEPT ![c] = cn]
  BY <1>1, <1>5, <1>6
<1>8. cn = [phase |-> "image", at |-> cp.at, prev |-> cp.prev, blank |-> b,
            posted |-> cp.posted, alone |-> cp.alone]
  BY <1>6 DEF Captures
<1>9. cn \in Captures
  BY <1>8 DEF Captures
<1>10. /\ captures' \in [Captors -> Captures] /\ captures'[c] = cn
       /\ \A d \in Captors : d # c => captures'[d] = captures[d]
  BY <1>7, <1>9 DEF CaptureType
<1>11. b => r \in Maps /\ (tab # r \/ canvas[r] # "drawn")
  BY <1>3 DEF Blank, Screen
<1>12. /\ cn.phase = "image" /\ cn.at = cp.at /\ cn.prev = cp.prev /\ cn.alone = cp.alone
       /\ cn.blank = b
  BY <1>8
<1>13. ShotOf(cp, cn)
  <2>1. cn.blank => ReportTabs[cp.at] \in Maps
          /\ (tab # ReportTabs[cp.at] \/ canvas[ReportTabs[cp.at]] # "drawn")
    BY <1>1, <1>2, <1>11, <1>12
  <2> QED
    BY <1>9, <1>12, <2>1, Zenon DEF ShotOf
<1> QED
  BY <1>1, <1>10, <1>13

LEMMA PostedFields ==
  ASSUME CaptureType, NEW c \in Captors, Posted(c)
  PROVE  /\ captures' \in [Captors -> Captures]
         /\ \A d \in Captors : d # c => captures'[d] = captures[d]
         /\ captures'[c].phase = "done" /\ captures'[c].alone = captures[c].alone
<1>1. PICK cp \in Captures : cp = captures[c]
  BY DEF CaptureType
<1>2. captures' = [captures EXCEPT ![c] = [Idle EXCEPT !.phase = "done", !.alone = cp.alone]]
  BY <1>1 DEF Posted
<1>3. PICK cn : cn = [Idle EXCEPT !.phase = "done", !.alone = cp.alone]
  OBVIOUS
<1>4. cn = [phase |-> "done", at |-> 0, prev |-> "table", blank |-> FALSE, posted |-> <<>>,
            alone |-> cp.alone]
  BY <1>3 DEF Idle
<1>5. cn \in Captures
  <2>1. <<>> \in Seq(Pictures) /\ "table" \in Tabs
    BY DEF Tabs
  <2> QED
    BY <1>4, <2>1 DEF Captures
<1>6. /\ captures' \in [Captors -> Captures] /\ captures'[c] = cn
      /\ \A d \in Captors : d # c => captures'[d] = captures[d]
  BY <1>2, <1>3, <1>5 DEF CaptureType
<1> QED
  BY <1>1, <1>4, <1>6

-----------------------------------------------------------------------------
(* The report, and what it leaves behind. *)

\* The map's canvas is drawn, or its resize observer will draw it.
GeoReady == canvas["geo"] = "drawn" \/ "geo" \notin sized

\* The pictures post that request c took up to number at.
WholeOf(c, at, prev, post) ==
  \A i \in DOMAIN post :
    /\ post[i].of = c
    /\ post[i].blank => post[i].tab = prev /\ prev \in Maps
    /\ \E k \in DOMAIN ReportTabs : k < at /\ post[i].tab = ReportTabs[k]
    /\ \A j \in DOMAIN post : i < j =>
         \E k, m \in DOMAIN ReportTabs :
           k < m /\ m < at /\ post[i].tab = ReportTabs[k] /\ post[j].tab = ReportTabs[m]

\* A request that was not disturbed has the page for itself: it is on the tab of
\* its picture, and when it waits there the map will be drawn.
AloneInv(c) ==
  LET cp == captures[c] IN
  /\ visible /\ \A d \in Captors : Busy(captures[d]) => d = c
  /\ tab = ReportTabs[cp.at]
  /\ cp.phase = "settle" => cp.prev # tab /\ (tab = "geo" => GeoReady)
  /\ cp.phase = "image" /\ cp.blank => tab = cp.prev /\ tab \in Maps
  /\ WholeOf(c, cp.at, cp.prev, attachments)

WholeInv ==
  \A c \in Captors : captures[c].alone =>
    /\ Busy(captures[c]) => AloneInv(c)
    /\ captures[c].phase = "upload" =>
         WholeOf(c, Len(ReportTabs) + 1, captures[c].prev, captures[c].posted)

\* While nothing was disturbed the report goes back to the tab the user chose.
TraceInv ==
  (\A c \in Captors : captures[c].alone) =>
    /\ \A c \in Captors : Busy(captures[c]) => captures[c].prev = chosen
    /\ (\A c \in Captors : ~Busy(captures[c])) => tab = chosen
    /\ tab = "geo" /\ tab = chosen => GeoReady

BadgeInv == reporting => \E c \in Captors : Busy(captures[c]) \/ captures[c].phase = "upload"

SoloInv == WholeInv /\ TraceInv /\ BadgeInv

\* No page's own step changes the tab, and a map that is drawn stays so.
LEMMA DisplayGeo ==
  ASSUME DueInv, DisplayStep
  PROVE  tab' = tab /\ visible' = visible /\ (tab = "geo" /\ GeoReady => GeoReady')
<1>0. /\ Screen \in Screens /\ tab \in Tabs /\ ScreenInv(Screen)
      /\ Screen.canvas = canvas /\ canvas \in [Maps -> Canvases]
  BY DEF DueInv, DisplayType, Screen, Screens
<1>1. CASE Frame
  <2>1. PICK s : s = Drawn(Screen, tab)
    OBVIOUS
  <2>2. s.canvas["geo"] \in {Screen.canvas["geo"], "drawn"}
    BY <1>0, <2>1, DrawnKeeps
  <2>3. canvas' = s.canvas /\ UNCHANGED <<tab, visible, sized>>
    BY <1>1, <2>1 DEF Frame, Shows
  <2> QED
    BY <1>0, <2>2, <2>3 DEF GeoReady
<1>2. ASSUME NEW w \in Maps, ResizeCanvas(w)
      PROVE  tab' = tab /\ visible' = visible /\ (tab = "geo" /\ GeoReady => GeoReady')
  <2>1. tab' = tab /\ visible' = visible
    BY <1>2 DEF ResizeCanvas
  <2>2. CASE tab = "geo" /\ w = "geo"
    <3>1. PICK u : u = [Screen EXCEPT !.canvas[w] = "empty"]
      OBVIOUS
    <3>2. u.canvas = [canvas EXCEPT !["geo"] = "empty"]
      BY <2>2, <3>1 DEF Screen
    <3>3. u.canvas["geo"] = "empty"
      BY <1>0, <3>2 DEF Maps
    <3>4. u.canvas \in [Maps -> Canvases]
      BY <1>0, <3>2 DEF Maps, Canvases
    <3>5. Shows(Render(u, w))
      BY <1>2, <2>2, <3>1 DEF ResizeCanvas
    <3>6. Render(u, w) = [u EXCEPT !.canvas[w] = "drawn", !.stale = @ \ Colored(u, w),
                                  !.dirty = IF w = "geo" THEN @ \ {"color"} ELSE @]
      BY <2>2, <3>3 DEF Render
    <3>7. DOMAIN u = {"stale", "dirty", "throttled", "unread", "canvas"}
      BY <3>1 DEF Screen
    <3>8. Render(u, w).canvas = [u.canvas EXCEPT !["geo"] = "drawn"]
      BY <2>2, <3>6, <3>7
    <3>9. canvas'["geo"] = "drawn"
      BY <3>4, <3>5, <3>8 DEF Shows, Maps
    <3> QED
      BY <2>1, <3>9 DEF GeoReady
  <2>3. CASE tab = "geo" /\ w # "geo"
    <3>1. PICK u : u = [Screen EXCEPT !.canvas[w] = "none"]
      OBVIOUS
    <3>2. u.canvas = [canvas EXCEPT ![w] = "none"]
      BY <3>1 DEF Screen
    <3>3. Shows(u) /\ sized' = sized \ {w}
      BY <1>2, <2>3, <3>1 DEF ResizeCanvas
    <3>4. canvas'["geo"] = canvas["geo"]
      BY <1>0, <2>3, <3>2, <3>3 DEF Shows, Maps
    <3> QED
      BY <2>1, <3>3, <3>4 DEF GeoReady
  <2> QED
    BY <2>1, <2>2, <2>3
<1>3. CASE UNCHANGED <<tab, visible, sized, canvas>>
  BY <1>3 DEF GeoReady
<1>4. \/ Frame \/ \E w \in Maps : ResizeCanvas(w)
      \/ UNCHANGED <<tab, visible, sized, canvas>>
  BY DEF DisplayStep, Unthrottle, ChannelsUpdated, VmonUpdated, BoardsUpdated, BoosterUpdated,
         AggUpdated, AccessUpdated, Arrive, SearchMap, EditRange, ModuleCommand, BoosterCommand,
         Touch, OpenModPopup, OpenBoosterPopup, OpenPopup, screenVars, CloseModPopup,
         ReceiveFaults, ReceiveNoFaults, Reconnect
<1> QED
  BY <1>1, <1>2, <1>3, <1>4

LEMMA DisplayDot == ASSUME DueInv, DotInv, DisplayStep PROVE DotInv'
<1>0. /\ Screen \in Screens /\ tab \in Tabs /\ ScreenInv(Screen)
      /\ Screen.unread = unread /\ unread \in BOOLEAN
  BY DEF DueInv, DisplayType, Screen, Screens
<1>1. CASE Frame
  <2>1. PICK s : s = Drawn(Screen, tab)
    OBVIOUS
  <2>2. tab # "faultlog" => s.unread = Screen.unread
    BY <1>0, <2>1, DrawnKeeps
  <2>3. unread' = s.unread /\ UNCHANGED <<tab, unseen, excused>>
    BY <1>1, <2>1 DEF Frame, Shows, logVars
  <2>4. tab # "faultlog" => unread' = unread
    BY <1>0, <2>2, <2>3
  <2> QED
    BY <2>3, <2>4, Zenon DEF DotInv, DotStays
<1>2. ASSUME NEW w \in Maps, ResizeCanvas(w) PROVE DotInv'
  <2>1. PICK u : u = [Screen EXCEPT !.canvas[w] = IF tab = w THEN "empty" ELSE "none"]
    OBVIOUS
  <2>2. DOMAIN u = {"stale", "dirty", "throttled", "unread", "canvas"} /\ u.unread = unread
    BY <2>1 DEF Screen
  <2>3. Shows(u) \/ Shows(Render(u, w))
    BY <1>2, <2>1 DEF ResizeCanvas
  <2>4. Render(u, w).unread = unread
    BY <2>2 DEF Render
  <2>5. unread' = unread
    BY <2>2, <2>3, <2>4 DEF Shows
  <2>6. UNCHANGED <<tab, unseen, excused>>
    BY <1>2 DEF ResizeCanvas, logVars
  <2> QED
    BY <2>5, <2>6, Zenon DEF DotInv, DotStays
<1>3. CASE UNCHANGED <<tab, unread, unseen, excused>>
  BY <1>3, Zenon DEF DotInv, DotStays
<1>4. CASE ReceiveFaults
  <2>1. CASE tab = "faultlog"
    <3>1. UNCHANGED <<tab, unread, unseen>> /\ (excused => excused')
      BY <1>4, <2>1, Zenon DEF ReceiveFaults
    <3> QED
      BY <3>1, Zenon DEF DotInv, DotStays
  <2>2. CASE tab # "faultlog"
    <3>1. /\ tab' = tab /\ unread' = (unread \/ ~initial) /\ unseen' = (unseen \/ ~initial)
          /\ excused' = (excused /\ (initial \/ tab = "faultlog"))
      BY <1>4, <2>2 DEF ReceiveFaults
    <3> QED
      BY <2>2, <3>1, Zenon DEF DotInv, DotStays
  <2> QED
    BY <2>1, <2>2
<1>5. CASE Reconnect
  BY <1>5 DEF Reconnect, DotInv, DotStays
<1>6. \/ Frame \/ (\E w \in Maps : ResizeCanvas(w)) \/ ReceiveFaults \/ Reconnect
      \/ UNCHANGED <<tab, unread, unseen, excused>>
  BY DEF DisplayStep, Unthrottle, ChannelsUpdated, VmonUpdated, BoardsUpdated, BoosterUpdated,
         AggUpdated, AccessUpdated, Arrive, SearchMap, EditRange, ModuleCommand, BoosterCommand,
         Touch, OpenModPopup, OpenBoosterPopup, OpenPopup, screenVars, CloseModPopup,
         ReceiveNoFaults, logVars
<1> QED
  BY <1>1, <1>2, <1>3, <1>4, <1>5, <1>6

LEMMA FirstTab ==
  /\ 1 \in DOMAIN ReportTabs /\ ~(1 > Len(ReportTabs)) /\ Len(ReportTabs) \in Nat
  /\ DOMAIN ReportTabs = 1..Len(ReportTabs) /\ ReportTabs[1] \notin Maps
BY CaptureAssumption

LEMMA StartSolo ==
  ASSUME BaseInv, SoloInv, NEW c \in Captors, Start(c)
  PROVE  SoloInv'
<1>1. PICK cs \in [Captors -> Captures] :
         StartOf(c, cs) /\ Proceed(cs, c, 1, Screen, tab, <<>>)
  BY StartParts DEF BaseInv
<1>2. tab \in Tabs /\ <<>> \in Seq(Pictures) /\ 1 \in Nat \ {0}
  BY DEF BaseInv, DueInv, DisplayType
<1>3. Proceeded(cs, c, 1, Screen, tab, <<>>)
  BY <1>1, <1>2, ProceedFields
<1>4. /\ attachments' = <<>> /\ captures'[c].alone = cs[c].alone
      /\ \A d \in Captors : d # c => captures'[d] = cs[d]
      /\ tab' = ReportTabs[1] /\ captures'[c].at = 1 /\ captures'[c].prev = tab
      /\ captures'[c].phase = "image" /\ captures'[c].blank => tab \in Maps /\ ReportTabs[1] = tab
      /\ captures'[c].phase = "settle" => ReportTabs[1] # tab
      /\ Busy(captures'[c]) /\ captures'[c].phase # "upload"
  BY <1>3, FirstTab DEF Proceeded, Busy
<1>5. tab' \notin Maps /\ tab' # "geo"
  BY <1>4, FirstTab DEF Maps
<1>6. UNCHANGED <<sized, visible, chosen>> /\ reporting' = TRUE
  BY DEF Start
<1>7. captures'[c].alone => visible /\ \A e \in Captors : ~Busy(captures[e])
  BY <1>1, <1>4, Zenon DEF StartOf
<1>8. ASSUME NEW d \in Captors, captures'[d].alone
      PROVE  /\ captures[d].alone
             /\ Busy(captures'[d]) => d = c
             /\ d # c => /\ captures'[d].phase = captures[d].phase
                         /\ captures'[d].prev = captures[d].prev
                         /\ captures'[d].posted = captures[d].posted
  <2>1. CASE d = c
    BY <1>1, <1>4, <1>8, <2>1, Zenon DEF StartOf
  <2>2. CASE d # c
    <3>1. captures'[d] = cs[d]
      BY <1>4, <2>2
    <3>2. cs[d].alone
      BY <1>8, <3>1
    <3>3. /\ captures[d].alone /\ cs[d].phase = captures[d].phase /\ cs[d].prev = captures[d].prev
          /\ cs[d].posted = captures[d].posted
          /\ Busy(captures[d]) => ~Busy(captures[d])
      BY <1>1, <3>2, Zenon DEF StartOf
    <3> QED
      BY <2>2, <3>1, <3>3 DEF Busy
  <2> QED
    BY <2>1, <2>2
<1>9. ASSUME captures'[c].alone PROVE \A d \in Captors : Busy(captures'[d]) => d = c
  <2> SUFFICES ASSUME NEW d \in Captors, d # c PROVE ~Busy(captures'[d])
    OBVIOUS
  <2>1. captures'[d].phase = captures[d].phase
    BY <1>1, <1>4 DEF StartOf
  <2> QED
    BY <1>7, <1>9, <2>1 DEF Busy
<1>10. ASSUME captures'[c].alone PROVE AloneInv(c)'
  <2>1. visible' /\ \A d \in Captors : Busy(captures'[d]) => d = c
    BY <1>6, <1>7, <1>9, <1>10
  <2>2. WholeOf(c, captures'[c].at, captures'[c].prev, attachments')
    BY <1>4 DEF WholeOf
  <2>3. /\ tab' = ReportTabs[captures'[c].at]
        /\ captures'[c].phase = "settle" => captures'[c].prev # tab' /\ tab' # "geo"
        /\ captures'[c].phase = "image" => ~captures'[c].blank
    BY <1>4, <1>5
  <2> QED
    BY <2>1, <2>2, <2>3 DEF AloneInv
<1>11. WholeInv'
  <2> SUFFICES ASSUME NEW d \in Captors, captures'[d].alone
               PROVE  /\ Busy(captures'[d]) => AloneInv(d)'
                      /\ captures'[d].phase = "upload" =>
                           WholeOf(d, Len(ReportTabs) + 1, captures'[d].prev, captures'[d].posted)
    BY DEF WholeInv
  <2>1. CASE d = c
    BY <1>4, <1>10, <2>1
  <2>2. CASE d # c
    <3>1. /\ captures[d].alone /\ ~Busy(captures'[d]) /\ captures'[d].phase = captures[d].phase
          /\ captures'[d].prev = captures[d].prev /\ captures'[d].posted = captures[d].posted
      BY <1>8, <2>2
    <3>2. captures[d].phase = "upload" =>
             WholeOf(d, Len(ReportTabs) + 1, captures[d].prev, captures[d].posted)
      BY <3>1 DEF SoloInv, WholeInv
    <3> QED
      BY <3>1, <3>2
  <2> QED
    BY <2>1, <2>2
<1>12. TraceInv'
  <2> SUFFICES ASSUME \A d \in Captors : captures'[d].alone
               PROVE  /\ \A d \in Captors : Busy(captures'[d]) => captures'[d].prev = chosen
                      /\ \E d \in Captors : Busy(captures'[d])
    BY <1>5, <1>6 DEF TraceInv
  <2>1. tab = chosen
    BY <1>7, <1>8 DEF SoloInv, TraceInv
  <2> QED
    BY <1>4, <1>9, <2>1
<1>13. BadgeInv'
  BY <1>4 DEF BadgeInv
<1> QED
  BY <1>11, <1>12, <1>13 DEF SoloInv

\* A page in view, where no request was disturbed: its canvases fit the tab.
LEMMA FrameFits ==
  ASSUME BaseInv, NEW c \in Captors, FramePassed(c), visible, captures[c].alone
  PROVE  /\ tab # "geo" => "geo" \notin sized
         /\ tab \in Maps => tab \in sized /\ canvas[tab] # "none"
<1>1. \A w \in Maps : (tab = w) <=> (w \in sized)
  <2>1. \A w \in Maps : ~ResizeDue(w)
    BY DEF FramePassed
  <2> QED
    BY <2>1, Zenon DEF ResizeDue
<1>2. \A w \in Maps : canvas[w] = "none" => w \notin sized
  BY DEF BaseInv, DueInv, ScreenInv, Screen
<1> QED
  BY <1>1, <1>2 DEF Maps

LEMMA ShootSolo ==
  ASSUME BaseInv, SoloInv, NEW c \in Captors, Shoot(c)
  PROVE  SoloInv'
<1>1. /\ captures' \in [Captors -> Captures]
      /\ \A d \in Captors : d # c => captures'[d] = captures[d]
      /\ ShotOf(captures[c], captures'[c])
  BY ShootFields DEF BaseInv
<1>2. /\ captures[c].phase = "settle" /\ FramePassed(c)
      /\ UNCHANGED <<tab, canvas, sized, visible, attachments, reporting, chosen>>
  BY DEF Shoot, displayVars, screenVars
<1>3. \A d \in Captors :
        /\ Busy(captures'[d]) <=> Busy(captures[d])
        /\ captures'[d].prev = captures[d].prev
        /\ captures'[d].alone = captures[d].alone
        /\ captures'[d].at = captures[d].at
        /\ captures'[d].phase = "upload" <=> captures[d].phase = "upload"
  BY <1>1, <1>2 DEF ShotOf, Busy
<1>4. ASSUME captures[c].alone PROVE AloneInv(c)'
  <2>1. AloneInv(c)
    BY <1>2, <1>4 DEF SoloInv, WholeInv, Busy
  <2>2. ~captures'[c].blank
    <3> SUFFICES ASSUME captures'[c].blank PROVE FALSE
      OBVIOUS
    <3>1. tab \in Maps /\ canvas[tab] # "drawn"
      BY <1>1, <2>1 DEF ShotOf, AloneInv
    <3>2. tab \in sized /\ canvas[tab] # "none"
      BY <1>2, <1>4, <2>1, <3>1, FrameFits DEF AloneInv
    <3>3. tab = "geo" => GeoReady
      BY <1>2, <2>1 DEF AloneInv
    <3>4. canvas[tab] \in Canvases /\ canvas["hvmon"] # "empty"
      BY <3>1 DEF BaseInv, DueInv, DisplayType, Screen, Screens, ScreenInv
    <3> QED
      BY <3>1, <3>2, <3>3, <3>4 DEF GeoReady, Maps, Canvases
  <2>3. captures'[c].phase = "image"
    BY <1>1 DEF ShotOf
  <2> QED
    BY <1>2, <1>3, <2>1, <2>2, <2>3 DEF AloneInv
<1>5. WholeInv'
  <2> SUFFICES ASSUME NEW d \in Captors, captures'[d].alone
               PROVE  /\ Busy(captures'[d]) => AloneInv(d)'
                      /\ captures'[d].phase = "upload" =>
                           WholeOf(d, Len(ReportTabs) + 1, captures'[d].prev, captures'[d].posted)
    BY DEF WholeInv
  <2>1. captures[d].alone
    BY <1>3
  <2>2. CASE d = c
    BY <1>1, <1>4, <2>1, <2>2 DEF ShotOf
  <2>3. CASE d # c
    <3>1. captures'[d] = captures[d]
      BY <1>1, <2>3
    <3>2. ~Busy(captures[d])
      BY <1>2, <2>1, <2>3 DEF SoloInv, WholeInv, AloneInv, Busy
    <3>3. captures[d].phase = "upload" =>
             WholeOf(d, Len(ReportTabs) + 1, captures[d].prev, captures[d].posted)
      BY <2>1 DEF SoloInv, WholeInv
    <3> QED
      BY <3>1, <3>2, <3>3
  <2> QED
    BY <2>2, <2>3
<1>6. TraceInv'
  BY <1>2, <1>3 DEF SoloInv, TraceInv, GeoReady
<1>7. BadgeInv'
  BY <1>2, <1>3 DEF SoloInv, BadgeInv
<1> QED
  BY <1>5, <1>6, <1>7 DEF SoloInv

\* A picture more, of the tab after the last one.
LEMMA PicturesGrow ==
  ASSUME NEW c \in Captors, NEW post \in Seq(Pictures), NEW at \in DOMAIN ReportTabs,
         NEW prev \in Tabs, WholeOf(c, at, prev, post), NEW b \in BOOLEAN,
         b => ReportTabs[at] = prev /\ prev \in Maps,
         NEW e, e = [of |-> c, tab |-> ReportTabs[at], blank |-> b], e \in Pictures
  PROVE  WholeOf(c, at + 1, prev, post) /\ WholeOf(c, at + 1, prev, Append(post, e))
<1>0. at \in Nat /\ DOMAIN ReportTabs = 1..Len(ReportTabs) /\ Len(ReportTabs) \in Nat
  BY FirstTab
<1>1. WholeOf(c, at + 1, prev, post)
  <2> SUFFICES ASSUME NEW i \in DOMAIN post
               PROVE  /\ post[i].of = c
                      /\ post[i].blank => post[i].tab = prev /\ prev \in Maps
                      /\ \E k \in DOMAIN ReportTabs : k < at + 1 /\ post[i].tab = ReportTabs[k]
                      /\ \A j \in DOMAIN post : i < j =>
                           \E k, m \in DOMAIN ReportTabs :
                             /\ k < m /\ m < at + 1
                             /\ post[i].tab = ReportTabs[k] /\ post[j].tab = ReportTabs[m]
    BY DEF WholeOf
  <2>1. \A k \in DOMAIN ReportTabs : k < at => k < at + 1
    BY <1>0
  <2>2. /\ post[i].of = c
        /\ post[i].blank => post[i].tab = prev /\ prev \in Maps
        /\ \E k \in DOMAIN ReportTabs : k < at /\ post[i].tab = ReportTabs[k]
        /\ \A j \in DOMAIN post : i < j =>
             \E k, m \in DOMAIN ReportTabs :
               k < m /\ m < at /\ post[i].tab = ReportTabs[k] /\ post[j].tab = ReportTabs[m]
    BY DEF WholeOf
  <2> QED
    BY <2>1, <2>2
<1>2. PICK new \in Seq(Pictures) : new = Append(post, e)
  BY AppendFacts
<1>3. PICK n \in Nat : n = Len(post)
  BY AppendFacts
<1>4. /\ DOMAIN post = 1..n /\ DOMAIN new = 1..(n + 1)
      /\ \A i \in 1..n : new[i] = post[i]
      /\ new[n + 1] = e
  BY <1>2, <1>3, AppendFacts
<1>5. /\ e.of = c /\ e.tab = ReportTabs[at] /\ (e.blank => e.tab = prev /\ prev \in Maps)
  OBVIOUS
<1>6. WholeOf(c, at + 1, prev, new)
  <2> SUFFICES ASSUME NEW i \in DOMAIN new
               PROVE  /\ new[i].of = c
                      /\ new[i].blank => new[i].tab = prev /\ prev \in Maps
                      /\ \E k \in DOMAIN ReportTabs : k < at + 1 /\ new[i].tab = ReportTabs[k]
                      /\ \A j \in DOMAIN new : i < j =>
                           \E k, m \in DOMAIN ReportTabs :
                             /\ k < m /\ m < at + 1
                             /\ new[i].tab = ReportTabs[k] /\ new[j].tab = ReportTabs[m]
    BY DEF WholeOf
  <2>0. at < at + 1 /\ i \in 1..(n + 1) /\ (i = n + 1 \/ i \in 1..n)
    BY <1>0, <1>4
  <2>1. CASE i = n + 1
    <3>1. new[i] = e
      BY <1>4, <2>1
    <3>2. \A j \in DOMAIN new : ~(i < j)
      BY <1>4, <2>1
    <3> QED
      BY <1>5, <2>0, <3>1, <3>2
  <2>2. CASE i \in 1..n
    <3>1. new[i] = post[i] /\ i \in DOMAIN post
      BY <1>4, <2>2
    <3>2. /\ post[i].of = c
          /\ post[i].blank => post[i].tab = prev /\ prev \in Maps
          /\ \A j \in DOMAIN post : i < j =>
               \E k, m \in DOMAIN ReportTabs :
                 k < m /\ m < at + 1 /\ post[i].tab = ReportTabs[k] /\ post[j].tab = ReportTabs[m]
      BY <1>1, <3>1 DEF WholeOf
    <3>3. PICK k0 \in DOMAIN ReportTabs : k0 < at /\ post[i].tab = ReportTabs[k0]
      BY <3>1 DEF WholeOf
    <3>4. ASSUME NEW j \in DOMAIN new, i < j
          PROVE  \E k, m \in DOMAIN ReportTabs :
                   /\ k < m /\ m < at + 1
                   /\ new[i].tab = ReportTabs[k] /\ new[j].tab = ReportTabs[m]
      <4>1. j = n + 1 \/ j \in 1..n
        BY <1>4
      <4>2. CASE j = n + 1
        BY <1>4, <1>5, <2>0, <3>1, <3>3, <4>2
      <4>3. CASE j \in 1..n
        <5>1. new[j] = post[j] /\ j \in DOMAIN post
          BY <1>4, <4>3
        <5> QED
          BY <3>1, <3>2, <3>4, <5>1
      <4> QED
        BY <4>1, <4>2, <4>3
    <3>5. \E k \in DOMAIN ReportTabs : k < at + 1 /\ new[i].tab = ReportTabs[k]
      <4>1. k0 < at + 1
        BY <1>0, <3>3
      <4> QED
        BY <3>1, <3>3, <4>1
    <3> QED
      BY <3>1, <3>2, <3>4, <3>5
  <2> QED
    BY <2>0, <2>1, <2>2
<1> QED
  BY <1>1, <1>2, <1>6

LEMMA PictureSolo ==
  ASSUME BaseInv, SoloInv, NEW c \in Captors, Picture(c)
  PROVE  SoloInv'
<1>1. PICK s, t, pictures :
         /\ PictureOf(c, s, t, pictures) /\ Proceed(captures, c, captures[c].at + 1, s, t, pictures)
         /\ captures[c].at \in DOMAIN ReportTabs
  BY PictureParts
<1>2. PICK at \in DOMAIN ReportTabs : at = captures[c].at
  BY <1>1
<1>3. at \in Nat /\ at <= Len(ReportTabs) /\ at + 1 \in Nat \ {0}
  BY FirstTab
<1>4. /\ t \in Tabs /\ pictures \in Seq(Pictures) /\ captures \in [Captors -> Captures]
      /\ captures[c] \in Captures /\ attachments \in Seq(Pictures)
  BY <1>1 DEF PictureOf, BaseInv, CaptureType
<1>5. Proceeded(captures, c, at + 1, s, t, pictures)
  BY <1>1, <1>2, <1>3, <1>4, ProceedFields
<1>6. /\ attachments' = pictures /\ captures'[c].alone = captures[c].alone
      /\ \A d \in Captors : d # c => captures'[d] = captures[d]
  BY <1>5 DEF Proceeded
<1>7. /\ UNCHANGED <<sized, visible, chosen, reporting>>
      /\ captures[c].phase = "image" /\ Busy(captures[c]) /\ FramePassed(c)
  BY DEF Picture, Busy
<1>8. \A d \in Captors : captures'[d].alone = captures[d].alone
  BY <1>6
<1>9. ASSUME captures[c].alone
      PROVE  /\ \A d \in Captors : Busy(captures[d]) => d = c
             /\ visible /\ tab = ReportTabs[at] /\ t = captures[c].prev
             /\ WholeOf(c, at + 1, t, pictures)
             /\ tab # "geo" => "geo" \notin sized
  <2>1. AloneInv(c)
    BY <1>7, <1>9 DEF SoloInv, WholeInv
  <2>2. tab = ReportTabs[at] /\ visible /\ \A d \in Captors : Busy(captures[d]) => d = c
    BY <1>2, <2>1 DEF AloneInv
  <2>3. t = captures[c].prev
    BY <1>1, <1>2, <2>2 DEF PictureOf
  <2>4. PICK b \in BOOLEAN : b = captures[c].blank
    BY <1>4 DEF Captures
  <2>5. b => ReportTabs[at] = t /\ t \in Maps
    BY <1>7, <2>1, <2>2, <2>3, <2>4 DEF AloneInv
  <2>6. WholeOf(c, at, t, attachments)
    BY <1>2, <2>1, <2>3 DEF AloneInv
  <2>7. PICK e : e = [of |-> c, tab |-> ReportTabs[at], blank |-> b]
    OBVIOUS
  <2>8. e \in Pictures /\ ReportTabs[at] \in Tabs
    BY <2>7, CaptureAssumption DEF Pictures
  <2>9. WholeOf(c, at + 1, t, attachments) /\ WholeOf(c, at + 1, t, Append(attachments, e))
    BY <1>4, <2>5, <2>6, <2>7, <2>8, PicturesGrow
  <2>10. pictures = attachments \/ pictures = Append(attachments, e)
    BY <1>1, <1>2, <2>4, <2>7 DEF PictureOf
  <2>11. tab # "geo" => "geo" \notin sized
    BY <1>7, <1>9, <2>2, FrameFits
  <2> QED
    BY <2>2, <2>3, <2>9, <2>10, <2>11
<1>10. CASE at + 1 \in DOMAIN ReportTabs
  <2>1. /\ tab' = ReportTabs[at + 1] /\ captures'[c].at = at + 1 /\ captures'[c].prev = t
        /\ \/ /\ ReportTabs[at + 1] = t /\ Shows(s) /\ captures'[c].phase = "image"
              /\ captures'[c].blank => t \in Maps
           \/ /\ ReportTabs[at + 1] # t
              /\ captures'[c].phase = "settle"
    BY <1>3, <1>5, <1>10, FirstTab DEF Proceeded
  <2>2. Busy(captures'[c]) /\ captures'[c].phase # "upload"
    BY <2>1 DEF Busy
  <2>3. ASSUME captures[c].alone PROVE AloneInv(c)'
    <3>1. \A d \in Captors : Busy(captures'[d]) => d = c
      BY <1>6, <1>9, <2>3
    <3>2. tab' = "geo" => "geo" \notin sized
      <4>1. ReportTabs[at + 1] # ReportTabs[at]
        BY <1>3, <1>10, CaptureAssumption
      <4> QED
        BY <1>9, <2>1, <2>3, <4>1
    <3>3. tab' = "geo" => GeoReady'
      BY <1>7, <3>2 DEF GeoReady
    <3>4. WholeOf(c, captures'[c].at, captures'[c].prev, attachments')
      BY <1>6, <1>9, <2>1, <2>3
    <3>5. visible' /\ tab' = ReportTabs[captures'[c].at]
      BY <1>7, <1>9, <2>1, <2>3
    <3>6. /\ captures'[c].phase = "settle" => captures'[c].prev # tab'
          /\ captures'[c].phase = "image" /\ captures'[c].blank
               => tab' = captures'[c].prev /\ tab' \in Maps
      BY <2>1
    <3> QED
      BY <3>1, <3>3, <3>4, <3>5, <3>6 DEF AloneInv
  <2>4. WholeInv'
    <3> SUFFICES ASSUME NEW d \in Captors, captures'[d].alone
                 PROVE  /\ Busy(captures'[d]) => AloneInv(d)'
                        /\ captures'[d].phase = "upload" =>
                             WholeOf(d, Len(ReportTabs) + 1, captures'[d].prev, captures'[d].posted)
      BY DEF WholeInv
    <3>1. captures[d].alone
      BY <1>8
    <3>2. CASE d = c
      BY <2>2, <2>3, <3>1, <3>2
    <3>3. CASE d # c
      <4>1. captures'[d] = captures[d]
        BY <1>6, <3>3
      <4>2. ~Busy(captures[d])
        BY <1>7, <3>1, <3>3 DEF SoloInv, WholeInv, AloneInv
      <4>3. captures[d].phase = "upload" =>
               WholeOf(d, Len(ReportTabs) + 1, captures[d].prev, captures[d].posted)
        BY <3>1 DEF SoloInv, WholeInv
      <4> QED
        BY <4>1, <4>2, <4>3
    <3> QED
      BY <3>2, <3>3
  <2>5. TraceInv'
    <3> SUFFICES ASSUME \A d \in Captors : captures'[d].alone
                 PROVE  /\ \A d \in Captors : Busy(captures'[d]) => captures'[d].prev = chosen
                        /\ tab' = "geo" /\ tab' = chosen => GeoReady'
      BY <1>7, <2>2 DEF TraceInv
    <3>1. \A d \in Captors : captures[d].alone
      BY <1>8
    <3>2. captures[c].prev = chosen
      BY <1>7, <3>1 DEF SoloInv, TraceInv
    <3>3. \A d \in Captors : Busy(captures'[d]) => captures'[d].prev = chosen
      BY <1>6, <1>9, <2>1, <3>1, <3>2
    <3>4. tab' = "geo" => "geo" \notin sized
      <4>1. ReportTabs[at + 1] # ReportTabs[at]
        BY <1>3, <1>10, CaptureAssumption
      <4> QED
        BY <1>9, <2>1, <3>1, <4>1
    <3> QED
      BY <1>7, <3>3, <3>4 DEF GeoReady
  <2>6. BadgeInv'
    BY <2>2 DEF BadgeInv
  <2> QED
    BY <2>4, <2>5, <2>6 DEF SoloInv
<1>11. CASE at + 1 \notin DOMAIN ReportTabs
  <2>1. /\ tab' = t /\ Shows(s)
        /\ captures'[c].phase = "upload" /\ captures'[c].posted = pictures
        /\ captures'[c].prev = captures[c].prev
    BY <1>5, <1>11 DEF Proceeded
  <2>2. at + 1 = Len(ReportTabs) + 1
    BY <1>3, <1>11, FirstTab
  <2>3. WholeInv'
    <3> SUFFICES ASSUME NEW d \in Captors, captures'[d].alone
                 PROVE  /\ Busy(captures'[d]) => AloneInv(d)'
                        /\ captures'[d].phase = "upload" =>
                             WholeOf(d, Len(ReportTabs) + 1, captures'[d].prev, captures'[d].posted)
      BY DEF WholeInv
    <3>1. captures[d].alone
      BY <1>8
    <3>2. CASE d = c
      BY <1>9, <2>1, <2>2, <3>1, <3>2 DEF Busy
    <3>3. CASE d # c
      <4>1. captures'[d] = captures[d]
        BY <1>6, <3>3
      <4>2. ~Busy(captures[d])
        BY <1>7, <3>1, <3>3 DEF SoloInv, WholeInv, AloneInv
      <4>3. captures[d].phase = "upload" =>
               WholeOf(d, Len(ReportTabs) + 1, captures[d].prev, captures[d].posted)
        BY <3>1 DEF SoloInv, WholeInv
      <4> QED
        BY <4>1, <4>2, <4>3
    <3> QED
      BY <3>2, <3>3
  <2>4. TraceInv'
    <3> SUFFICES ASSUME \A d \in Captors : captures'[d].alone
                 PROVE  /\ \A d \in Captors : ~Busy(captures'[d])
                        /\ tab' = chosen
                        /\ tab' = "geo" => GeoReady'
      BY <1>7 DEF TraceInv
    <3>1. \A d \in Captors : captures[d].alone
      BY <1>8
    <3>2. captures[c].prev = chosen /\ (tab = "geo" /\ tab = chosen => GeoReady)
      BY <1>7, <3>1 DEF SoloInv, TraceInv
    <3>3. \A d \in Captors : ~Busy(captures'[d])
      BY <1>6, <1>9, <2>1, <3>1 DEF Busy
    <3>4. tab' = chosen
      BY <1>9, <2>1, <3>1, <3>2
    <3>5. CASE tab = "geo" /\ tab' = "geo"
      <4>1. captures[c].prev = ReportTabs[captures[c].at]
        BY <1>2, <1>9, <2>1, <3>1, <3>5
      <4>2. s = Screen
        BY <1>1, <4>1 DEF PictureOf
      <4>3. canvas' = canvas
        BY <2>1, <4>2 DEF Shows, Screen
      <4> QED
        BY <1>7, <3>2, <3>3, <3>4, <3>5, <4>3 DEF GeoReady
    <3>6. CASE tab # "geo"
      BY <1>7, <1>9, <3>1, <3>3, <3>4, <3>6 DEF GeoReady
    <3> QED
      BY <3>3, <3>4, <3>5, <3>6
  <2>5. BadgeInv'
    BY <2>1 DEF BadgeInv
  <2> QED
    BY <2>3, <2>4, <2>5 DEF SoloInv
<1> QED
  BY <1>10, <1>11

\* Records that are the same, but for those that stop being alone.
LEMMA SameSolo ==
  ASSUME SoloInv,
         \A d \in Captors :
           /\ captures'[d].phase = captures[d].phase /\ captures'[d].at = captures[d].at
           /\ captures'[d].prev = captures[d].prev /\ captures'[d].blank = captures[d].blank
           /\ captures'[d].posted = captures[d].posted
           /\ captures'[d].alone => captures[d].alone,
         \A d \in Captors : captures'[d].alone /\ Busy(captures[d]) =>
           visible' /\ tab' = tab /\ attachments' = attachments /\ chosen' = chosen,
         (\E d \in Captors : Busy(captures[d])) \/ tab' = chosen' \/ (tab' = tab /\ chosen' = chosen),
         tab = "geo" /\ tab' = tab /\ GeoReady => GeoReady',
         tab' = "geo" /\ tab' = chosen' => GeoReady' \/ (tab' = tab /\ chosen' = chosen),
         reporting' => reporting
  PROVE  SoloInv'
<1>1. \A d \in Captors : Busy(captures'[d]) <=> Busy(captures[d])
  BY DEF Busy
<1>2. WholeInv'
  <2> SUFFICES ASSUME NEW d \in Captors, captures'[d].alone
               PROVE  /\ Busy(captures'[d]) => AloneInv(d)'
                      /\ captures'[d].phase = "upload" =>
                           WholeOf(d, Len(ReportTabs) + 1, captures'[d].prev, captures'[d].posted)
    BY DEF WholeInv
  <2>1. captures[d].alone
    OBVIOUS
  <2>2. CASE Busy(captures[d])
    <3>1. AloneInv(d) /\ visible' /\ tab' = tab /\ attachments' = attachments
      BY <2>1, <2>2 DEF SoloInv, WholeInv
    <3>2. WholeOf(d, captures'[d].at, captures'[d].prev, attachments')
      BY <3>1 DEF AloneInv
    <3>3. AloneInv(d)'
      BY <1>1, <3>1, <3>2 DEF AloneInv
    <3> QED
      BY <2>2, <3>3 DEF Busy
  <2>3. CASE ~Busy(captures[d])
    <3>1. captures[d].phase = "upload" =>
             WholeOf(d, Len(ReportTabs) + 1, captures[d].prev, captures[d].posted)
      BY <2>1 DEF SoloInv, WholeInv
    <3> QED
      BY <1>1, <2>3, <3>1
  <2> QED
    BY <2>2, <2>3
<1>3. TraceInv'
  <2> SUFFICES ASSUME \A d \in Captors : captures'[d].alone
               PROVE  /\ \A d \in Captors : Busy(captures'[d]) => captures'[d].prev = chosen'
                      /\ (\A d \in Captors : ~Busy(captures'[d])) => tab' = chosen'
                      /\ tab' = "geo" /\ tab' = chosen' => GeoReady'
    BY DEF TraceInv
  <2>1. /\ \A d \in Captors : Busy(captures[d]) => captures[d].prev = chosen
        /\ (\A d \in Captors : ~Busy(captures[d])) => tab = chosen
        /\ tab = "geo" /\ tab = chosen => GeoReady
    BY DEF SoloInv, TraceInv
  <2>2. \A d \in Captors : Busy(captures'[d]) => captures'[d].prev = chosen'
    BY <1>1, <2>1
  <2>3. (\A d \in Captors : ~Busy(captures'[d])) => tab' = chosen'
    BY <1>1, <2>1
  <2>4. tab' = "geo" /\ tab' = chosen' => GeoReady'
    BY <2>1
  <2> QED
    BY <2>2, <2>3, <2>4
<1>4. BadgeInv'
  BY <1>1 DEF SoloInv, BadgeInv
<1> QED
  BY <1>2, <1>3, <1>4 DEF SoloInv

LEMMA PostedSolo ==
  ASSUME BaseInv, SoloInv, NEW c \in Captors, Posted(c)
  PROVE  SoloInv'
<1>1. /\ \A d \in Captors : d # c => captures'[d] = captures[d]
      /\ captures'[c].phase = "done" /\ captures'[c].alone = captures[c].alone
  BY PostedFields DEF BaseInv
<1>2. /\ captures[c].phase = "upload" /\ reporting' = FALSE
      /\ UNCHANGED <<tab, canvas, sized, visible, attachments, chosen>>
  BY DEF Posted, displayVars, screenVars
<1>3. /\ \A d \in Captors : Busy(captures'[d]) <=> Busy(captures[d])
      /\ \A d \in Captors : captures'[d].alone = captures[d].alone
      /\ ~Busy(captures[c])
  BY <1>1, <1>2 DEF Busy
<1>4. WholeInv'
  <2> SUFFICES ASSUME NEW d \in Captors, captures'[d].alone
               PROVE  /\ Busy(captures'[d]) => AloneInv(d)'
                      /\ captures'[d].phase = "upload" =>
                           WholeOf(d, Len(ReportTabs) + 1, captures'[d].prev, captures'[d].posted)
    BY DEF WholeInv
  <2>1. CASE d = c
    BY <1>1, <1>3, <2>1
  <2>2. CASE d # c
    <3>1. captures'[d] = captures[d] /\ captures[d].alone
      BY <1>1, <1>3, <2>2
    <3>2. /\ Busy(captures[d]) => AloneInv(d)
          /\ captures[d].phase = "upload" =>
               WholeOf(d, Len(ReportTabs) + 1, captures[d].prev, captures[d].posted)
      BY <3>1 DEF SoloInv, WholeInv
    <3>3. AloneInv(d) => AloneInv(d)'
      BY <1>2, <1>3, <3>1 DEF AloneInv, GeoReady
    <3> QED
      BY <3>1, <3>2, <3>3
  <2> QED
    BY <2>1, <2>2
<1>5. TraceInv'
  <2>1. \A d \in Captors : Busy(captures[d]) => captures'[d].prev = captures[d].prev
    BY <1>1, <1>3
  <2> QED
    BY <1>2, <1>3, <2>1 DEF SoloInv, TraceInv, GeoReady
<1>6. BadgeInv'
  BY <1>2 DEF BadgeInv
<1> QED
  BY <1>4, <1>5, <1>6 DEF SoloInv

-----------------------------------------------------------------------------
(* All together. *)

CaptureInv == BaseInv /\ DotInv /\ SoloInv

LEMMA ShootAll == ASSUME CaptureInv, NEW c \in Captors, Shoot(c) PROVE CaptureInv'
<1>1. BaseInv /\ DotInv /\ SoloInv
  BY DEF CaptureInv
<1>2. /\ captures' \in [Captors -> Captures]
      /\ \A d \in Captors : d # c => captures'[d] = captures[d]
      /\ ShotOf(captures[c], captures'[c])
  BY <1>1, ShootFields DEF BaseInv
<1>3. /\ captures[c].phase = "settle"
      /\ UNCHANGED <<tab, stale, dirty, throttled, unread, canvas, sized, popups, touched, logged,
                     unseen, excused, attachments, chosen>>
  BY DEF Shoot, displayVars, screenVars
<1>4. CaptureType'
  BY <1>1, <1>2, <1>3 DEF BaseInv, CaptureType, ShotOf, Busy
<1>5. DueInv' /\ DotInv'
  BY <1>1, <1>3, DisplaySame DEF BaseInv
<1>6. SoloInv'
  BY <1>1, ShootSolo
<1> QED
  BY <1>4, <1>5, <1>6 DEF CaptureInv, BaseInv

LEMMA PostedAll == ASSUME CaptureInv, NEW c \in Captors, Posted(c) PROVE CaptureInv'
<1>1. BaseInv /\ DotInv /\ SoloInv
  BY DEF CaptureInv
<1>2. /\ captures' \in [Captors -> Captures]
      /\ \A d \in Captors : d # c => captures'[d] = captures[d]
      /\ captures'[c].phase = "done"
  BY <1>1, PostedFields DEF BaseInv
<1>3. UNCHANGED <<tab, stale, dirty, throttled, unread, canvas, sized, popups, touched, logged,
                  unseen, excused, attachments, chosen>>
  BY DEF Posted, displayVars, screenVars
<1>4. CaptureType'
  BY <1>1, <1>2, <1>3 DEF BaseInv, CaptureType, Busy
<1>5. DueInv' /\ DotInv'
  BY <1>1, <1>3, DisplaySame DEF BaseInv
<1>6. SoloInv'
  BY <1>1, PostedSolo
<1> QED
  BY <1>4, <1>5, <1>6 DEF CaptureInv, BaseInv

\* Steps that leave the requests as they are, but alone no more.
DisturbedStep ==
  \E cs : /\ captures' = Disturbed(cs)
          /\ \A d \in Captors : Busy(captures[d]) => d \in cs

LEMMA DisturbedStepFields ==
  ASSUME CaptureType, DisturbedStep
  PROVE  /\ captures' \in [Captors -> Captures]
         /\ \A d \in Captors :
              /\ captures'[d].phase = captures[d].phase /\ captures'[d].at = captures[d].at
              /\ captures'[d].prev = captures[d].prev /\ captures'[d].blank = captures[d].blank
              /\ captures'[d].posted = captures[d].posted
              /\ captures'[d].alone => captures[d].alone
         /\ \A d \in Captors : captures'[d].alone => ~Busy(captures[d])
<1>1. PICK cs : /\ captures' = Disturbed(cs)
                /\ \A d \in Captors : Busy(captures[d]) => d \in cs
  BY DEF DisturbedStep
<1>2. PICK q : q = Disturbed(cs)
  OBVIOUS
<1>3. captures \in [Captors -> Captures]
  BY DEF CaptureType
<1>4. /\ q \in [Captors -> Captures]
      /\ \A c \in Captors :
           /\ q[c].phase = captures[c].phase /\ q[c].at = captures[c].at
           /\ q[c].prev = captures[c].prev /\ q[c].blank = captures[c].blank
           /\ q[c].posted = captures[c].posted
           /\ q[c].alone => captures[c].alone /\ c \notin cs
  BY <1>2, <1>3, DisturbedFields
<1>5. captures' = q
  BY <1>1, <1>2
<1> QED
  BY <1>1, <1>4, <1>5

LEMMA CapturingBusy ==
  ASSUME NEW d \in Captors, Busy(captures[d])
  PROVE  d \in Capturing
BY DEF Capturing, Busy, Captors

LEMMA ClickAll == ASSUME CaptureInv, NEW t \in Tabs, UserClick(t) PROVE CaptureInv'
<1>1. /\ CaptureType /\ DueInv /\ DotInv /\ SoloInv /\ popups \subseteq Popups
      /\ Screen \in Screens /\ ScreenInv(Screen)
  BY DEF CaptureInv, BaseInv, DueInv, DisplayType
<1>2. DisturbedStep
  BY CapturingBusy DEF DisturbedStep, UserClick
<1>3. PICK r : r = Clicked(t)
  OBVIOUS
<1>4. /\ r \in Screens /\ ScreenInv(r) /\ ViewInv(r, t)
      /\ t = "geo" => r.canvas["geo"] = "drawn"
      /\ t # "faultlog" => r.unread = unread
  BY <1>1, <1>3, ClickKeeps
<1>5. /\ Shows(r) /\ tab' = t /\ chosen' = t /\ unseen' = (unseen /\ t # "faultlog")
      /\ UNCHANGED <<sized, popups, touched, logged, excused, attachments, reporting>>
  BY <1>3 DEF UserClick, Click, Clicked
<1>6. DueInv' /\ canvas' = r.canvas
  BY <1>1, <1>4, <1>5, ShownDue
<1>7. DotInv'
  <2>1. unread' = r.unread
    BY <1>5 DEF Shows
  <2>2. t # "faultlog" => unread' = unread
    BY <1>4, <2>1
  <2> QED
    BY <1>1, <1>5, <2>2, Zenon DEF DotInv, DotStays
<1>8. CaptureType'
  BY <1>1, <1>2, <1>5, DisturbedStepFields DEF CaptureType, Busy
<1>9. SoloInv'
  <2>1. tab' = "geo" => GeoReady'
    BY <1>4, <1>5, <1>6 DEF GeoReady
  <2>2. tab' = chosen' /\ (reporting' => reporting)
    BY <1>5
  <2> QED
    BY <1>1, <1>2, <2>1, <2>2, DisturbedStepFields, SameSolo
<1> QED
  BY <1>6, <1>7, <1>8, <1>9 DEF CaptureInv, BaseInv

LEMMA HideAll == ASSUME CaptureInv, HidePage PROVE CaptureInv'
<1>1. CaptureType /\ DueInv /\ DotInv /\ SoloInv
  BY DEF CaptureInv, BaseInv
<1>2. DisturbedStep
  BY CapturingBusy DEF DisturbedStep, HidePage
<1>3. UNCHANGED <<tab, stale, dirty, throttled, unread, canvas, sized, popups, touched, logged,
                  unseen, excused, attachments, chosen, reporting>>
  BY DEF HidePage, Cover, screenVars, logVars
<1>4. DueInv' /\ DotInv'
  BY <1>1, <1>3, DisplaySame
<1>5. CaptureType'
  BY <1>1, <1>2, <1>3, DisturbedStepFields DEF CaptureType, Busy
<1>6. SoloInv'
  <2>1. GeoReady => GeoReady'
    BY <1>3 DEF GeoReady
  <2>2. tab' = tab /\ chosen' = chosen /\ (reporting' => reporting)
    BY <1>3
  <2> QED
    BY <1>1, <1>2, <2>1, <2>2, DisturbedStepFields, SameSolo
<1> QED
  BY <1>4, <1>5, <1>6 DEF CaptureInv, BaseInv

LEMMA DisplayAll ==
  ASSUME CaptureInv, DisplayStep, UNCHANGED captureVars
  PROVE  CaptureInv'
<1>1. CaptureType /\ DueInv /\ DotInv /\ SoloInv
  BY DEF CaptureInv, BaseInv
<1>2. UNCHANGED <<captures, attachments, reporting, chosen>>
  BY DEF captureVars
<1>3. DueInv' /\ DotInv'
  BY <1>1, DisplayDue, DisplayDot
<1>4. tab' = tab /\ visible' = visible /\ (tab = "geo" /\ GeoReady => GeoReady')
  BY <1>1, DisplayGeo
<1>5. CaptureType'
  BY <1>1, <1>2 DEF CaptureType
<1>6. \A d \in Captors : captures[d].alone /\ Busy(captures[d]) => visible
  BY <1>1 DEF SoloInv, WholeInv, AloneInv
<1>7. SoloInv'
  BY <1>1, <1>2, <1>4, <1>6, SameSolo
<1> QED
  BY <1>3, <1>5, <1>7 DEF CaptureInv, BaseInv

LEMMA SameAll ==
  ASSUME CaptureInv, reporting' => reporting,
         UNCHANGED <<tab, stale, dirty, throttled, unread, canvas, sized, popups, touched, logged,
                     unseen, excused, visible>>,
         UNCHANGED <<captures, attachments, chosen>>
  PROVE  CaptureInv'
<1>1. CaptureType /\ DueInv /\ DotInv /\ SoloInv
  BY DEF CaptureInv, BaseInv
<1>2. DueInv' /\ DotInv'
  BY <1>1, DisplaySame
<1>3. visible' = visible /\ tab' = tab
  OBVIOUS
<1>4. CaptureType'
  BY <1>1 DEF CaptureType
<1>5. \A d \in Captors : captures[d].alone /\ Busy(captures[d]) => visible
  BY <1>1 DEF SoloInv, WholeInv, AloneInv
<1>6. GeoReady => GeoReady'
  BY DEF GeoReady
<1>7. SoloInv'
  BY <1>1, <1>3, <1>5, <1>6, SameSolo
<1> QED
  BY <1>2, <1>4, <1>7 DEF CaptureInv, BaseInv

LEMMA InitCapture == CaptureInit => CaptureInv
<1> SUFFICES ASSUME CaptureInit PROVE CaptureInv
  OBVIOUS
<1>1. DisplayInit /\ captures = [c \in Captors |-> Idle]
      /\ attachments = <<>> /\ reporting = FALSE /\ chosen = "table"
  BY DEF CaptureInit, Captors
<1>2. Screen = [stale |-> Parts \ ({"faultlog"} \union Popups \union ModuleParts),
                dirty |-> {"data", "board", "booster", "color"},
                throttled |-> {}, unread |-> FALSE, canvas |-> [w \in Maps |-> "none"]]
  BY <1>1 DEF Screen, DisplayInit
<1>3. DisplayType
  <2>1. Screen \in Screens
    <3>1. /\ Parts \ ({"faultlog"} \union Popups \union ModuleParts) \in SUBSET Parts
          /\ {"data", "board", "booster", "color"} \in SUBSET Flags
          /\ {} \in SUBSET HVMonParts /\ [w \in Maps |-> "none"] \in [Maps -> Canvases]
      BY DEF Flags, Canvases
    <3> QED
      BY <1>2, <3>1 DEF Screens
  <2> QED
    BY <1>1, <2>1 DEF DisplayType, DisplayInit, Tabs
<1>4. ScreenInv(Screen) /\ ViewInv(Screen, tab)
  <2>1. Screen.stale \intersect (Popups \union {"links"}) = {} /\ "faultlog" \notin Screen.stale
    BY <1>2 DEF ModuleParts
  <2>2. /\ Screen.dirty = {"data", "board", "booster", "color"}
        /\ Screen.canvas = [w \in Maps |-> "none"] /\ sized = {} /\ tab = "table"
    BY <1>1, <1>2 DEF DisplayInit
  <2> QED
    BY <2>1, <2>2 DEF ScreenInv, ViewInv, Awaited, Maps
<1>5. DotInv
  BY <1>1 DEF DisplayInit, DotInv, DotStays
<1>6. Idle \in Captures
  <2>1. <<>> \in Seq(Pictures) /\ "table" \in Tabs
    BY DEF Tabs
  <2> QED
    BY <2>1 DEF Captures, Idle
<1>7. \A c \in Captors : captures[c] = Idle /\ ~Busy(captures[c]) /\ captures[c].phase # "upload"
  BY <1>1 DEF Idle, Busy
<1>8. CaptureType
  <2>1. attachments \in Seq(Pictures) /\ chosen \in Tabs
    BY <1>1 DEF Tabs
  <2> QED
    BY <1>1, <1>6, <1>7, <2>1 DEF CaptureType
<1>9. SoloInv
  <2>1. tab = chosen /\ tab # "geo"
    BY <1>1 DEF DisplayInit
  <2> QED
    BY <1>1, <1>7, <2>1 DEF SoloInv, WholeInv, TraceInv, BadgeInv
<1> QED
  BY <1>3, <1>4, <1>5, <1>8, <1>9 DEF CaptureInv, BaseInv, DueInv

LEMMA StepCapture == CaptureInv /\ [CaptureNext]_vars => CaptureInv'
<1> SUFFICES ASSUME CaptureInv, [CaptureNext]_vars PROVE CaptureInv'
  OBVIOUS
<1>0. BaseInv /\ DotInv /\ SoloInv
  BY DEF CaptureInv
<1>1. ASSUME NEW c \in Captors, Start(c) PROVE CaptureInv'
  BY <1>0, <1>1, StartBase, StartSolo DEF CaptureInv
<1>2. ASSUME NEW c \in Captors, Shoot(c) PROVE CaptureInv'
  BY <1>2, ShootAll
<1>3. ASSUME NEW c \in Captors, Picture(c) PROVE CaptureInv'
  BY <1>0, <1>3, PictureBase, PictureSolo DEF CaptureInv
<1>4. ASSUME NEW c \in Captors, Posted(c) PROVE CaptureInv'
  BY <1>4, PostedAll
<1>5. CASE CaptureDone
  <2>1. /\ reporting' = FALSE
        /\ UNCHANGED <<tab, stale, dirty, throttled, unread, canvas, sized, popups, touched, logged,
                       unseen, excused, visible>>
        /\ UNCHANGED <<captures, attachments, chosen>>
    BY <1>5 DEF CaptureDone, screenVars, logVars
  <2> QED
    BY <2>1, SameAll
<1>6. ASSUME NEW t \in Tabs, UserClick(t) PROVE CaptureInv'
  BY <1>6, ClickAll
<1>7. CASE HidePage
  BY <1>7, HideAll
<1>8. CASE DisplayStep /\ UNCHANGED captureVars
  BY <1>8, DisplayAll
<1>9. CASE UNCHANGED vars
  <2>1. /\ reporting' = reporting
        /\ UNCHANGED <<tab, stale, dirty, throttled, unread, canvas, sized, popups, touched, logged,
                       unseen, excused, visible>>
        /\ UNCHANGED <<captures, attachments, chosen>>
    BY <1>9 DEF vars, displayVars, screenVars, captureVars
  <2> QED
    BY <2>1, SameAll
<1> QED
  BY <1>1, <1>2, <1>3, <1>4, <1>5, <1>6, <1>7, <1>8, <1>9 DEF CaptureNext, Captors

\* CaptureInv holds in every state.
THEOREM CaptureInvariant == CaptureSpec => []CaptureInv
<1>1. CaptureInit => CaptureInv
  BY InitCapture
<1>2. CaptureInv /\ [CaptureNext]_vars => CaptureInv'
  BY StepCapture
<1> QED
  BY <1>1, <1>2, PTL DEF CaptureSpec

LEMMA InvDue == CaptureInv => StaleIsDue
<1> SUFFICES ASSUME CaptureInv PROVE StaleIsDue
  OBVIOUS
<1>0. /\ tab \in Tabs /\ Screen \in Screens /\ ScreenInv(Screen) /\ ViewInv(Screen, tab)
      /\ Screen.stale = stale /\ Screen.dirty = dirty /\ Screen.canvas = canvas
  BY DEF CaptureInv, BaseInv, DueInv, DisplayType, Screen
<1>1. \A w \in Maps : canvas[w] = "none" => w \notin sized
  BY <1>0 DEF ScreenInv
<1>2. tab \in Maps /\ canvas[tab] = "none" => ResizeDue(tab)
  <2>1. tab \in Maps /\ tab \notin sized => ResizeDue(tab)
    BY Zenon DEF ResizeDue
  <2> QED
    BY <1>1, <2>1
<1>3. stale \intersect (Popups \union {"links"}) # {} => ShouldRender
  BY <1>0 DEF ScreenInv, Awaited, ShouldRender, DisplayType, CaptureInv, BaseInv, DueInv
<1>4. ASSUME tab \in stale, ~(tab = "geo" /\ touched), ~(tab = "faultlog" /\ ~logged)
      PROVE  \/ ShouldRender /\ tab \notin Drawn(Screen, tab).stale
             \/ tab \in Maps /\ ResizeDue(tab)
  <2>1. PICK r : r = Drawn(Screen, tab)
    OBVIOUS
  <2>2. PICK m : m = RenderMap(Screen, tab)
    OBVIOUS
  <2>3. /\ m \in Screens /\ m.stale \subseteq stale
        /\ tab = "geo" /\ "geo" \in m.stale /\ ~touched => "geo" \notin sized
    BY <1>0, <2>2, RenderMapKeeps
  <2>4. DOMAIN m = {"stale", "dirty", "throttled", "unread", "canvas"}
    BY <2>3 DEF Screens
  <2>5. r.stale = m.stale \ (Redrawn(Screen, tab) \union RefreshAllPopups(Screen))
    BY <2>1, <2>2, <2>4 DEF Drawn
  <2>6. tab # "hvmon"
    BY <1>0, <1>4 DEF Screens, Parts, Tabs, HVMonParts, Popups, ModuleParts
  <2>7. CASE tab = "table"
    BY <1>0, <1>4, <2>1, <2>5, <2>7 DEF ViewInv, ShouldRender, Redrawn, RenderTable
  <2>8. CASE tab = "board"
    BY <1>0, <1>4, <2>1, <2>5, <2>8 DEF ViewInv, ShouldRender, Redrawn, RenderBoardTable
  <2>9. CASE tab = "booster"
    BY <1>0, <1>4, <2>1, <2>5, <2>9 DEF ViewInv, ShouldRender, Redrawn, RenderBoosterCards
  <2>10. CASE tab = "faultlog"
    BY <1>0, <1>4, <2>10 DEF ViewInv
  <2>11. CASE tab = "geo"
    <3>1. CASE "geo" \notin sized
      <4>1. ResizeDue(tab)
        BY <2>11, <3>1, Zenon DEF ResizeDue
      <4> QED
        BY <2>11, <4>1 DEF Maps
    <3>2. CASE "geo" \in sized
      <4>1. "geo" \notin r.stale
        BY <1>4, <2>3, <2>5, <2>11, <3>2
      <4>2. ShouldRender
        BY <1>0, <1>4, <2>11, <3>2 DEF ViewInv, Awaited, ShouldRender
      <4> QED
        BY <2>1, <2>11, <4>1, <4>2
    <3> QED
      BY <3>1, <3>2
  <2> QED
    BY <1>0, <2>6, <2>7, <2>8, <2>9, <2>10, <2>11 DEF Tabs
<1> QED
  BY <1>2, <1>3, <1>4 DEF StaleIsDue

\* renderLoop, the resize observers and the tabs' own flags between them leave
\* nothing old in view without a drawing that is due, whatever was opened,
\* drawn, flagged and cleared in whatever order.
THEOREM NothingOldStays == CaptureSpec => []StaleIsDue
BY InvDue, CaptureInvariant, PTL

\* Only looking at the fault log puts out the dot for entries that arrived since,
\* but for a reconnection and a report that opens that tab.
THEOREM DotsStay == CaptureSpec => []DotStays
<1>1. CaptureInv => DotStays
  BY DEF CaptureInv, DotInv
<1> QED
  BY <1>1, CaptureInvariant, PTL

LEMMA InvWhole == CaptureInv => ReportIsWhole
<1> SUFFICES ASSUME CaptureInv PROVE ReportIsWhole
  OBVIOUS
<1> SUFFICES ASSUME NEW c \in Captors, captures[c].phase = "upload", captures[c].alone
             PROVE  /\ \A i \in DOMAIN captures[c].posted :
                         /\ captures[c].posted[i].of = c
                         /\ captures[c].posted[i].blank =>
                              /\ captures[c].posted[i].tab = captures[c].prev
                              /\ captures[c].posted[i].tab # ReportTabs[1]
                    /\ \A i, j \in DOMAIN captures[c].posted : i < j =>
                         \E k, m \in DOMAIN ReportTabs :
                           /\ k < m /\ captures[c].posted[i].tab = ReportTabs[k]
                           /\ captures[c].posted[j].tab = ReportTabs[m]
  BY DEF ReportIsWhole, Captors
<1>1. WholeOf(c, Len(ReportTabs) + 1, captures[c].prev, captures[c].posted)
  BY DEF CaptureInv, SoloInv, WholeInv
<1>2. ReportTabs[1] \notin Maps
  BY FirstTab
<1> QED
  BY <1>1, <1>2 DEF WholeOf

\* generateReport posts its own pictures in the order of REPORT_TABS, with their
\* canvases, for any such list and however many requests there were before.
THEOREM ReportsAreWhole == CaptureSpec => []ReportIsWhole
BY InvWhole, CaptureInvariant, PTL

LEMMA InvTrace == CaptureInv => CaptureLeavesNoTrace
<1> SUFFICES ASSUME CaptureInv PROVE CaptureLeavesNoTrace
  OBVIOUS
<1>1. /\ SoloInv /\ tab \in Tabs /\ canvas \in [Maps -> Canvases] /\ canvas["hvmon"] # "empty"
      /\ \A w \in Maps : canvas[w] = "none" => w \notin sized
  BY DEF CaptureInv, BaseInv, DueInv, DisplayType, Screen, Screens, ScreenInv
<1>2. reporting => Running # {}
  <2> SUFFICES ASSUME reporting PROVE Running # {}
    OBVIOUS
  <2>1. PICK c \in Captors : Busy(captures[c]) \/ captures[c].phase = "upload"
    BY <1>1 DEF SoloInv, BadgeInv
  <2>2. c \in Running
    BY <2>1 DEF Running, Capturing, Busy, Captors
  <2> QED
    BY <2>2
<1>3. ASSUME Capturing = {}, \A c \in Captors : captures[c].alone
      PROVE  /\ tab = chosen
             /\ tab \in Maps => canvas[tab] = "drawn" \/ ShouldRender \/ ResizeDue(tab)
  <2>1. \A c \in Captors : ~Busy(captures[c])
    BY <1>3, CapturingBusy
  <2>2. tab = chosen /\ (tab = "geo" => GeoReady)
    BY <1>1, <1>3, <2>1 DEF SoloInv, TraceInv
  <2>3. tab \in Maps /\ tab \notin sized => ResizeDue(tab)
    BY Zenon DEF ResizeDue
  <2>4. tab \in Maps => canvas[tab] = "drawn" \/ tab \notin sized
    BY <1>1, <2>2 DEF GeoReady, Maps, Canvases
  <2> QED
    BY <2>2, <2>3, <2>4
<1> QED
  BY <1>2, <1>3 DEF CaptureLeavesNoTrace, Captors

\* A report that nobody disturbed ends on the tab it began on, with its map drawn
\* or due, and the badge is off when no request is running.
THEOREM CapturesLeaveNoTrace == CaptureSpec => []CaptureLeavesNoTrace
BY InvTrace, CaptureInvariant, PTL
=============================================================================
