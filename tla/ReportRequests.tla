--------------------------- MODULE ReportRequests ---------------------------
(***************************************************************************)
(* What the server promises of its requests for automatic reports.  They   *)
(* are made one after the other.  A request asks one page at a time, each  *)
(* once, and the next page, or the next request, only when the page asked  *)
(* last has had its time.  It ends with its report, or without one when    *)
(* that time is over, and how it ended is final.                           *)
(***************************************************************************)
EXTENDS Naturals

CONSTANTS Requests, Pages    \* numbers

VARIABLES
    current,   \* the request under way; 0: none
    tried,     \* the pages it has asked
    late,      \* the one asked last has had its time
    ended      \* ended[r]: "saved", "dropped", or "no"

requestVars == <<current, tried, late, ended>>

RequestsInit ==
    /\ current = 0 /\ tried = {} /\ late = FALSE
    /\ ended = [r \in Requests |-> "no"]

\* r asks page n; a request that is under way is dropped for it.
Begin(r, n) ==
    /\ \A q \in Requests : ended[q] = "no" => q >= r \/ q = current
    /\ ended[r] = "no" /\ r # current
    /\ current # 0 => late
    /\ current' = r /\ tried' = {n} /\ late' = FALSE
    /\ ended' = [q \in Requests |-> IF q = current THEN "dropped" ELSE ended[q]]

Overdue ==
    /\ current # 0 /\ ~late /\ late' = TRUE
    /\ UNCHANGED <<current, tried, ended>>

AskNext(n) ==
    /\ current # 0 /\ late /\ n \notin tried
    /\ tried' = tried \cup {n} /\ late' = FALSE
    /\ UNCHANGED <<current, ended>>

End(how) ==
    /\ current # 0
    /\ how = "dropped" => late
    /\ ended' = [ended EXCEPT ![current] = how]
    /\ current' = 0 /\ tried' = {} /\ late' = FALSE

RequestsNext ==
    \/ \E r \in Requests, n \in Pages : Begin(r, n)
    \/ Overdue
    \/ \E n \in Pages : AskNext(n)
    \/ \E how \in {"saved", "dropped"} : End(how)

RequestsSpec == RequestsInit /\ [][RequestsNext]_requestVars
=============================================================================
