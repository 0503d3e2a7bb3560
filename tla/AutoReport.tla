----------------------------- MODULE AutoReport -----------------------------
(***************************************************************************)
(* Automatic reports.  The timer of the web server asks one of the pages   *)
(* that can take screenshots for a report, and another one when no answer  *)
(* came in time; the page posts the report over HTTP, much later perhaps,  *)
(* and the server keeps it, unless the request is not the current one or a *)
(* report was kept a short time ago.  Timer and requests are served by one *)
(* thread, each to its end; an upload with curl blocks that thread, so any *)
(* time may pass between two runs of the timer.                            *)
(*                                                                         *)
(* Times are kept as ages that stop at the value that makes a difference.  *)
(* The directory for the reports is writable.  Nobody posts by hand.       *)
(***************************************************************************)
EXTENDS Naturals

CONSTANTS
    Clients,
    Timeout,       \* CAPTURE_TIMEOUT_S
    Interval,      \* scheduled_interval_s
    MinInterval,   \* min_interval_ms, in seconds
    MaxOpens,      \* bound: connections
    MaxRequests,   \* bound: requests
    MaxEntries     \* bound: attempts, and entries of the summary, that are counted

ASSUME ReportAssumption ==
    /\ {Timeout, Interval} \subseteq Nat \ {0} /\ MinInterval \in Nat
    /\ MaxOpens \in Nat /\ MaxRequests \in Nat /\ MaxEntries \in Nat

VARIABLES
    conn,        \* conn[c]: number of c's connection, 0 when there is none
    opens,       \* connections opened
    reporters,   \* reporter_capable_
    pending,     \* pending_capture_: its request and tried; request 0: none
    age,         \* seconds since pending.started
    started,     \* last_scheduled_fire_ is set
    sinceFire,   \* seconds since last_scheduled_fire_
    sinceSave,   \* seconds since the last report in today's directory
    requests,    \* req_counter_
    work,        \* work[c]: requests c's page is making a report for
    asked,       \* history: asked[<<n, r>>]: times connection n was asked for request r
    saved,       \* history: saved[r]: reports saved for request r
    attempts,    \* history: scheduled captures and retries
    entries      \* history: entries of summary.json

reportVars == <<conn, opens, reporters, pending, age, started, sinceFire, sinceSave,
                requests, work, asked, saved, attempts, entries>>
pageVars  == <<conn, opens, reporters>>
clockVars == <<started, sinceFire, sinceSave>>

Requests    == 1..MaxRequests
Connections == 1..MaxOpens

Nothing == [request |-> 0, tried |-> {}]

UpTo(limit, n) == IF n < limit THEN n ELSE limit

\* Nothing was sent yet: there is no request to be recent.
Init ==
    /\ conn = [c \in Clients |-> 0] /\ opens = 0 /\ reporters = {}
    /\ pending = Nothing /\ age = 0
    /\ started = FALSE /\ sinceFire = 0 /\ sinceSave = MinInterval
    /\ requests = 0 /\ work = [c \in Clients |-> {}]
    /\ asked = [a \in Connections \X Requests |-> 0] /\ saved = [r \in Requests |-> 0]
    /\ attempts = 0 /\ entries = 0

\* appendAutoReportSummary, n times
Written(n) == entries' = UpTo(MaxEntries, entries + n)

Attempted  == attempts' = UpTo(MaxEntries, attempts + 1)

-----------------------------------------------------------------------------
(* The pages. *)

Open(c, reload) ==
    /\ conn[c] = 0 /\ opens < MaxOpens
    /\ opens' = opens + 1 /\ conn' = [conn EXCEPT ![c] = opens + 1]
    /\ work' = IF reload THEN [work EXCEPT ![c] = {}] ELSE work
    /\ UNCHANGED <<reporters, pending, age, clockVars, requests, asked, saved, attempts, entries>>

\* client_hello
Hello(c) ==
    /\ conn[c] # 0 /\ conn[c] \notin reporters
    /\ reporters' = reporters \cup {conn[c]}
    /\ UNCHANGED <<conn, opens, pending, age, clockVars, requests, work, asked, saved,
                   attempts, entries>>

Close(c) ==
    /\ conn[c] # 0
    /\ conn' = [conn EXCEPT ![c] = 0] /\ reporters' = reporters \ {conn[c]}
    /\ UNCHANGED <<opens, pending, age, clockVars, requests, work, asked, saved,
                   attempts, entries>>

\* The request is lost, the page cannot make the report, or its post fails.
GiveUp(c, r) ==
    /\ r \in work[c] /\ work' = [work EXCEPT ![c] = @ \ {r}]
    /\ UNCHANGED <<pageVars, pending, age, clockVars, requests, asked, saved, attempts, entries>>

-----------------------------------------------------------------------------
(* POST /api/elog/post *)

\* Mutant: the request is not looked at.
PostAny(c, r) ==
    /\ r \in work[c] /\ work' = [work EXCEPT ![c] = @ \ {r}]
    /\ IF sinceSave >= MinInterval
       THEN /\ saved' = [saved EXCEPT ![r] = UpTo(2, @ + 1)] /\ sinceSave' = 0
            /\ pending' = IF r = pending.request THEN Nothing ELSE pending
            /\ Written(1)
       ELSE UNCHANGED <<saved, sinceSave, pending, entries>>
    /\ UNCHANGED <<pageVars, age, started, sinceFire, requests, asked, attempts>>

\* handleElogPost.  A report that comes too soon after another is skipped, and
\* its request stays pending.
Post(c, r) ==
    /\ r \in work[c] /\ work' = [work EXCEPT ![c] = @ \ {r}]
    /\ IF r = pending.request /\ sinceSave >= MinInterval
       THEN /\ saved' = [saved EXCEPT ![r] = UpTo(2, @ + 1)] /\ sinceSave' = 0
            /\ pending' = Nothing
            /\ Written(1)
       ELSE UNCHANGED <<saved, sinceSave, pending, entries>>
    /\ UNCHANGED <<pageVars, age, started, sinceFire, requests, asked, attempts>>

\* Today's directory is a new one.
Midnight ==
    /\ sinceSave # MinInterval /\ sinceSave' = MinInterval
    /\ UNCHANGED <<pageVars, pending, age, started, sinceFire, requests, work, asked, saved,
                   attempts, entries>>

Second ==
    /\ age' = UpTo(Timeout + 1, age + 1)
    /\ sinceFire' = UpTo(Interval, sinceFire + 1)
    /\ sinceSave' = UpTo(MinInterval, sinceSave + 1)
    /\ UNCHANGED <<pageVars, pending, started, requests, work, asked, saved, attempts, entries>>

-----------------------------------------------------------------------------
(* The timer: autoReportTick, then autoReportWatchdog. *)

InFlight == pending.request # 0 /\ age < Timeout
Stale    == pending.request # 0 /\ age > Timeout
Due      == started /\ sinceFire >= Interval /\ requests < MaxRequests

\* A page is asked: the end of dispatchCapture.
Ask(n, r, tried) ==
    /\ pending' = [request |-> r, tried |-> tried \cup {n}]
    /\ age' = 0 /\ Attempted
    /\ asked' = [asked EXCEPT ![<<n, r>>] = UpTo(2, @ + 1)]
    /\ work' = [c \in Clients |-> IF conn[c] = n THEN work[c] \cup {r} ELSE work[c]]

\* The first run of the timer only starts the clock.
FirstTick ==
    /\ ~started /\ started' = TRUE /\ sinceFire' = 0
    /\ UNCHANGED <<pageVars, pending, age, sinceSave, requests, work, asked, saved,
                   attempts, entries>>

\* Due, and no page to ask.  What is pending stays so, and the watchdog of the
\* same run finds nobody either.
NobodyForSchedule ==
    /\ Due /\ reporters = {}
    /\ sinceFire' = 0
    /\ Attempted /\ Written(IF Stale THEN 2 ELSE 1)
    /\ UNCHANGED <<pageVars, pending, age, started, sinceSave, requests, work, asked, saved>>

\* Mutant: a request under way is not looked at.
ScheduleAnyway ==
    /\ Due /\ reporters # {}
    /\ sinceFire' = 0
    /\ requests' = requests + 1
    /\ \E n \in reporters : Ask(n, requests + 1, {})
    /\ UNCHANGED <<pageVars, started, sinceSave, saved, entries>>

Schedule ==
    /\ Due /\ reporters # {}
    /\ sinceFire' = 0
    /\ IF InFlight
       THEN UNCHANGED <<pending, age, requests, work, asked, attempts>>
       ELSE /\ requests' = requests + 1
            /\ \E n \in reporters : Ask(n, requests + 1, {})
    /\ UNCHANGED <<pageVars, started, sinceSave, saved, entries>>

\* The watchdog alone.
NobodyForRetry ==
    /\ Stale /\ ~Due /\ reporters = {}
    /\ Written(1)
    /\ UNCHANGED <<pageVars, pending, age, clockVars, requests, work, asked, saved, attempts>>

\* Mutant: any page is asked again.
RetryAnyone ==
    /\ Stale /\ ~Due
    /\ \E n \in reporters : Ask(n, pending.request, pending.tried)
    /\ UNCHANGED <<pageVars, clockVars, requests, saved, entries>>

Retry ==
    /\ Stale /\ ~Due
    /\ \E n \in reporters \ pending.tried : Ask(n, pending.request, pending.tried)
    /\ UNCHANGED <<pageVars, clockVars, requests, saved, entries>>

\* Mutant: the request is kept.
ExhaustedKeepsRequest ==
    /\ Stale /\ ~Due
    /\ reporters # {} /\ reporters \subseteq pending.tried
    /\ Written(1)
    /\ UNCHANGED <<pageVars, pending, age, clockVars, requests, work, asked, saved, attempts>>

Exhausted ==
    /\ Stale /\ ~Due
    /\ reporters # {} /\ reporters \subseteq pending.tried
    /\ pending' = Nothing /\ Written(1)
    /\ UNCHANGED <<pageVars, age, clockVars, requests, work, asked, saved, attempts>>

Timer ==
    FirstTick \/ NobodyForSchedule \/ Schedule \/ NobodyForRetry \/ Retry \/ Exhausted

Next ==
    \/ \E c \in Clients :
          \/ \E reload \in BOOLEAN : Open(c, reload)
          \/ Hello(c) \/ Close(c)
          \/ \E r \in work[c] : GiveUp(c, r) \/ Post(c, r)
    \/ Midnight \/ Second
    \/ Timer

\* Time passes and the timer keeps running; pages may do nothing.
Spec == Init /\ [][Next]_reportVars /\ WF_reportVars(Second) /\ WF_reportVars(Timer)

-----------------------------------------------------------------------------
\* Ages stay within their limits, and only open connections are reporters.
TypeOK ==
    /\ conn \in [Clients -> 0..MaxOpens] /\ opens \in 0..MaxOpens
    /\ reporters \subseteq {conn[c] : c \in Clients} \ {0}
    /\ pending \in [request : 0..MaxRequests, tried : SUBSET Connections]
    /\ age \in 0..Timeout + 1 /\ started \in BOOLEAN
    /\ sinceFire \in 0..Interval /\ sinceSave \in 0..MinInterval
    /\ requests \in 0..MaxRequests /\ work \in [Clients -> SUBSET Requests]
    /\ asked \in [Connections \X Requests -> 0..2] /\ saved \in [Requests -> 0..2]
    /\ attempts \in 0..MaxEntries /\ entries \in 0..MaxEntries

\* However late the answers of pages that were given up come in, one request
\* leads to one report at most.
OneReportPerRequest == \A r \in Requests : saved[r] <= 1

\* The watchdog goes on to "the next reporter-capable client": no connection is
\* asked twice for the same request, whoever comes and goes between retries.
AskedOnce == \A a \in Connections \X Requests : asked[a] <= 1

\* The server keeps the requests as ReportRequests promises: whatever pages come,
\* go, answer late or never, each has CAPTURE_TIMEOUT_S before anything else is
\* asked, and a request that has ended, saved or dropped, stays that way.
Book == INSTANCE ReportRequests WITH
    Pages <- Connections,
    current <- pending.request,
    tried <- pending.tried,
    late <- pending.request # 0 /\ age >= Timeout,
    ended <- [r \in Requests |-> IF saved[r] > 0 THEN "saved"
                                 ELSE IF r <= requests /\ r # pending.request THEN "dropped"
                                 ELSE "no"]

KeepsRequests == Book!RequestsSpec

\* A request does not stay for ever: it is answered, given up, or followed by
\* another one, unless all the pages that could be asked have gone.  (New pages
\* do not keep coming: each would be asked in its turn.)
Resolves ==
    \A r \in Requests :
        pending.request = r ~> pending.request # r \/ reporters = {}

\* gui_config.json: summary.json has "one entry per attempt (success or
\* failure)".
OneEntryPerAttempt == entries <= attempts
=============================================================================
