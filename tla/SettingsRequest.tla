-------------------------- MODULE SettingsRequest --------------------------
(***************************************************************************)
(* Saving and loading settings from a page.  The web server thread queues  *)
(* the request and remembers its connection; the HV poll thread serves the *)
(* queue in order and leaves each response in SnapshotStore, which has     *)
(* room for one of each kind; the broadcast timer takes it from there and  *)
(* sends it to the connection remembered.  A page has one callback for     *)
(* each kind and offers no second request while it waits.                  *)
(*                                                                         *)
(* A request is known by its number.  A response is the number of the      *)
(* request it answers, and so is the path of the file saved for it.        *)
(***************************************************************************)
EXTENDS Naturals, Sequences

CONSTANTS
    Clients,
    MaxRequests,   \* bound: requests
    MaxOpens       \* bound: connections

ASSUME RequestAssumption == MaxRequests \in Nat /\ MaxOpens \in Nat

Kinds == {"save", "load"}

VARIABLES
    conn,       \* conn[c]: number of c's connection, 0 when there is none
    opens,      \* connections opened
    queue,      \* cmdq_, its save and load commands
    requests,   \* requests made
    requester,  \* settings_requester_, load_requester_
    pending,    \* settings_pending_, load_pending_
    response,   \* settings_response_, load_response_, <<>> when not ready
    path,       \* settings_saved_path_, 0 when it was moved from
    taken,      \* settings response taken from the store, its path not yet
    waiting,    \* waiting[c][k]: request c's page waits for, or 0
    answers,    \* history: what the pages were told
    mixed       \* history: the last request came while another was on its way

reqVars == <<conn, opens, queue, requests, requester, pending, response, path,
             taken, waiting, answers, mixed>>

Init ==
    /\ conn = [c \in Clients |-> 0] /\ opens = 0
    /\ queue = <<>> /\ requests = 0
    /\ requester = [k \in Kinds |-> 0] /\ pending = [k \in Kinds |-> FALSE]
    /\ response = [k \in Kinds |-> <<>>] /\ path = 0 /\ taken = <<>>
    /\ waiting = [c \in Clients |-> [k \in Kinds |-> 0]]
    /\ answers = {} /\ mixed = [k \in Kinds |-> FALSE]

-----------------------------------------------------------------------------
\* onOpen.  A page that reconnects by itself still has its callbacks, one that
\* is loaded again has none.
Open(c, reload) ==
    /\ conn[c] = 0 /\ opens < MaxOpens
    /\ opens' = opens + 1 /\ conn' = [conn EXCEPT ![c] = opens + 1]
    /\ waiting' = IF reload THEN [waiting EXCEPT ![c] = [k \in Kinds |-> 0]] ELSE waiting
    /\ UNCHANGED <<queue, requests, requester, pending, response, path, taken, answers, mixed>>

\* onClose: the requester fields keep the old handle.
Close(c) ==
    /\ conn[c] # 0 /\ conn' = [conn EXCEPT ![c] = 0]
    /\ UNCHANGED <<opens, queue, requests, requester, pending, response, path, taken,
                   waiting, answers, mixed>>

\* No request of kind k is on its way.
Idle(k) ==
    /\ ~pending[k] /\ response[k] = <<>> /\ (k = "save" => taken = <<>>)
    /\ \A i \in DOMAIN queue : queue[i].kind # k

\* Mutant: that an answer is expected is not noted.
AskUnmarked(c, k) ==
    /\ conn[c] # 0 /\ waiting[c][k] = 0 /\ requests < MaxRequests
    /\ requests' = requests + 1
    /\ mixed' = [mixed EXCEPT ![k] = ~Idle(k)]
    /\ waiting' = [waiting EXCEPT ![c][k] = requests + 1]
    /\ requester' = [requester EXCEPT ![k] = conn[c]]
    /\ queue' = Append(queue, [kind |-> k, request |-> requests + 1])
    /\ UNCHANGED <<conn, opens, pending, response, path, taken, answers>>

\* saveSettings and loadSettings of the page, and their branch of onMessage.
Ask(c, k) ==
    /\ conn[c] # 0 /\ waiting[c][k] = 0 /\ requests < MaxRequests
    /\ requests' = requests + 1
    /\ mixed' = [mixed EXCEPT ![k] = ~Idle(k)]
    /\ waiting' = [waiting EXCEPT ![c][k] = requests + 1]
    /\ requester' = [requester EXCEPT ![k] = conn[c]]
    /\ pending' = [pending EXCEPT ![k] = TRUE]
    /\ queue' = Append(queue, [kind |-> k, request |-> requests + 1])
    /\ UNCHANGED <<conn, opens, response, path, taken, answers>>

\* The poll thread serves the head of the queue: setSettingsResponse and
\* setLoadResponse overwrite what has not been taken.
Serve ==
    /\ queue # <<>>
    /\ LET cmd == Head(queue)
       IN  /\ response' = [response EXCEPT ![cmd.kind] = <<cmd.request>>]
           /\ path' = IF cmd.kind = "save" THEN cmd.request ELSE path
    /\ queue' = Tail(queue)
    /\ UNCHANGED <<conn, opens, requests, requester, pending, taken, waiting, answers, mixed>>

-----------------------------------------------------------------------------
Connected == \E c \in Clients : conn[c] # 0

\* Mutant: it goes to everyone.
SendToAll(k, r, savedPath) ==
    LET to == {c \in Clients : conn[c] # 0}
    IN  /\ pending' = [pending EXCEPT ![k] = FALSE]
        /\ waiting' = [c \in Clients |-> IF c \in to THEN [waiting[c] EXCEPT ![k] = 0]
                                                     ELSE waiting[c]]
        /\ answers' = answers \cup
               {[kind |-> k, asked |-> waiting[c][k], told |-> r, path |-> savedPath,
                 alone |-> ~mixed[k]] : c \in to}
        /\ UNCHANGED <<conn, opens, queue, requests, requester, mixed>>

\* Sends the answer to request r to the connection that is remembered.  It
\* fails when that one is closed; it is not even tried when none is pending.
Send(k, r, savedPath) ==
    LET to == {c \in Clients : pending[k] /\ conn[c] = requester[k]}
    IN  /\ pending' = [pending EXCEPT ![k] = FALSE]
        /\ waiting' = [c \in Clients |-> IF c \in to THEN [waiting[c] EXCEPT ![k] = 0]
                                                     ELSE waiting[c]]
        /\ answers' = answers \cup
               {[kind |-> k, asked |-> waiting[c][k], told |-> r, path |-> savedPath,
                 alone |-> ~mixed[k]] : c \in to}
        /\ UNCHANGED <<conn, opens, queue, requests, requester, mixed>>

\* The settings part of broadcastIfChanged: response and path are taken under
\* two locks.
TakeSaved ==
    /\ Connected /\ taken = <<>> /\ response["save"] # <<>>
    /\ taken' = response["save"]
    /\ response' = [response EXCEPT !["save"] = <<>>]
    /\ UNCHANGED <<conn, opens, queue, requests, requester, pending, path, waiting, answers, mixed>>

SendSaved ==
    /\ taken # <<>> /\ taken' = <<>>
    /\ Send("save", Head(taken), path)
    /\ path' = 0
    /\ UNCHANGED response

\* Its load part.
SendLoaded ==
    /\ Connected /\ taken = <<>> /\ response["load"] # <<>>
    /\ Send("load", Head(response["load"]), 0)
    /\ response' = [response EXCEPT !["load"] = <<>>]
    /\ UNCHANGED <<path, taken>>

Next ==
    \/ \E c \in Clients : \/ \E reload \in BOOLEAN : Open(c, reload)
                          \/ Close(c)
                          \/ \E k \in Kinds : Ask(c, k)
    \/ Serve \/ TakeSaved \/ SendSaved \/ SendLoaded

\* The poll thread and the broadcast timer keep running; pages may do nothing.
Spec ==
    /\ Init /\ [][Next]_reqVars
    /\ WF_reqVars(Serve)
    /\ WF_reqVars(TakeSaved) /\ WF_reqVars(SendSaved) /\ WF_reqVars(SendLoaded)

-----------------------------------------------------------------------------
Requests == 0..MaxRequests

\* Requests and connections are known by their numbers, and slots hold one.
TypeOK ==
    /\ conn \in [Clients -> 0..MaxOpens] /\ opens \in 0..MaxOpens
    /\ queue \in Seq([kind : Kinds, request : Requests]) /\ requests \in Requests
    /\ requester \in [Kinds -> 0..MaxOpens] /\ pending \in [Kinds -> BOOLEAN]
    /\ response \in [Kinds -> {<<>>} \cup {<<r>> : r \in Requests}]
    /\ path \in Requests /\ taken \in {<<>>} \cup {<<r>> : r \in Requests}
    /\ waiting \in [Clients -> [Kinds -> Requests]]
    /\ answers \subseteq [kind : Kinds, asked : Requests, told : Requests, path : Requests,
                     alone : BOOLEAN]
    /\ mixed \in [Kinds -> BOOLEAN]

IsOwn(a) == a.told = a.asked /\ (a.kind = "save" => a.path = a.told)

\* ws_server.h: "remember who asked", "send back to the requesting client
\* only".  A page never gets an answer it has no callback for, however requests
\* of several pages overlap and connections come and go.  What it is told
\* answers its own request, with the path of the file saved for that request,
\* whenever that was made while no other of its kind, of any page, was on its
\* way: crossed requests, pages that left without their answer and answers
\* nobody was there to get leave nothing behind.  (When two overlap, the second
\* page is told the answer to the first: there is one requester of a kind.)
AnswersArriveRight ==
    \A a \in answers : a.asked # 0 /\ (a.alone => IsOwn(a))

\* A page whose connection outlives its request is answered, and its button is
\* enabled again, unless a request of another page has taken its place.  (One
\* that reconnects by itself meanwhile waits for ever: the answer goes to the
\* old connection.)
Answered ==
    \A c \in Clients, k \in Kinds :
        waiting[c][k] # 0 /\ conn[c] # 0 /\ conn[c] = requester[k]
            ~> waiting[c][k] = 0 \/ conn[c] = 0 \/ conn[c] # requester[k]
=============================================================================
