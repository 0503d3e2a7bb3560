--------------------------- MODULE BoosterSupply ---------------------------
(***************************************************************************)
(* One TDK-Lambda supply as the booster poll thread sees it: a TCP         *)
(* connection over which set commands are sent without an answer and       *)
(* queries with one, told apart by nothing but their order.  The thread    *)
(* drains the commands of the pages, polls, logs the state of the          *)
(* connection, applies the pending overrides and publishes.                *)
(*                                                                         *)
(* Of the six queries of a poll two are kept: the output state, which a    *)
(* command sets and no override covers, and the voltage setpoint.  The     *)
(* others are asked in the same way in between.  Supplies are polled one   *)
(* after the other and share nothing.  Blank answers are left out; without *)
(* them a socket is open exactly when connected is set.                    *)
(***************************************************************************)
EXTENDS Naturals, Sequences

CONSTANTS
    Voltages,     \* setpoints a command or the front panel may choose
    NaN,          \* a setpoint that was never read
    OverrideTTL,  \* OVERRIDE_TTL
    MaxCommands,  \* bound: commands of the pages
    MaxTrouble    \* bound: breaks, late answers and changes at the front panel

ASSUME BoosterAssumption ==
    /\ NaN \notin Voltages
    /\ OverrideTTL \in Nat \ {0}
    /\ MaxCommands \in Nat /\ MaxTrouble \in Nat

Params == {"on", "vset"}
Query == <<"on", "vset">>

Settings == [on : BOOLEAN, vset : Voltages]
ValuesOf(p) == IF p = "on" THEN BOOLEAN ELSE Voltages

VARIABLES
    hw,         \* what the supply is set to
    up,         \* the supply accepts connections
    peer,       \* the supply's end of the connection is still there
    connected,
    wire,       \* sent over this connection and not yet handled by the supply
    late,       \* commands sent over connections that were closed since
    answers,    \* answers on their way to the thread or not read yet
    step,       \* the thread: "commands", "ask", "wait" or "publish"
    query,      \* number of the query it asks or waits for
    shown,      \* the fields on and vset
    error,      \* error is not empty
    override,   \* pending override of vset; ttl 0: there is none
    commands, trouble,
    held,       \* history: what hw[p] has been since p was last asked for
    snapshot    \* history: connected and shown as published last

supplyVars == <<hw, up, peer, wire, late, answers, held>>
threadVars == <<connected, step, query, shown, error, override, snapshot>>
boosterVars == <<supplyVars, threadVars, commands, trouble>>

SetCmd(p, v) == [kind |-> "set", param |-> p, value |-> v]
Ask(p)       == [kind |-> "query", param |-> p]

IsSet(cmd) == cmd.kind = "set"

NoOverride == [value |-> NaN, ttl |-> 0]

Init ==
    /\ hw \in Settings
    /\ up \in BOOLEAN /\ peer = FALSE /\ connected = FALSE
    /\ wire = <<>> /\ late = <<>> /\ answers = <<>>
    /\ step = "commands" /\ query = 1
    /\ shown = [on |-> FALSE, vset |-> NaN]
    /\ error = FALSE /\ override = NoOverride
    /\ commands = 0 /\ trouble = 0
    /\ held = [p \in Params |-> {}]
    /\ snapshot = [connected |-> FALSE, shown |-> shown]

-----------------------------------------------------------------------------
(* The connection. *)

\* closeSocket.  Commands on the wire may still reach the supply.
CloseSocket ==
    /\ connected' = FALSE /\ peer' = FALSE
    /\ wire' = <<>> /\ answers' = <<>>
    /\ late' = late \o wire

\* ensureConnected, and send of cmd when it succeeds, after drain has thrown
\* away what has arrived.  A supply that is gone is noticed by send or later.
EnsureConnected == connected \/ up

Send(cmd) ==
    IF ~connected
    THEN /\ connected' = TRUE /\ peer' = TRUE
         /\ wire' = <<cmd>> /\ answers' = <<>> /\ UNCHANGED late
    ELSE \/ /\ ~peer /\ CloseSocket
         \/ /\ wire' = IF peer THEN Append(wire, cmd) ELSE wire
            /\ \E n \in 0..Len(answers) : answers' = SubSeq(answers, n + 1, Len(answers))
            /\ UNCHANGED <<connected, peer, late>>

-----------------------------------------------------------------------------
(* The supply, its front panel and the network. *)

Set(p, v) ==
    /\ hw' = [hw EXCEPT ![p] = v]
    /\ held' = [held EXCEPT ![p] = @ \cup {v}]

\* The supply handles the commands of a connection in order.
Handle ==
    /\ peer /\ wire # <<>>
    /\ wire' = Tail(wire)
    /\ LET cmd == Head(wire)
       IN  IF cmd.kind = "set"
           THEN Set(cmd.param, cmd.value) /\ UNCHANGED answers
           ELSE /\ answers' = Append(answers, [param |-> cmd.param, value |-> hw[cmd.param]])
                /\ UNCHANGED <<hw, held>>
    /\ UNCHANGED <<up, peer, late, threadVars, commands, trouble>>

\* A command of an old connection arrives after all, or never.  Nobody gets the
\* answer to a late query.
HandleLate ==
    /\ late # <<>> /\ late' = Tail(late)
    /\ \/ IsSet(Head(late)) /\ Set(Head(late).param, Head(late).value)
       \/ UNCHANGED <<hw, held>>
    /\ UNCHANGED <<up, peer, wire, answers, threadVars, commands, trouble>>

Trouble == trouble < MaxTrouble /\ trouble' = trouble + 1

FrontPanel(p, v) ==
    /\ Trouble /\ v # hw[p] /\ Set(p, v)
    /\ UNCHANGED <<up, peer, wire, late, answers, threadVars, commands>>

\* The supply is switched off, restarted or cut off.
Break ==
    /\ Trouble
    /\ up' \in BOOLEAN /\ peer' = FALSE
    /\ wire' = <<>> /\ answers' = <<>>
    /\ UNCHANGED <<hw, late, held, threadVars, commands>>

Heal ==
    /\ ~up /\ up' = TRUE
    /\ UNCHANGED <<hw, peer, wire, late, answers, held, threadVars, commands, trouble>>

-----------------------------------------------------------------------------
(* The booster poll thread. *)

\* dispatchCommand: setOutput, setVoltage.  The value is shown when there was
\* a connection to send it over, and overrides the setpoint in any case.
Command(p, v) ==
    /\ step = "commands" /\ commands < MaxCommands
    /\ commands' = commands + 1
    /\ IF EnsureConnected
       THEN /\ Send(SetCmd(p, v))
            /\ shown' = [shown EXCEPT ![p] = v]
            /\ error' = IF connected THEN error ELSE FALSE
       ELSE /\ error' = TRUE
            /\ UNCHANGED <<connected, peer, wire, late, answers, shown>>
    /\ override' = IF p = "vset" THEN [value |-> v, ttl |-> OverrideTTL] ELSE override
    /\ UNCHANGED <<hw, up, held, step, query, snapshot, trouble>>

\* poll() begins with ensureConnected; it opens the socket before it asks.
StartPoll ==
    /\ step = "commands"
    /\ IF EnsureConnected
       THEN /\ step' = "ask" /\ query' = 1
            /\ connected' = TRUE /\ peer' = IF connected THEN peer ELSE TRUE
            /\ error' = IF connected THEN error ELSE FALSE
       ELSE /\ step' = "publish" /\ error' = TRUE
            /\ UNCHANGED <<query, connected, peer>>
    /\ UNCHANGED <<hw, up, wire, late, answers, held, shown, override, snapshot,
                   commands, trouble>>

\* Mutant: when sending fails no error is set.
SendQuerySilently ==
    /\ step = "ask"
    /\ Send(Ask(Query[query]))
    /\ held' = [held EXCEPT ![Query[query]] = {hw[Query[query]]}]
    /\ IF connected' THEN step' = "wait" ELSE step' = "publish"
    /\ UNCHANGED <<hw, up, query, shown, error, override, snapshot, commands, trouble>>

\* sendCmd up to the wait for the answer.
SendQuery ==
    /\ step = "ask"
    /\ Send(Ask(Query[query]))
    /\ held' = [held EXCEPT ![Query[query]] = {hw[Query[query]]}]
    /\ IF connected' THEN step' = "wait" /\ UNCHANGED error
                     ELSE step' = "publish" /\ error' = TRUE
    /\ UNCHANGED <<hw, up, query, shown, override, snapshot, commands, trouble>>

\* The answer is whatever line comes first: what is not "ON" is off, and a
\* word is no setpoint.
Parse(p, answer) ==
    IF answer.param = p THEN answer.value ELSE IF p = "on" THEN FALSE ELSE shown.vset

Receive ==
    /\ step = "wait" /\ answers # <<>>
    /\ shown' = [shown EXCEPT ![Query[query]] = Parse(Query[query], Head(answers))]
    /\ answers' = Tail(answers)
    /\ IF query < Len(Query)
       THEN step' = "ask" /\ query' = query + 1 /\ UNCHANGED error
       ELSE step' = "publish" /\ error' = FALSE /\ UNCHANGED query
    /\ UNCHANGED <<hw, up, peer, wire, late, held, connected, override, snapshot,
                   commands, trouble>>

\* Mutant: a query that timed out is given up and the connection kept.
FailKeepsSocket ==
    /\ step = "wait"
    /\ IF peer THEN Trouble /\ UNCHANGED <<connected, peer, wire, late, answers, error>>
               ELSE CloseSocket /\ error' = TRUE /\ UNCHANGED trouble
    /\ IF query < Len(Query) THEN step' = "ask" ELSE step' = "publish"
    /\ UNCHANGED <<hw, up, held, query, shown, override, snapshot, commands>>

\* poll() times out, or recv finds the connection closed.
Fail ==
    /\ step = "wait"
    /\ IF peer THEN Trouble ELSE UNCHANGED trouble
    /\ CloseSocket
    /\ step' = "publish" /\ error' = TRUE
    /\ UNCHANGED <<hw, up, held, query, shown, override, snapshot, commands>>

\* Mutant: an override does not age.
PublishAgeless ==
    /\ step = "publish" /\ step' = "commands"
    /\ LET survives == shown.vset # override.value /\ override.ttl > 1
       IN  /\ override' = IF survives THEN override ELSE NoOverride
           /\ shown' = IF survives THEN [shown EXCEPT !.vset = override.value] ELSE shown
    /\ snapshot' = [connected |-> connected, shown |-> shown']
    /\ UNCHANGED <<supplyVars, connected, query, error, commands, trouble>>

\* applyPendingOverrides and setBooster.
Publish ==
    /\ step = "publish" /\ step' = "commands"
    /\ LET survives == shown.vset # override.value /\ override.ttl > 1
       IN  /\ override' = IF survives THEN [override EXCEPT !.ttl = @ - 1] ELSE NoOverride
           /\ shown' = IF survives THEN [shown EXCEPT !.vset = override.value] ELSE shown
    /\ snapshot' = [connected |-> connected, shown |-> shown']
    /\ UNCHANGED <<supplyVars, connected, query, error, commands, trouble>>

NoticeLoss == ~peer /\ Fail

PollThread == StartPoll \/ SendQuery \/ Receive \/ NoticeLoss \/ Publish

Next ==
    \/ PollThread \/ Fail
    \/ \E p \in Params : \E v \in ValuesOf(p) : Command(p, v) \/ FrontPanel(p, v)
    \/ Handle \/ HandleLate \/ Break \/ Heal

\* The thread runs until the daemon is stopped and the supply does what it is
\* told.  Nobody has to send a command, and a link need not heal.
Spec ==
    /\ Init /\ [][Next]_boosterVars
    /\ WF_boosterVars(PollThread) /\ WF_boosterVars(Handle) /\ WF_boosterVars(HandleLate)

-----------------------------------------------------------------------------
Commands == [kind : {"set"}, param : {"on"}, value : BOOLEAN]
                \cup [kind : {"set"}, param : {"vset"}, value : Voltages]
Asked    == [kind : {"query"}, param : Params]
Answers  == [param : {"on"}, value : BOOLEAN] \cup [param : {"vset"}, value : Voltages]
Fields   == [on : BOOLEAN, vset : Voltages \cup {NaN}]

\* Every variable holds a value of its C++ type, and no command is sent or
\* answered with a value of the other parameter's type.
TypeOK ==
    /\ hw \in Settings
    /\ up \in BOOLEAN /\ peer \in BOOLEAN /\ connected \in BOOLEAN /\ error \in BOOLEAN
    /\ wire \in Seq(Commands \cup Asked) /\ late \in Seq(Commands \cup Asked)
    /\ answers \in Seq(Answers)
    /\ step \in {"commands", "ask", "wait", "publish"} /\ query \in 1..2
    /\ shown \in Fields /\ snapshot \in [connected : BOOLEAN, shown : Fields]
    /\ override \in [value : Voltages \cup {NaN}, ttl : 0..OverrideTTL]
    /\ commands \in 0..MaxCommands /\ trouble \in 0..MaxTrouble
    /\ held \in [on : SUBSET BOOLEAN, vset : SUBSET Voltages]

\* The supply's answers carry no name: what a poll reads is what the supply
\* was set to while this very poll was asking, never the answer to another
\* query, to an earlier poll, or what a page asked for.
ReadsAreFresh ==
    [][Publish /\ connected => \A p \in Params : shown[p] \in held[p]]_boosterVars

\* BoosterPoller logs `connected ? "" : error` as the status of a supply: a loss
\* at any point of the exchange leaves a reason to log, and a supply that
\* answers leaves none.
LossIsExplained == [][Publish => (connected <=> ~error)]_boosterVars

\* Once the supply can be reached and is left alone, the page shows it
\* connected and what it is really set to, whether or not the commands sent
\* before a loss got through.
ShowsTheSupply ==
    <>[]up => <>[](snapshot.connected /\ snapshot.shown = hw)
=============================================================================
