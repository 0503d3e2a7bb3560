------------------------ MODULE BoosterSupplyProofs ------------------------
(***************************************************************************)
(* Theorems about BoosterSupply, for any setpoints, any number of commands *)
(* and any trouble with the link.                                          *)
(*                                                                         *)
(* An answer says nothing of its query.  Reads are right because one query *)
(* at most is under way, and only while the thread waits for it: a timeout *)
(* closes the socket, and with it everything on its way (StreamInv).       *)
(***************************************************************************)
EXTENDS BoosterSupply, SequenceTheorems, TLAPS

NoQuery(s) == \A i \in 1..Len(s) : IsSet(s[i])

\* The thread waits for an answer to its query, which is last on the wire.
Asking ==
    /\ step = "wait" /\ answers = <<>>
    /\ wire # <<>> /\ wire[Len(wire)] = Ask(Query[query])
    /\ \A i \in 1..Len(wire) - 1 : IsSet(wire[i])

\* The answer to its query has been given.
Answered ==
    /\ step = "wait" /\ NoQuery(wire)
    /\ \E x \in held[Query[query]] : answers = <<[param |-> Query[query], value |-> x]>>

StreamInv ==
    \/ NoQuery(wire) /\ answers = <<>>
    \/ Asking
    \/ Answered

ShapeInv ==
    /\ DOMAIN hw = Params /\ DOMAIN held = Params /\ DOMAIN shown = Params
    /\ wire \in Seq(Commands \cup Asked)
    /\ step \in {"commands", "ask", "wait", "publish"} /\ query \in 1..2

\* What the fields hold at each step of a poll.
FieldInv ==
    /\ step \in {"ask", "wait"} => connected
    /\ step = "wait" => hw[Query[query]] \in held[Query[query]]
    /\ step \in {"ask", "wait"} /\ query = 2 => shown["on"] \in held["on"]
    /\ step = "publish" =>
          /\ connected <=> ~error
          /\ connected => \A p \in Params : shown[p] \in held[p]

SupplyInv == ShapeInv /\ StreamInv /\ FieldInv

-----------------------------------------------------------------------------
\* Sequences of one element, and of none.
LEMMA Singletons ==
    ASSUME NEW e
    PROVE  /\ Append(<<>>, e) = <<e>>
           /\ Head(<<e>>) = e /\ Tail(<<e>>) = <<>>
           /\ <<e>> # <<>>
OBVIOUS

LEMMA NothingDrained == \A n \in 0..Len(<<>>) : SubSeq(<<>>, n + 1, Len(<<>>)) = <<>>
OBVIOUS

LEMMA QueryNames ==
    /\ Query[1] = "on" /\ Query[2] = "vset" /\ Len(Query) = 2
    /\ \A q \in 1..2 : Query[q] \in Params
BY DEF Query, Params

LEMMA CommandTypes ==
    /\ \A p \in Params : \A v \in ValuesOf(p) : SetCmd(p, v) \in Commands /\ IsSet(SetCmd(p, v))
    /\ \A p \in Params : Ask(p) \in Asked /\ ~IsSet(Ask(p))
    /\ \A c \in Commands : c.param \in Params /\ IsSet(c)
    /\ \A c \in Asked : c.param \in Params /\ c.kind = "query" /\ ~IsSet(c)
BY DEF Params, ValuesOf, SetCmd, Ask, Commands, Asked, IsSet

LEMMA InitSupply == Init => SupplyInv
<1> SUFFICES ASSUME Init PROVE SupplyInv
  OBVIOUS
<1>1. DOMAIN hw = Params /\ DOMAIN held = Params /\ DOMAIN shown = Params
  BY DEF Init, Settings, Params
<1>2. ShapeInv
  BY <1>1 DEF Init, ShapeInv
<1>3. StreamInv
  BY DEF Init, StreamInv, NoQuery
<1>4. FieldInv
  BY DEF Init, FieldInv
<1> QED
  BY <1>2, <1>3, <1>4 DEF SupplyInv

\* The supply's settings change and no answer is touched.
LEMMA SetKeeps ==
    ASSUME SupplyInv, NEW p, NEW v, Set(p, v),
           UNCHANGED <<shown, query, step, connected, error>>
    PROVE  /\ DOMAIN hw' = Params /\ DOMAIN held' = Params
           /\ \A q \in Params : held[q] \subseteq held'[q]
           /\ FieldInv'
<1>1. DOMAIN hw' = Params /\ DOMAIN held' = Params
  BY DEF Set, SupplyInv, ShapeInv
<1>2. \A q \in Params : held[q] \subseteq held'[q]
  BY DEF Set, SupplyInv, ShapeInv
<1>3. \A q \in Params : hw[q] \in held[q] => hw'[q] \in held'[q]
  BY DEF Set, SupplyInv, ShapeInv
<1>4. Query[query] \in Params /\ "on" \in Params
  BY QueryNames DEF SupplyInv, ShapeInv, Params
<1>5. FieldInv'
  BY <1>2, <1>3, <1>4 DEF SupplyInv, FieldInv
<1> QED
  BY <1>1, <1>2, <1>5

\* What is on its way stays right when held only grows.
LEMMA StreamKeeps ==
    ASSUME SupplyInv, UNCHANGED <<wire, answers, step, query>>,
           \A q \in Params : held[q] \subseteq held'[q]
    PROVE  StreamInv'
<1>1. Query[query] \in Params
  BY QueryNames DEF SupplyInv, ShapeInv
<1> QED
  BY <1>1 DEF SupplyInv, StreamInv, Asking, Answered, NoQuery

\* Nothing is on its way over a connection that was closed or broken.
LEMMA Silence ==
    ASSUME wire' = <<>>, answers' = <<>>
    PROVE  StreamInv' /\ wire' \in Seq(Commands \cup Asked)
BY DEF StreamInv, NoQuery
-----------------------------------------------------------------------------
\* A command or query is handed to the connection when nothing is on its way.
LEMMA SendKeeps ==
    ASSUME SupplyInv, step # "wait", NEW cmd \in Commands \cup Asked, Send(cmd)
    PROVE  /\ wire' \in Seq(Commands \cup Asked) /\ answers' = <<>>
           /\ IsSet(cmd) => NoQuery(wire')
           /\ \/ NoQuery(wire')
              \/ /\ wire' # <<>> /\ wire'[Len(wire')] = cmd
                 /\ \A i \in 1..Len(wire') - 1 : IsSet(wire'[i])
           /\ ~connected' => NoQuery(wire')
<1>1. NoQuery(wire) /\ answers = <<>> /\ wire \in Seq(Commands \cup Asked)
  BY DEF SupplyInv, StreamInv, ShapeInv, Asking, Answered
<1>2. CASE ~connected
  <2>1. wire' = <<cmd>> /\ answers' = <<>> /\ connected' = TRUE
    BY <1>2 DEF Send
  <2>2. Len(<<cmd>>) = 1 /\ <<cmd>>[1] = cmd /\ <<cmd>> \in Seq(Commands \cup Asked)
    OBVIOUS
  <2>3. wire' # <<>> /\ \A i \in 1..Len(wire') - 1 : IsSet(wire'[i])
    BY <2>1, <2>2
  <2>4. IsSet(cmd) => NoQuery(wire')
    BY <2>1, <2>2 DEF NoQuery
  <2> QED
    BY <2>1, <2>2, <2>3, <2>4
<1>3. CASE CloseSocket
  <2>1. wire' = <<>> /\ answers' = <<>> /\ connected' = FALSE
    BY <1>3 DEF CloseSocket
  <2> QED
    BY <2>1 DEF NoQuery
<1>4. CASE /\ connected /\ connected' = connected
           /\ wire' = IF peer THEN Append(wire, cmd) ELSE wire
           /\ \E n \in 0..Len(answers) : answers' = SubSeq(answers, n + 1, Len(answers))
  <2>1. answers' = <<>>
    BY <1>1, <1>4, NothingDrained
  <2>2. CASE peer
    <3>1. wire' = Append(wire, cmd)
      BY <1>4, <2>2
    <3>2. /\ wire' \in Seq(Commands \cup Asked) /\ Len(wire') = Len(wire) + 1
          /\ wire'[Len(wire')] = cmd
          /\ \A i \in 1..Len(wire) : wire'[i] = wire[i]
      BY <1>1, <3>1
    <3>3. Len(wire) \in Nat
      BY <1>1
    <3>4. \A i \in 1..Len(wire') - 1 : IsSet(wire'[i])
      BY <1>1, <3>2, <3>3 DEF NoQuery
    <3>5. IsSet(cmd) => NoQuery(wire')
      BY <3>2, <3>3, <3>4 DEF NoQuery
    <3>6. wire' # <<>>
      BY <3>2, <3>3
    <3> QED
      BY <1>4, <2>1, <3>2, <3>4, <3>5, <3>6
  <2>3. CASE ~peer
    BY <1>1, <1>4, <2>1, <2>3
  <2> QED
    BY <2>2, <2>3
<1> QED
  BY <1>2, <1>3, <1>4 DEF Send

LEMMA StepCommand ==
    ASSUME SupplyInv, NEW p \in Params, NEW v \in ValuesOf(p), Command(p, v)
    PROVE  SupplyInv'
<1>1. /\ step = "commands" /\ step' = step /\ query' = query
      /\ hw' = hw /\ held' = held /\ DOMAIN shown' = DOMAIN shown
  BY DEF Command
<1>2. NoQuery(wire') /\ answers' = <<>> /\ wire' \in Seq(Commands \cup Asked)
  <2>1. CASE EnsureConnected
    <3>1. Send(SetCmd(p, v))
      BY <2>1 DEF Command
    <3> QED
      BY <1>1, <3>1, CommandTypes, SendKeeps
  <2>2. CASE ~EnsureConnected
    BY <1>1, <2>2 DEF Command, SupplyInv, StreamInv, ShapeInv, Asking, Answered
  <2> QED
    BY <2>1, <2>2
<1> QED
  BY <1>1, <1>2 DEF SupplyInv, ShapeInv, StreamInv, FieldInv

LEMMA StepSendQuery == ASSUME SupplyInv, SendQuery PROVE SupplyInv'
<1> DEFINE p == Query[query]
<1>1. step = "ask" /\ query \in 1..2 /\ p \in Params /\ Send(Ask(p))
  BY QueryNames DEF SendQuery, SupplyInv, ShapeInv
<1>2. held' = [held EXCEPT ![p] = {hw[p]}] /\ hw' = hw /\ shown' = shown /\ query' = query
  BY DEF SendQuery
<1>3. Ask(p) \in Asked /\ connected
  BY <1>1, CommandTypes DEF SupplyInv, FieldInv
<1>4. /\ wire' \in Seq(Commands \cup Asked) /\ answers' = <<>>
      /\ \/ NoQuery(wire')
         \/ /\ wire' # <<>> /\ wire'[Len(wire')] = Ask(p)
            /\ \A i \in 1..Len(wire') - 1 : IsSet(wire'[i])
      /\ ~connected' => NoQuery(wire')
  BY <1>1, <1>3, SendKeeps
<1>5. hw[p] \in held'[p] /\ DOMAIN held' = Params
  BY <1>1, <1>2 DEF SupplyInv, ShapeInv
<1>6. query = 2 => shown["on"] \in held'["on"]
  BY <1>1, <1>2, QueryNames DEF SupplyInv, ShapeInv, FieldInv
<1>7. CASE connected'
  <2>1. step' = "wait"
    BY <1>7 DEF SendQuery
  <2> QED
    BY <1>1, <1>2, <1>4, <1>5, <1>6, <1>7, <2>1
       DEF SupplyInv, ShapeInv, StreamInv, Asking, FieldInv
<1>8. CASE ~connected'
  <2>1. step' = "publish" /\ error' = TRUE
    BY <1>8 DEF SendQuery
  <2> QED
    BY <1>1, <1>2, <1>4, <1>5, <1>8, <2>1
       DEF SupplyInv, ShapeInv, StreamInv, FieldInv
<1> QED
  BY <1>4, <1>7, <1>8

\* The line that is read answers the query: Parse takes it as it is.
LEMMA StepReceive == ASSUME SupplyInv, Receive PROVE SupplyInv'
<1> DEFINE p == Query[query]
<1>1. step = "wait" /\ answers # <<>> /\ query \in 1..2 /\ p \in Params
  BY QueryNames DEF Receive, SupplyInv, ShapeInv
<1>2. NoQuery(wire) /\ wire \in Seq(Commands \cup Asked)
  BY <1>1 DEF SupplyInv, ShapeInv, StreamInv, Asking, Answered
<1>3. PICK x \in held[p] : answers = <<[param |-> p, value |-> x]>>
  BY <1>1 DEF SupplyInv, StreamInv, Asking, Answered
<1>4. shown' = [shown EXCEPT ![p] = x] /\ answers' = <<>>
  <2>1. Head(answers) = [param |-> p, value |-> x] /\ Tail(answers) = <<>>
    BY <1>3, Singletons
  <2>2. Parse(p, Head(answers)) = x
    <3>1. Head(answers).param = p /\ Head(answers).value = x
      BY <2>1
    <3> QED
      BY <3>1 DEF Parse
  <2> QED
    BY <2>1, <2>2 DEF Receive
<1>5. shown'[p] \in held[p] /\ DOMAIN shown' = Params
  BY <1>1, <1>4 DEF SupplyInv, ShapeInv
<1>6. wire' = wire /\ held' = held /\ hw' = hw /\ connected' = connected /\ connected
  BY <1>1 DEF Receive, SupplyInv, FieldInv
<1>7. CASE query = 1
  <2>1. step' = "ask" /\ query' = 2
    BY <1>7, QueryNames DEF Receive
  <2> QED
    BY <1>2, <1>4, <1>5, <1>6, <1>7, <2>1, QueryNames
       DEF SupplyInv, ShapeInv, StreamInv, NoQuery, FieldInv
<1>8. CASE query = 2
  <2>1. step' = "publish" /\ query' = 2 /\ error' = FALSE
    BY <1>8, QueryNames DEF Receive
  <2>2. shown'["on"] \in held["on"]
    BY <1>1, <1>4, <1>8, QueryNames DEF SupplyInv, ShapeInv, FieldInv
  <2>3. \A q \in Params : shown'[q] \in held'[q]
    BY <1>5, <1>6, <1>8, <2>2, QueryNames DEF Params
  <2> QED
    BY <1>2, <1>4, <1>5, <1>6, <2>1, <2>3
       DEF SupplyInv, ShapeInv, StreamInv, NoQuery, FieldInv
<1> QED
  BY <1>1, <1>7, <1>8

LEMMA StepHandle == ASSUME SupplyInv, Handle PROVE SupplyInv'
<1> DEFINE cmd == Head(wire)
<1>1. /\ wire # <<>> /\ wire' = Tail(wire)
      /\ UNCHANGED <<shown, query, step, connected, error>>
  BY DEF Handle, threadVars
<1>2. wire \in Seq(Commands \cup Asked) /\ query \in 1..2 /\ Query[query] \in Params
  BY QueryNames DEF SupplyInv, ShapeInv
<1>3. /\ wire' \in Seq(Commands \cup Asked) /\ Len(wire') = Len(wire) - 1
      /\ Len(wire) \in Nat \ {0} /\ cmd = wire[1] /\ cmd \in Commands \cup Asked
      /\ \A i \in 1..Len(wire') : wire'[i] = wire[i + 1]
  BY <1>1, <1>2
<1>4. CASE cmd.kind = "set"
  <2>1. cmd \in Commands /\ cmd.param \in Params
    BY <1>3, <1>4, CommandTypes
  <2>2. Set(cmd.param, cmd.value) /\ answers' = answers
    BY <1>4 DEF Handle
  <2>3. /\ DOMAIN hw' = Params /\ DOMAIN held' = Params
        /\ \A q \in Params : held[q] \subseteq held'[q]
        /\ FieldInv'
    BY <1>1, <2>1, <2>2, SetKeeps
  <2>4. NoQuery(wire) => NoQuery(wire')
    BY <1>3 DEF NoQuery
  <2>5. Asking => Asking'
    <3> SUFFICES ASSUME Asking PROVE Asking'
      OBVIOUS
    <3>1. Len(wire) # 1
      BY <1>2, <1>3, <2>1, CommandTypes DEF Asking
    <3>2. wire'[Len(wire')] = wire[Len(wire)] /\ wire' # <<>>
      BY <1>3, <3>1
    <3>3. \A i \in 1..Len(wire') - 1 : IsSet(wire'[i])
      BY <1>3 DEF Asking
    <3> QED
      BY <1>1, <2>2, <3>2, <3>3 DEF Asking
  <2>6. Answered => Answered'
    BY <1>1, <1>2, <2>2, <2>3, <2>4 DEF Answered
  <2>7. StreamInv'
    BY <2>2, <2>4, <2>5, <2>6 DEF SupplyInv, StreamInv
  <2> QED
    BY <1>1, <1>3, <2>3, <2>7 DEF SupplyInv, ShapeInv
<1>5. CASE cmd.kind # "set"
  <2>1. ~NoQuery(wire)
    BY <1>3, <1>5 DEF NoQuery, IsSet
  <2>2. Asking
    BY <2>1 DEF SupplyInv, StreamInv, Answered
  <2>3. Len(wire) = 1 /\ cmd = Ask(Query[query])
    BY <1>3, <1>5, <2>2 DEF Asking, IsSet
  <2>4. /\ answers' = Append(answers, [param |-> cmd.param, value |-> hw[cmd.param]])
        /\ hw' = hw /\ held' = held
    BY <1>5 DEF Handle
  <2>5. answers' = <<[param |-> Query[query], value |-> hw[Query[query]]]>>
    BY <2>2, <2>3, <2>4, Singletons DEF Asking, Ask
  <2>6. hw[Query[query]] \in held[Query[query]]
    BY <2>2 DEF SupplyInv, FieldInv, Asking
  <2>7. NoQuery(wire')
    BY <1>3, <2>3 DEF NoQuery
  <2>8. Answered'
    BY <1>1, <2>2, <2>4, <2>5, <2>6, <2>7 DEF Answered, Asking
  <2> QED
    BY <1>1, <1>3, <2>4, <2>8 DEF SupplyInv, ShapeInv, StreamInv, FieldInv
<1> QED
  BY <1>4, <1>5
LEMMA StepSupply == SupplyInv /\ [Next]_boosterVars => SupplyInv'
<1> SUFFICES ASSUME SupplyInv, [Next]_boosterVars PROVE SupplyInv'
  OBVIOUS
<1>0. CASE UNCHANGED boosterVars
  BY <1>0 DEF boosterVars, supplyVars, threadVars, SupplyInv, ShapeInv, StreamInv, Asking,
              Answered, NoQuery, FieldInv
<1>1. CASE StartPoll
  <2>1. /\ step = "commands" /\ UNCHANGED <<hw, held, shown, wire, answers>>
        /\ query' \in 1..2
    <3>1. CASE EnsureConnected
      BY <1>1, <3>1 DEF StartPoll
    <3>2. CASE ~EnsureConnected
      BY <1>1, <3>2 DEF StartPoll, SupplyInv, ShapeInv
    <3> QED
      BY <3>1, <3>2
  <2>2. NoQuery(wire') /\ answers' = <<>>
    BY <2>1 DEF SupplyInv, StreamInv, Asking, Answered
  <2>3. \/ step' = "ask" /\ query' = 1 /\ connected' = TRUE
        \/ step' = "publish" /\ connected' = FALSE /\ error' = TRUE
    <3>1. CASE EnsureConnected
      BY <1>1, <3>1 DEF StartPoll
    <3>2. CASE ~EnsureConnected
      BY <1>1, <3>2 DEF StartPoll, EnsureConnected
    <3> QED
      BY <3>1, <3>2
  <2> QED
    BY <2>1, <2>2, <2>3 DEF SupplyInv, ShapeInv, StreamInv, FieldInv
<1>2. CASE SendQuery
  BY <1>2, StepSendQuery
<1>3. CASE Receive
  BY <1>3, StepReceive
<1>4. CASE Fail
  <2>1. /\ wire' = <<>> /\ answers' = <<>> /\ connected' = FALSE
        /\ step' = "publish" /\ error' = TRUE
        /\ UNCHANGED <<hw, held, query, shown>>
    BY <1>4 DEF Fail, CloseSocket
  <2>2. StreamInv' /\ wire' \in Seq(Commands \cup Asked)
    BY <2>1, Silence
  <2> QED
    BY <2>1, <2>2 DEF SupplyInv, ShapeInv, FieldInv
<1>5. CASE Publish
  <2>1. /\ step = "publish" /\ step' = "commands"
        /\ UNCHANGED <<hw, held, wire, answers, query>>
        /\ DOMAIN shown' = DOMAIN shown
    BY <1>5 DEF Publish, supplyVars
  <2> QED
    BY <2>1 DEF SupplyInv, ShapeInv, StreamInv, Asking, Answered, NoQuery, FieldInv
<1>6. ASSUME NEW p \in Params, NEW v \in ValuesOf(p), Command(p, v) PROVE SupplyInv'
  BY <1>6, StepCommand
<1>7. ASSUME NEW p \in Params, NEW v \in ValuesOf(p), FrontPanel(p, v) PROVE SupplyInv'
  <2>1. Set(p, v) /\ UNCHANGED <<shown, query, step, connected, error, wire, answers>>
    BY <1>7 DEF FrontPanel, threadVars
  <2> QED
    BY <2>1, SetKeeps, StreamKeeps DEF SupplyInv, ShapeInv
<1>8. CASE Handle
  BY <1>8, StepHandle
<1>9. CASE HandleLate
  <2>1. UNCHANGED <<shown, query, step, connected, error, wire, answers>>
    BY <1>9 DEF HandleLate, threadVars
  <2>2. CASE UNCHANGED <<hw, held>>
    BY <2>1, <2>2 DEF SupplyInv, ShapeInv, StreamInv, Asking, Answered, NoQuery, FieldInv
  <2>3. CASE Set(Head(late).param, Head(late).value)
    BY <2>1, <2>3, SetKeeps, StreamKeeps DEF SupplyInv, ShapeInv
  <2> QED
    BY <1>9, <2>2, <2>3 DEF HandleLate
<1>10. CASE Break
  <2>1. /\ wire' = <<>> /\ answers' = <<>>
        /\ UNCHANGED <<hw, held, query, shown, step, connected, error>>
    BY <1>10 DEF Break, threadVars
  <2>2. StreamInv' /\ wire' \in Seq(Commands \cup Asked)
    BY <2>1, Silence
  <2> QED
    BY <2>1, <2>2 DEF SupplyInv, ShapeInv, FieldInv
<1>11. CASE Heal
  BY <1>11 DEF Heal, threadVars, SupplyInv, ShapeInv, StreamInv, Asking, Answered, NoQuery,
               FieldInv
<1> QED
  BY <1>0, <1>1, <1>2, <1>3, <1>4, <1>5, <1>6, <1>7, <1>8, <1>9, <1>10, <1>11
     DEF Next, PollThread, NoticeLoss

\* SupplyInv holds in every state.
THEOREM SupplyInvariant == Spec => []SupplyInv
BY InitSupply, StepSupply, PTL DEF Spec

\* What a poll reads is what the supply was set to while this poll asked, in
\* spite of late answers, lost connections and commands that arrive late.
THEOREM FreshReads == Spec => ReadsAreFresh
<1>1. SupplyInv /\ [Next]_boosterVars =>
          [Publish /\ connected => \A p \in Params : shown[p] \in held[p]]_boosterVars
  BY DEF SupplyInv, FieldInv, Publish
<1> QED
  BY <1>1, SupplyInvariant, PTL DEF Spec, ReadsAreFresh

\* Whenever the state of a supply is published and logged, there is an error
\* text exactly when it is not connected.
THEOREM ExplainedLosses == Spec => LossIsExplained
<1>1. SupplyInv /\ [Next]_boosterVars => [Publish => (connected <=> ~error)]_boosterVars
  BY DEF SupplyInv, FieldInv, Publish
<1> QED
  BY <1>1, SupplyInvariant, PTL DEF Spec, LossIsExplained

-----------------------------------------------------------------------------
(* Types. *)

LEMMA SettingsTypes ==
    /\ \A f \in Settings : \A p \in Params : f[p] \in ValuesOf(p)
    /\ \A f \in Settings : \A p \in Params : \A v \in ValuesOf(p) :
          [f EXCEPT ![p] = v] \in Settings
    /\ \A f \in Fields : \A p \in Params : \A v \in ValuesOf(p) : [f EXCEPT ![p] = v] \in Fields
    /\ \A f \in Fields : \A v \in Voltages \cup {NaN} :
          f.vset \in Voltages \cup {NaN} /\ [f EXCEPT !["vset"] = v] \in Fields
BY DEF Settings, Fields, Params, ValuesOf

HeldTypes == [on : SUBSET BOOLEAN, vset : SUBSET Voltages]

LEMMA HeldKeeps ==
    ASSUME NEW h \in HeldTypes, NEW p \in Params, NEW v \in ValuesOf(p)
    PROVE  [h EXCEPT ![p] = @ \cup {v}] \in HeldTypes /\ [h EXCEPT ![p] = {v}] \in HeldTypes
<1>1. CASE p = "on"
  BY <1>1 DEF HeldTypes, ValuesOf
<1>2. CASE p = "vset"
  BY <1>2 DEF HeldTypes, ValuesOf
<1> QED
  BY <1>1, <1>2 DEF Params

LEMMA MessageTypes ==
    /\ \A p \in Params : \A v \in ValuesOf(p) :
          SetCmd(p, v) \in Commands /\ [param |-> p, value |-> v] \in Answers
    /\ \A p \in Params : Ask(p) \in Asked
    /\ \A c \in Commands \cup Asked : IsSet(c) => c.param \in Params /\ c.value \in ValuesOf(c.param)
    /\ \A c \in Commands \cup Asked : c.param \in Params
    /\ \A a \in Answers : a.param \in Params /\ a.value \in ValuesOf(a.param)
BY DEF Params, ValuesOf, SetCmd, Ask, Commands, Asked, Answers, IsSet

\* Queues after a step.
LEMMA QueueTypes ==
    ASSUME NEW S, NEW q \in Seq(S)
    PROVE  /\ \A e \in S : Append(q, e) \in Seq(S) /\ <<e>> \in Seq(S)
           /\ \A r \in Seq(S) : q \o r \in Seq(S)
           /\ q # <<>> => Head(q) \in S /\ Tail(q) \in Seq(S)
           /\ <<>> \in Seq(S)
OBVIOUS

LEMMA DrainTypes ==
    ASSUME NEW q \in Seq(Answers), NEW n \in 0..Len(q)
    PROVE  SubSeq(q, n + 1, Len(q)) \in Seq(Answers)
<1>1. Len(q) \in Nat /\ \A i \in 1..Len(q) : q[i] \in Answers
  BY LenProperties, ElementOfSeq
<1>2. \A i \in n+1..Len(q) : q[i] \in Answers
  BY <1>1
<1> QED
  BY <1>1, <1>2, SubSeqProperties

LEMMA SetTypes ==
    ASSUME TypeOK, NEW p \in Params, NEW v \in ValuesOf(p), Set(p, v)
    PROVE  hw' \in Settings /\ held' \in HeldTypes
<1>1. hw \in Settings /\ held \in HeldTypes
  BY DEF TypeOK, HeldTypes
<1> QED
  BY <1>1, SettingsTypes, HeldKeeps DEF Set

\* What CloseSocket and Send leave of the connection.
LinkType ==
    /\ peer \in BOOLEAN /\ connected \in BOOLEAN
    /\ wire \in Seq(Commands \cup Asked) /\ late \in Seq(Commands \cup Asked)
    /\ answers \in Seq(Answers)

LEMMA CloseTypes == TypeOK /\ CloseSocket => LinkType'
<1> SUFFICES ASSUME TypeOK, CloseSocket PROVE LinkType'
  OBVIOUS
<1>1. late \in Seq(Commands \cup Asked) /\ wire \in Seq(Commands \cup Asked)
  BY DEF TypeOK
<1>2. late \o wire \in Seq(Commands \cup Asked)
  BY <1>1, QueueTypes
<1>3. <<>> \in Seq(Commands \cup Asked) /\ <<>> \in Seq(Answers)
  OBVIOUS
<1> QED
  BY <1>2, <1>3 DEF CloseSocket, LinkType

LEMMA SendTypes ==
    ASSUME TypeOK, NEW cmd \in Commands \cup Asked, Send(cmd) PROVE LinkType'
<1>1. CASE ~connected
  <2>1. <<cmd>> \in Seq(Commands \cup Asked) /\ <<>> \in Seq(Answers)
    OBVIOUS
  <2>2. late \in Seq(Commands \cup Asked)
    BY DEF TypeOK
  <2> QED
    BY <1>1, <2>1, <2>2 DEF Send, LinkType
<1>2. CASE CloseSocket
  BY <1>2, CloseTypes
<1>3. CASE /\ wire' = IF peer THEN Append(wire, cmd) ELSE wire
           /\ \E n \in 0..Len(answers) : answers' = SubSeq(answers, n + 1, Len(answers))
           /\ UNCHANGED <<connected, peer, late>>
  <2>1. answers' \in Seq(Answers)
    BY <1>3, DrainTypes DEF TypeOK
  <2>2. wire' \in Seq(Commands \cup Asked)
    BY <1>3, QueueTypes DEF TypeOK
  <2> QED
    BY <1>3, <2>1, <2>2 DEF TypeOK, LinkType
<1> QED
  BY <1>1, <1>2, <1>3 DEF Send

LEMMA InitTypes == Init => TypeOK
<1> SUFFICES ASSUME Init PROVE TypeOK
  OBVIOUS
<1>1. shown \in Fields /\ held \in [on : SUBSET BOOLEAN, vset : SUBSET Voltages]
  BY DEF Init, Fields, Params
<1>2. override \in [value : Voltages \cup {NaN}, ttl : 0..OverrideTTL]
  BY BoosterAssumption DEF Init, NoOverride
<1>3. /\ wire \in Seq(Commands \cup Asked) /\ late \in Seq(Commands \cup Asked)
      /\ answers \in Seq(Answers)
  BY DEF Init
<1>4. snapshot \in [connected : BOOLEAN, shown : Fields]
  BY <1>1 DEF Init
<1>5. commands \in 0..MaxCommands /\ trouble \in 0..MaxTrouble
  BY BoosterAssumption DEF Init
<1>6. up \in BOOLEAN /\ peer \in BOOLEAN /\ connected \in BOOLEAN /\ error \in BOOLEAN
  BY DEF Init
<1>7. hw \in Settings /\ step \in {"commands", "ask", "wait", "publish"} /\ query \in 1..2
  BY DEF Init
<1> QED
  BY <1>1, <1>2, <1>3, <1>4, <1>5, <1>6, <1>7 DEF TypeOK

LEMMA NextTypes == TypeOK /\ [Next]_boosterVars => TypeOK'
<1> SUFFICES ASSUME TypeOK, [Next]_boosterVars PROVE TypeOK'
  OBVIOUS
<1>0. held \in HeldTypes /\ hw \in Settings /\ shown \in Fields
  BY DEF TypeOK, HeldTypes
<1>1. CASE StartPoll
  <2>1. /\ step' \in {"ask", "publish"} /\ query' \in {1, query}
        /\ connected' \in {TRUE, connected} /\ peer' \in {TRUE, peer}
        /\ error' \in {TRUE, FALSE, error}
        /\ UNCHANGED <<hw, up, wire, late, answers, held, shown, override, snapshot,
                       commands, trouble>>
    BY <1>1 DEF StartPoll, TypeOK
  <2>2. connected' \in BOOLEAN /\ peer' \in BOOLEAN /\ error' \in BOOLEAN
    BY <2>1 DEF TypeOK
  <2>3. step' \in {"commands", "ask", "wait", "publish"} /\ query' \in 1..2
    BY <2>1 DEF TypeOK
  <2> QED
    BY <2>1, <2>2, <2>3 DEF TypeOK
<1>2. CASE SendQuery
  <2>1. Query[query] \in Params
    BY QueryNames DEF TypeOK
  <2>2. LinkType'
    BY <1>2, <2>1, MessageTypes, SendTypes DEF SendQuery
  <2>3. held' \in HeldTypes
    <3>1. hw[Query[query]] \in ValuesOf(Query[query])
      BY <1>0, <2>1, SettingsTypes
    <3> QED
      BY <1>0, <1>2, <2>1, <3>1, HeldKeeps DEF SendQuery
  <2> QED
    BY <1>2, <2>2, <2>3 DEF SendQuery, TypeOK, LinkType, HeldTypes
<1>3. CASE Receive
  <2>1. Query[query] \in Params
    BY QueryNames DEF TypeOK
  <2>2. Head(answers) \in Answers /\ Tail(answers) \in Seq(Answers)
    BY <1>3, QueueTypes DEF Receive, TypeOK
  <2>3. shown' \in Fields
    <3>1. CASE Head(answers).param = Query[query]
      BY <1>0, <1>3, <2>1, <2>2, <3>1, MessageTypes, SettingsTypes DEF Receive, Parse
    <3>2. CASE Head(answers).param # Query[query] /\ Query[query] = "on"
      <4>1. FALSE \in ValuesOf("on")
        BY DEF ValuesOf
      <4> QED
        BY <1>0, <1>3, <2>1, <3>2, <4>1, SettingsTypes DEF Receive, Parse
    <3>3. CASE Head(answers).param # Query[query] /\ Query[query] # "on"
      <4>1. Query[query] = "vset"
        BY <2>1, <3>3 DEF Params
      <4> QED
        BY <1>0, <1>3, <3>3, <4>1, SettingsTypes DEF Receive, Parse
    <3> QED
      BY <3>1, <3>2, <3>3
  <2>4. query' \in 1..2
    BY <1>3, QueryNames DEF Receive, TypeOK
  <2> QED
    BY <1>3, <2>2, <2>3, <2>4 DEF Receive, TypeOK
<1>4. CASE Fail
  <2>1. LinkType'
    BY <1>4, CloseTypes DEF Fail
  <2>2. trouble' \in 0..MaxTrouble
    BY <1>4, BoosterAssumption DEF Fail, Trouble, TypeOK
  <2> QED
    BY <1>4, <2>1, <2>2 DEF Fail, TypeOK, LinkType
<1>5. CASE Publish
  <2> DEFINE survives == shown.vset # override.value /\ override.ttl > 1
  <2>1. /\ override' = IF survives THEN [override EXCEPT !.ttl = @ - 1] ELSE NoOverride
        /\ shown' = IF survives THEN [shown EXCEPT !.vset = override.value] ELSE shown
    BY <1>5 DEF Publish
  <2>2. override \in [value : Voltages \cup {NaN}, ttl : 0..OverrideTTL]
    BY DEF TypeOK
  <2>3. override' \in [value : Voltages \cup {NaN}, ttl : 0..OverrideTTL]
    BY <2>1, <2>2, BoosterAssumption DEF NoOverride
  <2>4. shown' \in Fields
    BY <1>0, <2>1, <2>2, SettingsTypes
  <2>5. snapshot' \in [connected : BOOLEAN, shown : Fields]
    BY <1>5, <2>4 DEF Publish, TypeOK
  <2> HIDE DEF survives
  <2> QED
    BY <1>5, <2>3, <2>4, <2>5 DEF Publish, supplyVars, TypeOK
<1>6. ASSUME NEW p \in Params, NEW v \in ValuesOf(p), Command(p, v) PROVE TypeOK'
  <2>1. override' \in [value : Voltages \cup {NaN}, ttl : 0..OverrideTTL]
    <3>1. p = "vset" => v \in Voltages
      BY DEF ValuesOf
    <3> QED
      BY <1>6, <3>1, BoosterAssumption DEF Command, TypeOK
  <2>2. LinkType' /\ shown' \in Fields
    <3>1. CASE EnsureConnected
      BY <1>0, <1>6, <3>1, MessageTypes, SendTypes, SettingsTypes DEF Command
    <3>2. CASE ~EnsureConnected
      BY <1>0, <1>6, <3>2 DEF Command, TypeOK, LinkType
    <3> QED
      BY <3>1, <3>2
  <2>3. commands' \in 0..MaxCommands /\ error' \in BOOLEAN
    <3>1. commands \in 0..MaxCommands /\ error \in BOOLEAN
      BY DEF TypeOK
    <3>2. commands' = commands + 1 /\ commands < MaxCommands /\ error' \in {TRUE, FALSE, error}
      BY <1>6 DEF Command
    <3> QED
      <4>1. commands' \in 0..MaxCommands
        BY <3>1, <3>2, BoosterAssumption
      <4> QED
        BY <3>1, <3>2, <4>1
  <2> QED
    BY <1>6, <2>1, <2>2, <2>3 DEF Command, TypeOK, LinkType
<1>7. ASSUME NEW p \in Params, NEW v \in ValuesOf(p), FrontPanel(p, v) PROVE TypeOK'
  <2>1. hw' \in Settings /\ held' \in HeldTypes
    BY <1>7, SetTypes DEF FrontPanel
  <2>2. trouble' \in 0..MaxTrouble
    BY <1>7, BoosterAssumption DEF FrontPanel, Trouble, TypeOK
  <2> QED
    BY <1>7, <2>1, <2>2 DEF FrontPanel, threadVars, TypeOK, HeldTypes
<1>8. CASE Handle
  <2>1. Head(wire) \in Commands \cup Asked /\ Tail(wire) \in Seq(Commands \cup Asked)
    BY <1>8, QueueTypes DEF Handle, TypeOK
  <2>2. CASE Head(wire).kind = "set"
    <3>1. hw' \in Settings /\ held' \in HeldTypes /\ answers' = answers
      BY <1>8, <2>1, <2>2, MessageTypes, SetTypes DEF Handle, IsSet
    <3> QED
      BY <1>8, <2>1, <3>1 DEF Handle, threadVars, TypeOK, HeldTypes
  <2>3. CASE Head(wire).kind # "set"
    <3>1. answers' \in Seq(Answers)
      <4>1. PICK p \in Params : p = Head(wire).param
        BY <2>1, MessageTypes
      <4>2. [param |-> p, value |-> hw[p]] \in Answers
        BY <1>0, <4>1, MessageTypes, SettingsTypes
      <4>3. answers' = Append(answers, [param |-> p, value |-> hw[p]])
        BY <1>8, <2>3, <4>1 DEF Handle
      <4> QED
        BY <4>2, <4>3 DEF TypeOK
    <3> QED
      BY <1>8, <2>1, <2>3, <3>1 DEF Handle, threadVars, TypeOK
  <2> QED
    BY <2>2, <2>3
<1>9. CASE HandleLate
  <2>1. Head(late) \in Commands \cup Asked /\ Tail(late) \in Seq(Commands \cup Asked)
    BY <1>9, QueueTypes DEF HandleLate, TypeOK
  <2>2. hw' \in Settings /\ held' \in HeldTypes
    BY <1>0, <1>9, <2>1, MessageTypes, SetTypes DEF HandleLate
  <2> QED
    BY <1>9, <2>1, <2>2 DEF HandleLate, threadVars, TypeOK, HeldTypes
<1>10. CASE Break
  <2>1. wire' \in Seq(Commands \cup Asked) /\ answers' \in Seq(Answers)
    BY <1>10 DEF Break
  <2>2. trouble' \in 0..MaxTrouble
    BY <1>10, BoosterAssumption DEF Break, Trouble, TypeOK
  <2> QED
    BY <1>10, <2>1, <2>2 DEF Break, threadVars, TypeOK
<1>11. CASE Heal
  BY <1>11 DEF Heal, threadVars, TypeOK
<1>12. CASE UNCHANGED boosterVars
  BY <1>12 DEF boosterVars, supplyVars, threadVars, TypeOK
<1> QED
  BY <1>1, <1>2, <1>3, <1>4, <1>5, <1>6, <1>7, <1>8, <1>9, <1>10, <1>11, <1>12
     DEF Next, PollThread, NoticeLoss

\* Whatever is lost, late or changed by hand, every field of a supply and
\* every line on its way has a value of its type.
THEOREM TypeCorrect == Spec => []TypeOK
BY InitTypes, NextTypes, PTL DEF Spec
=============================================================================
