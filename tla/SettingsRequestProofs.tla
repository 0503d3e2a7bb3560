----------------------- MODULE SettingsRequestProofs -----------------------
(***************************************************************************)
(* Theorems about SettingsRequest, for any pages, requests and connections.*)
(*                                                                         *)
(* There is one requester of a kind, so an answer arrives right because of *)
(* what is on its way (OneInv): after a request that found nothing of its  *)
(* kind on its way, all there is of it, in the queue, the store or the     *)
(* timer's hands, is that request, and the page that is remembered waits   *)
(* for it.  ConnInv says that no other page can be taken for that one.     *)
(***************************************************************************)
EXTENDS SettingsRequest, TLAPS

ConnInv ==
  /\ \A c, d \in Clients : conn[c] # 0 /\ conn[c] = conn[d] => c = d
  /\ \A c \in Clients : conn[c] <= opens
  /\ \A k \in Kinds : requester[k] <= opens /\ (pending[k] => requester[k] # 0)
  /\ \A c \in Clients, k \in Kinds :
       pending[k] /\ conn[c] = requester[k] => waiting[c][k] # 0

\* The page remembered, if it is there, waits for r.
Belongs(k, r) ==
  \A c \in Clients : pending[k] /\ conn[c] = requester[k] => waiting[c][k] = r

QueuedOne(k) ==
  \A i \in DOMAIN queue : queue[i].kind = k =>
    /\ \A j \in DOMAIN queue : queue[j].kind = k => i = j
    /\ response[k] = <<>> /\ (k = "save" => taken = <<>>)
    /\ Belongs(k, queue[i].request)
StoredOne(k) ==
  response[k] # <<>> =>
    /\ k = "save" => taken = <<>> /\ path = Head(response[k])
    /\ Belongs(k, Head(response[k]))
TakenOne ==
  taken # <<>> => path = Head(taken) /\ Belongs("save", Head(taken))

OneInv ==
  \A k \in Kinds : ~mixed[k] =>
    QueuedOne(k) /\ StoredOne(k) /\ (k = "save" => TakenOne)

AnswersInv == ConnInv /\ OneInv /\ AnswersArriveRight

-----------------------------------------------------------------------------
(* Types. *)

Commands == [kind : Kinds, request : Requests]
Slots == {<<>>} \cup {<<r>> : r \in Requests}
Answers == [kind : Kinds, asked : Requests, told : Requests, path : Requests, alone : BOOLEAN]

LEMMA BoundsAreNat == MaxRequests \in Nat /\ MaxOpens \in Nat /\ 0 \in Requests
BY RequestAssumption DEF Requests

LEMMA AppendFacts ==
    ASSUME NEW S, NEW q \in Seq(S), NEW e \in S
    PROVE  /\ Append(q, e) \in Seq(S)
           /\ DOMAIN q = 1..Len(q) /\ Len(q) \in Nat
           /\ DOMAIN Append(q, e) = 1..Len(q) + 1
           /\ \A i \in DOMAIN q : Append(q, e)[i] = q[i]
           /\ Append(q, e)[Len(q) + 1] = e
OBVIOUS

LEMMA TailFacts ==
    ASSUME NEW S, NEW q \in Seq(S), q # <<>>
    PROVE  /\ Tail(q) \in Seq(S) /\ Head(q) \in S
           /\ 1 \in DOMAIN q /\ Head(q) = q[1]
           /\ DOMAIN Tail(q) \subseteq Nat \ {0}
           /\ \A i \in DOMAIN Tail(q) : i + 1 \in DOMAIN q /\ Tail(q)[i] = q[i + 1]
OBVIOUS

LEMMA SlotFacts ==
    ASSUME NEW s \in Slots
    PROVE  s # <<>> => Head(s) \in Requests
BY DEF Slots

LEMMA SlotOf ==
    ASSUME NEW r \in Requests
    PROVE  <<r>> \in Slots /\ <<r>> # <<>> /\ Head(<<r>>) = r
BY DEF Slots

\* What an answer that is sent leaves behind.
LEMMA SendTypes ==
    ASSUME TypeOK, NEW k \in Kinds, NEW r \in Requests, NEW p \in Requests, Send(k, r, p)
    PROVE  /\ pending' \in [Kinds -> BOOLEAN] /\ answers' \subseteq Answers
           /\ waiting' \in [Clients -> [Kinds -> Requests]]
           /\ UNCHANGED <<conn, opens, queue, requests, requester, mixed>>
<1> DEFINE to == {c \in Clients : pending[k] /\ conn[c] = requester[k]}
<1>1. pending' \in [Kinds -> BOOLEAN]
  BY DEF Send, TypeOK
<1>2. waiting' \in [Clients -> [Kinds -> Requests]]
  <2>1. \A c \in Clients : [waiting[c] EXCEPT ![k] = 0] \in [Kinds -> Requests]
    BY BoundsAreNat DEF TypeOK
  <2> QED
    BY <2>1 DEF Send, TypeOK
<1>3. \A c \in Clients :
        [kind |-> k, asked |-> waiting[c][k], told |-> r, path |-> p,
         alone |-> ~mixed[k]] \in Answers
  <2>1. \A c \in Clients : waiting[c][k] \in Requests
    BY DEF TypeOK
  <2> QED
    BY <2>1 DEF Answers
<1>4. answers \subseteq Answers
  BY DEF TypeOK, Answers
<1>5. answers' \subseteq Answers
  BY <1>3, <1>4 DEF Send
<1> QED
  BY <1>1, <1>2, <1>5 DEF Send

LEMMA InitTypes == Init => TypeOK
<1> SUFFICES ASSUME Init PROVE TypeOK
  OBVIOUS
<1> USE BoundsAreNat
<1>1. /\ conn \in [Clients -> 0..MaxOpens] /\ opens \in 0..MaxOpens
      /\ queue \in Seq([kind : Kinds, request : Requests]) /\ requests \in Requests
  BY DEF Init
<1>2. /\ requester \in [Kinds -> 0..MaxOpens] /\ pending \in [Kinds -> BOOLEAN]
      /\ response \in [Kinds -> {<<>>} \cup {<<r>> : r \in Requests}]
      /\ path \in Requests /\ taken \in {<<>>} \cup {<<r>> : r \in Requests}
  BY DEF Init
<1>3. /\ waiting \in [Clients -> [Kinds -> Requests]] /\ answers = {}
      /\ mixed \in [Kinds -> BOOLEAN]
  BY DEF Init
<1> QED
  BY <1>1, <1>2, <1>3 DEF TypeOK

LEMMA StepTypes == TypeOK /\ [Next]_reqVars => TypeOK'
<1> SUFFICES ASSUME TypeOK, [Next]_reqVars PROVE TypeOK'
  OBVIOUS
<1> USE BoundsAreNat
<1>0. "save" \in Kinds /\ "load" \in Kinds
  BY DEF Kinds
<1>1. ASSUME NEW c \in Clients, NEW reload \in BOOLEAN, Open(c, reload)
      PROVE  TypeOK'
  <2>1. opens' \in 0..MaxOpens /\ conn' \in [Clients -> 0..MaxOpens]
    BY <1>1 DEF Open, TypeOK
  <2>2. waiting' \in [Clients -> [Kinds -> Requests]]
    BY <1>1 DEF Open, TypeOK
  <2> QED
    BY <1>1, <2>1, <2>2 DEF Open, TypeOK
<1>2. ASSUME NEW c \in Clients, Close(c)
      PROVE  TypeOK'
  BY <1>2 DEF Close, TypeOK
<1>3. ASSUME NEW c \in Clients, NEW k \in Kinds, Ask(c, k)
      PROVE  TypeOK'
  <2>1. requests' \in Requests /\ requests' = requests + 1
    BY <1>3 DEF Ask, TypeOK, Requests
  <2>2. [kind |-> k, request |-> requests + 1] \in [kind : Kinds, request : Requests]
    BY <2>1
  <2>3. queue' \in Seq([kind : Kinds, request : Requests])
    BY <1>3, <2>2, AppendFacts DEF Ask, TypeOK
  <2>4. waiting' \in [Clients -> [Kinds -> Requests]]
    <3>1. [waiting[c] EXCEPT ![k] = requests + 1] \in [Kinds -> Requests]
      BY <2>1 DEF TypeOK
    <3>2. waiting' = [waiting EXCEPT ![c] = [waiting[c] EXCEPT ![k] = requests + 1]]
      BY <1>3 DEF Ask
    <3> QED
      BY <3>1, <3>2 DEF TypeOK
  <2>5. requester' \in [Kinds -> 0..MaxOpens] /\ pending' \in [Kinds -> BOOLEAN]
    BY <1>3 DEF Ask, TypeOK
  <2>6. mixed' \in [Kinds -> BOOLEAN]
    <3>1. (~Idle(k)) \in BOOLEAN
      BY DEF Idle
    <3> QED
      BY <1>3, <3>1 DEF Ask, TypeOK
  <2> QED
    BY <1>3, <2>1, <2>3, <2>4, <2>5, <2>6 DEF Ask, TypeOK
<1>4. CASE Serve
  <2>1. /\ queue' \in Seq([kind : Kinds, request : Requests])
        /\ Head(queue).kind \in Kinds /\ Head(queue).request \in Requests
    <3>1. queue \in Seq([kind : Kinds, request : Requests]) /\ queue # <<>> /\ queue' = Tail(queue)
      BY <1>4 DEF Serve, TypeOK
    <3>2. Head(queue) \in [kind : Kinds, request : Requests]
      BY <3>1, TailFacts
    <3> QED
      BY <3>1, <3>2, TailFacts
  <2>2. response' \in [Kinds -> {<<>>} \cup {<<r>> : r \in Requests}]
    <3> DEFINE s == <<Head(queue).request>>
    <3>1. s \in {<<>>} \cup {<<r>> : r \in Requests}
      BY <2>1
    <3>2. response' = [response EXCEPT ![Head(queue).kind] = s]
      BY <1>4 DEF Serve
    <3> HIDE DEF s
    <3> QED
      BY <3>1, <3>2 DEF TypeOK
  <2>3. path' \in Requests
    BY <1>4, <2>1 DEF Serve, TypeOK
  <2> QED
    BY <1>4, <2>1, <2>2, <2>3 DEF Serve, TypeOK
<1>5. CASE TakeSaved
  BY <1>0, <1>5 DEF TakeSaved, TypeOK
<1>6. CASE SendSaved
  <2>1. Head(taken) \in Requests /\ path \in Requests
    BY <1>6, SlotFacts DEF SendSaved, TypeOK, Slots
  <2> QED
    BY <1>0, <1>6, <2>1, SendTypes DEF SendSaved, TypeOK, Answers
<1>7. CASE SendLoaded
  <2>1. Head(response["load"]) \in Requests
    BY <1>0, <1>7, SlotFacts DEF SendLoaded, TypeOK, Slots
  <2> QED
    BY <1>0, <1>7, <2>1, SendTypes DEF SendLoaded, TypeOK, Answers
<1>8. CASE UNCHANGED reqVars
  BY <1>8 DEF reqVars, TypeOK
<1> QED
  BY <1>1, <1>2, <1>3, <1>4, <1>5, <1>6, <1>7, <1>8 DEF Next

\* Requests, connections and slots keep to their ranges.
THEOREM TypeCorrect == Spec => []TypeOK
<1>1. Init => TypeOK
  BY InitTypes
<1>2. TypeOK /\ [Next]_reqVars => TypeOK'
  BY StepTypes
<1> QED
  BY <1>1, <1>2, PTL DEF Spec

-----------------------------------------------------------------------------
(* Who is remembered. *)

LEMMA InitAnswers == Init => AnswersInv
<1> SUFFICES ASSUME Init PROVE AnswersInv
  OBVIOUS
<1>1. ConnInv
  BY DEF Init, ConnInv
<1>2. DOMAIN queue = {} /\ taken = <<>> /\ \A k \in Kinds : response[k] = <<>>
  BY DEF Init
<1>3. OneInv
  BY <1>2 DEF OneInv, QueuedOne, StoredOne, TakenOne
<1>4. AnswersArriveRight
  BY DEF Init, AnswersArriveRight
<1> QED
  BY <1>1, <1>3, <1>4 DEF AnswersInv

\* No step makes the page that is remembered wait for something else, except
\* one that asks or answers.
LEMMA SameBelongs ==
    ASSUME NEW k \in Kinds, NEW r, Belongs(k, r),
           pending'[k] => pending[k] /\ requester'[k] = requester[k],
           \A c \in Clients : pending'[k] /\ conn'[c] = requester'[k] =>
              conn[c] = requester[k] /\ waiting'[c][k] = waiting[c][k]
    PROVE  Belongs(k, r)'
BY DEF Belongs

LEMMA OpenAnswers ==
    ASSUME TypeOK, AnswersInv, NEW c \in Clients, NEW reload \in BOOLEAN, Open(c, reload)
    PROVE  AnswersInv'
<1>1. /\ opens \in Nat /\ opens' = opens + 1 /\ \A d \in Clients : conn[d] \in Nat
      /\ \A k \in Kinds : requester[k] \in Nat
  BY RequestAssumption DEF Open, TypeOK
<1>2. UNCHANGED <<queue, requester, pending, response, path, taken, answers, mixed>>
  BY DEF Open
<1>3. /\ conn'[c] = opens + 1
      /\ \A d \in Clients : d # c => conn'[d] = conn[d] /\ waiting'[d] = waiting[d]
  BY DEF Open, TypeOK
<1>4. \A d \in Clients, k \in Kinds : pending'[k] /\ conn'[d] = requester'[k] =>
        d # c /\ pending[k] /\ conn[d] = requester[k] /\ waiting'[d][k] = waiting[d][k]
  BY <1>1, <1>2, <1>3 DEF AnswersInv, ConnInv
<1>5. ConnInv'
  <2>1. \A d, e \in Clients : conn'[d] # 0 /\ conn'[d] = conn'[e] => d = e
    BY <1>1, <1>3 DEF AnswersInv, ConnInv
  <2>2. \A d \in Clients : conn'[d] <= opens'
    BY <1>1, <1>3 DEF AnswersInv, ConnInv
  <2>3. \A k \in Kinds : requester'[k] <= opens' /\ (pending'[k] => requester'[k] # 0)
    BY <1>1, <1>2 DEF AnswersInv, ConnInv
  <2>4. \A d \in Clients, k \in Kinds :
          pending'[k] /\ conn'[d] = requester'[k] => waiting'[d][k] # 0
    BY <1>4 DEF AnswersInv, ConnInv
  <2> QED
    BY <2>1, <2>2, <2>3, <2>4 DEF ConnInv
<1>6. ASSUME NEW k \in Kinds, NEW r, Belongs(k, r)
      PROVE  Belongs(k, r)'
  BY <1>2, <1>4, <1>6, SameBelongs
<1>7. OneInv'
  BY <1>2, <1>6 DEF AnswersInv, OneInv, QueuedOne, StoredOne, TakenOne, Kinds
<1> QED
  BY <1>2, <1>5, <1>7 DEF AnswersInv, AnswersArriveRight

LEMMA CloseAnswers ==
    ASSUME TypeOK, AnswersInv, NEW c \in Clients, Close(c)
    PROVE  AnswersInv'
<1>1. /\ opens \in Nat /\ \A d \in Clients : conn[d] \in Nat
  BY RequestAssumption DEF TypeOK
<1>2. UNCHANGED <<opens, queue, requester, pending, response, path, taken, waiting, answers, mixed>>
  BY DEF Close
<1>3. conn'[c] = 0 /\ \A d \in Clients : d # c => conn'[d] = conn[d]
  BY DEF Close, TypeOK
<1>4. \A d \in Clients, k \in Kinds : pending'[k] /\ conn'[d] = requester'[k] =>
        d # c /\ pending[k] /\ conn[d] = requester[k] /\ waiting'[d][k] = waiting[d][k]
  BY <1>2, <1>3 DEF AnswersInv, ConnInv
<1>5. ConnInv'
  BY <1>1, <1>2, <1>3, <1>4 DEF AnswersInv, ConnInv
<1>6. ASSUME NEW k \in Kinds, NEW r, Belongs(k, r)
      PROVE  Belongs(k, r)'
  BY <1>2, <1>4, <1>6, SameBelongs
<1>7. OneInv'
  BY <1>2, <1>6 DEF AnswersInv, OneInv, QueuedOne, StoredOne, TakenOne, Kinds
<1> QED
  BY <1>2, <1>5, <1>7 DEF AnswersInv, AnswersArriveRight

\* A request that finds nothing of its kind on its way is all there is of it.
LEMMA AskAnswers ==
    ASSUME TypeOK, AnswersInv, NEW c \in Clients, NEW k \in Kinds, Ask(c, k)
    PROVE  AnswersInv'
<1>0. PICK n : n = requests + 1
  OBVIOUS
<1> DEFINE m == [kind |-> k, request |-> n]
<1>1. /\ opens \in Nat /\ requests \in Nat /\ n # 0 /\ conn[c] # 0
      /\ \A d \in Clients : conn[d] \in Nat
  BY <1>0, RequestAssumption DEF Ask, TypeOK, Requests
<1>2. UNCHANGED <<conn, opens, response, path, taken, answers>>
  BY DEF Ask
<1>3. /\ requester'[k] = conn[c] /\ pending'[k] /\ waiting'[c][k] = n
      /\ ~mixed'[k] => Idle(k)
  <2>1. requester'[k] = conn[c] /\ pending'[k] /\ waiting'[c][k] = n
    BY <1>0 DEF Ask, TypeOK
  <2>2. mixed' = [mixed EXCEPT ![k] = ~Idle(k)] /\ mixed \in [Kinds -> BOOLEAN]
    BY DEF Ask, TypeOK
  <2>3. mixed'[k] = ~Idle(k)
    BY <2>2
  <2> QED
    BY <2>1, <2>3
<1>4. \A l \in Kinds : l # k =>
        /\ requester'[l] = requester[l] /\ pending'[l] = pending[l] /\ mixed'[l] = mixed[l]
        /\ \A d \in Clients : waiting'[d][l] = waiting[d][l]
  BY DEF Ask, TypeOK
<1>5. \A i \in DOMAIN queue' : (i \in DOMAIN queue /\ queue'[i] = queue[i])
                              \/ (i = Len(queue) + 1 /\ queue'[i] = m)
  <2>1. m \in [kind : Kinds, request : Requests]
    <3>1. n \in Requests
      BY <1>0, RequestAssumption DEF Ask, TypeOK, Requests
    <3> QED
      BY <3>1
  <2>2. queue' = Append(queue, m) /\ queue \in Seq([kind : Kinds, request : Requests])
    BY <1>0 DEF Ask, TypeOK
  <2> QED
    BY <2>1, <2>2, AppendFacts
<1>6. \A d \in Clients : conn'[d] = requester'[k] => d = c
  BY <1>1, <1>2, <1>3 DEF AnswersInv, ConnInv
<1>7. ConnInv'
  <2>1. \A l \in Kinds : requester'[l] <= opens' /\ (pending'[l] => requester'[l] # 0)
    BY <1>1, <1>2, <1>3, <1>4 DEF AnswersInv, ConnInv
  <2>2. \A d \in Clients, l \in Kinds :
          pending'[l] /\ conn'[d] = requester'[l] => waiting'[d][l] # 0
    BY <1>1, <1>2, <1>3, <1>4, <1>6 DEF AnswersInv, ConnInv
  <2> QED
    BY <1>2, <2>1, <2>2 DEF AnswersInv, ConnInv
<1>8. ASSUME NEW l \in Kinds, ~mixed'[l]
      PROVE  QueuedOne(l)' /\ StoredOne(l)' /\ (l = "save" => TakenOne')
  <2>1. CASE l = k
    <3>1. /\ response[k] = <<>> /\ (k = "save" => taken = <<>>)
          /\ \A i \in DOMAIN queue : queue[i].kind # k
      BY <1>3, <1>8, <2>1 DEF Idle
    <3>2. Belongs(k, n)'
      BY <1>3, <1>6 DEF Belongs
    <3>3. \A i \in DOMAIN queue' : queue'[i].kind = k =>
            i = Len(queue) + 1 /\ queue'[i].request = n
      BY <1>5, <3>1
    <3>4. QueuedOne(k)'
      BY <1>2, <3>1, <3>2, <3>3 DEF QueuedOne
    <3> QED
      BY <1>2, <2>1, <3>1, <3>4 DEF StoredOne, TakenOne
  <2>2. CASE l # k
    <3>1. QueuedOne(l) /\ StoredOne(l) /\ (l = "save" => TakenOne)
      BY <1>4, <1>8, <2>2 DEF AnswersInv, OneInv
    <3>2. ASSUME NEW r, Belongs(l, r)
          PROVE  Belongs(l, r)'
      BY <1>2, <1>4, <2>2, <3>2 DEF Belongs
    <3>3. \A i \in DOMAIN queue' : queue'[i].kind = l => i \in DOMAIN queue /\ queue'[i] = queue[i]
      BY <1>5, <2>2
    <3>4. QueuedOne(l)'
      BY <1>2, <3>1, <3>2, <3>3 DEF QueuedOne
    <3>5. StoredOne(l)' /\ (l = "save" => TakenOne')
      BY <1>2, <3>1, <3>2 DEF StoredOne, TakenOne
    <3> QED
      BY <3>4, <3>5
  <2> QED
    BY <2>1, <2>2
<1>9. OneInv'
  BY <1>8 DEF OneInv
<1> QED
  BY <1>2, <1>7, <1>9 DEF AnswersInv, AnswersArriveRight

\* The answer moves from the queue to the store.
LEMMA ServeAnswers ==
    ASSUME TypeOK, AnswersInv, Serve
    PROVE  AnswersInv'
<1>1. /\ queue # <<>> /\ queue' = Tail(queue)
      /\ queue \in Seq([kind : Kinds, request : Requests])
  BY DEF Serve, TypeOK
<1>2. PICK k, r : k = Head(queue).kind /\ r = Head(queue).request
  OBVIOUS
<1>3. /\ 1 \in DOMAIN queue /\ queue[1].kind = k /\ queue[1].request = r /\ k \in Kinds
      /\ \A i \in DOMAIN queue' :
           i + 1 \in DOMAIN queue /\ i + 1 # 1 /\ queue'[i] = queue[i + 1] /\ i \in Nat
  <2>1. Head(queue) \in [kind : Kinds, request : Requests]
    BY <1>1, TailFacts
  <2> QED
    BY <1>1, <1>2, <2>1, TailFacts
<1>4. /\ response' = [response EXCEPT ![k] = <<r>>]
      /\ path' = IF k = "save" THEN r ELSE path
      /\ UNCHANGED <<conn, opens, requester, pending, taken, waiting, answers, mixed>>
  BY <1>2 DEF Serve
<1>5. /\ response'[k] = <<r>> /\ Head(response'[k]) = r
      /\ \A l \in Kinds : l # k => response'[l] = response[l]
  BY <1>3, <1>4 DEF TypeOK
<1>6. ConnInv'
  BY <1>4 DEF AnswersInv, ConnInv
<1>7. ASSUME NEW l \in Kinds, NEW q, Belongs(l, q)
      PROVE  Belongs(l, q)'
  BY <1>4, <1>7 DEF Belongs
<1>8. ASSUME NEW l \in Kinds, ~mixed'[l]
      PROVE  QueuedOne(l)' /\ StoredOne(l)' /\ (l = "save" => TakenOne')
  <2>1. QueuedOne(l) /\ StoredOne(l) /\ (l = "save" => TakenOne)
    BY <1>4, <1>8 DEF AnswersInv, OneInv
  <2>2. CASE l = k
    <3>1. \A i \in DOMAIN queue' : queue'[i].kind # k
      BY <1>3, <2>1, <2>2 DEF QueuedOne
    <3>2. (k = "save" => taken = <<>>) /\ Belongs(k, r)
      BY <1>3, <2>1, <2>2 DEF QueuedOne
    <3>3. QueuedOne(l)'
      BY <2>2, <3>1 DEF QueuedOne
    <3>4. StoredOne(l)'
      BY <1>3, <1>4, <1>5, <1>7, <2>2, <3>2 DEF StoredOne
    <3>5. l = "save" => TakenOne'
      BY <1>4, <2>2, <3>2 DEF TakenOne
    <3> QED
      BY <3>3, <3>4, <3>5
  <2>3. CASE l # k
    <3>1. \A i, j \in DOMAIN queue' : i + 1 = j + 1 => i = j
      BY <1>3
    <3>2. QueuedOne(l)'
      BY <1>3, <1>4, <1>5, <1>7, <2>1, <2>3, <3>1 DEF QueuedOne
    <3>3. l = "save" => path' = path
      BY <1>4, <2>3
    <3>4. StoredOne(l)' /\ (l = "save" => TakenOne')
      BY <1>4, <1>5, <1>7, <2>1, <2>3, <3>3 DEF StoredOne, TakenOne
    <3> QED
      BY <3>2, <3>4
  <2> QED
    BY <2>2, <2>3
<1>9. OneInv'
  BY <1>8 DEF OneInv
<1> QED
  BY <1>4, <1>6, <1>9 DEF AnswersInv, AnswersArriveRight

\* ... and from there to the hands of the timer.
LEMMA TakeAnswers ==
    ASSUME TypeOK, AnswersInv, TakeSaved
    PROVE  AnswersInv'
<1>1. /\ taken = <<>> /\ response["save"] # <<>> /\ taken' = response["save"]
      /\ response' = [response EXCEPT !["save"] = <<>>] /\ "save" \in Kinds
      /\ UNCHANGED <<conn, opens, queue, requester, pending, path, waiting, answers, mixed>>
  BY DEF TakeSaved, Kinds
<1>2. response'["save"] = <<>> /\ \A l \in Kinds : l # "save" => response'[l] = response[l]
  BY <1>1 DEF TypeOK
<1>3. ConnInv'
  BY <1>1 DEF AnswersInv, ConnInv
<1>4. ASSUME NEW l \in Kinds, NEW q, Belongs(l, q)
      PROVE  Belongs(l, q)'
  BY <1>1, <1>4 DEF Belongs
<1>5. ASSUME NEW l \in Kinds, ~mixed'[l]
      PROVE  QueuedOne(l)' /\ StoredOne(l)' /\ (l = "save" => TakenOne')
  <2>1. QueuedOne(l) /\ StoredOne(l)
    BY <1>1, <1>5 DEF AnswersInv, OneInv
  <2>2. CASE l = "save"
    <3>1. \A i \in DOMAIN queue : queue[i].kind # "save"
      BY <1>1, <2>1, <2>2 DEF QueuedOne
    <3>2. path = Head(response["save"]) /\ Belongs("save", Head(response["save"]))
      BY <1>1, <2>1, <2>2 DEF StoredOne
    <3>3. TakenOne'
      BY <1>1, <3>2 DEF TakenOne, Belongs
    <3>4. QueuedOne(l)' /\ StoredOne(l)'
      BY <1>1, <1>2, <2>2, <3>1 DEF QueuedOne, StoredOne
    <3> QED
      BY <3>3, <3>4
  <2>3. CASE l # "save"
    BY <1>1, <1>2, <1>4, <2>1, <2>3 DEF QueuedOne, StoredOne
  <2> QED
    BY <2>2, <2>3
<1>6. OneInv'
  BY <1>5 DEF OneInv
<1> QED
  BY <1>1, <1>3, <1>6 DEF AnswersInv, AnswersArriveRight

\* What is sent arrives right, and nobody is remembered afterwards.
LEMMA SendAnswers ==
    ASSUME TypeOK, AnswersInv, NEW k \in Kinds, NEW r, NEW p, Send(k, r, p),
           ~mixed[k] => Belongs(k, r) /\ (k = "save" => p = r)
    PROVE  /\ ConnInv' /\ AnswersArriveRight'
           /\ ~pending'[k]
           /\ \A l \in Kinds : l # k => pending'[l] = pending[l]
           /\ \A c \in Clients, l \in Kinds : l # k => waiting'[c][l] = waiting[c][l]
           /\ UNCHANGED <<conn, opens, queue, requester, mixed>>
<1> DEFINE to == {c \in Clients : pending[k] /\ conn[c] = requester[k]}
           Told(c) == [kind |-> k, asked |-> waiting[c][k], told |-> r, path |-> p,
                       alone |-> ~mixed[k]]
<1>1. /\ ~pending'[k] /\ \A l \in Kinds : l # k => pending'[l] = pending[l]
      /\ UNCHANGED <<conn, opens, queue, requester, mixed>>
  BY DEF Send, TypeOK
<1>2. \A c \in Clients, l \in Kinds : l # k => waiting'[c][l] = waiting[c][l]
  BY DEF Send, TypeOK
<1>3. answers' = answers \cup {Told(c) : c \in to}
  BY DEF Send
<1>4. ASSUME NEW c \in to
      PROVE  Told(c).asked # 0 /\ (Told(c).alone => IsOwn(Told(c)))
  <2>1. c \in Clients /\ pending[k] /\ conn[c] = requester[k]
    OBVIOUS
  <2>2. waiting[c][k] # 0
    BY <2>1 DEF AnswersInv, ConnInv
  <2>3. ~mixed[k] => r = waiting[c][k] /\ (k = "save" => p = r)
    BY <2>1 DEF Belongs
  <2> QED
    BY <2>2, <2>3 DEF IsOwn
<1>5. AnswersArriveRight'
  <2>1. \A a \in answers' : a \in answers \/ \E c \in to : a = Told(c)
    BY <1>3
  <2> HIDE DEF to, Told
  <2> QED
    BY <1>4, <2>1 DEF AnswersInv, AnswersArriveRight, IsOwn
<1>6. ConnInv'
  <2>1. /\ \A c, d \in Clients : conn'[c] # 0 /\ conn'[c] = conn'[d] => c = d
        /\ \A c \in Clients : conn'[c] <= opens'
    BY <1>1 DEF AnswersInv, ConnInv
  <2>2. \A l \in Kinds : requester'[l] <= opens' /\ (pending'[l] => requester'[l] # 0)
    BY <1>1 DEF AnswersInv, ConnInv
  <2>3. \A c \in Clients, l \in Kinds :
          pending'[l] /\ conn'[c] = requester'[l] => waiting'[c][l] # 0
    BY <1>1, <1>2 DEF AnswersInv, ConnInv
  <2> QED
    BY <2>1, <2>2, <2>3 DEF ConnInv
<1> QED
  BY <1>1, <1>2, <1>5, <1>6

LEMMA SendSavedAnswers ==
    ASSUME TypeOK, AnswersInv, SendSaved
    PROVE  AnswersInv'
<1>1. /\ taken # <<>> /\ taken' = <<>> /\ Send("save", Head(taken), path)
      /\ UNCHANGED response /\ "save" \in Kinds
  BY DEF SendSaved, Kinds
<1>2. ~mixed["save"] => Belongs("save", Head(taken)) /\ path = Head(taken)
  BY <1>1 DEF AnswersInv, OneInv, TakenOne
<1>3. /\ ConnInv' /\ AnswersArriveRight' /\ ~pending'["save"]
      /\ \A l \in Kinds : l # "save" => pending'[l] = pending[l]
      /\ \A c \in Clients, l \in Kinds : l # "save" => waiting'[c][l] = waiting[c][l]
      /\ UNCHANGED <<conn, opens, queue, requester, mixed>>
  BY <1>1, <1>2, SendAnswers
<1>4. ASSUME NEW l \in Kinds, ~mixed'[l]
      PROVE  QueuedOne(l)' /\ StoredOne(l)' /\ (l = "save" => TakenOne')
  <2>1. QueuedOne(l) /\ StoredOne(l)
    BY <1>3, <1>4 DEF AnswersInv, OneInv
  <2>2. CASE l = "save"
    <3>1. response["save"] = <<>> /\ \A i \in DOMAIN queue : queue[i].kind # "save"
      BY <1>1, <2>1, <2>2 DEF QueuedOne, StoredOne
    <3> QED
      BY <1>1, <1>3, <2>2, <3>1 DEF QueuedOne, StoredOne, TakenOne
  <2>3. CASE l # "save"
    <3>1. ASSUME NEW q, Belongs(l, q)
          PROVE  Belongs(l, q)'
      BY <1>3, <2>3, <3>1 DEF Belongs
    <3> QED
      BY <1>1, <1>3, <2>1, <2>3, <3>1 DEF QueuedOne, StoredOne
  <2> QED
    BY <2>2, <2>3
<1>5. OneInv'
  BY <1>4 DEF OneInv
<1> QED
  BY <1>3, <1>5 DEF AnswersInv

LEMMA SendLoadedAnswers ==
    ASSUME TypeOK, AnswersInv, SendLoaded
    PROVE  AnswersInv'
<1>1. /\ response["load"] # <<>> /\ Send("load", Head(response["load"]), 0)
      /\ response' = [response EXCEPT !["load"] = <<>>]
      /\ UNCHANGED <<path, taken>> /\ "load" \in Kinds
  BY DEF SendLoaded, Kinds
<1>2. response'["load"] = <<>> /\ \A l \in Kinds : l # "load" => response'[l] = response[l]
  BY <1>1 DEF TypeOK
<1>3. ~mixed["load"] => Belongs("load", Head(response["load"]))
  BY <1>1 DEF AnswersInv, OneInv, StoredOne
<1>4. /\ ConnInv' /\ AnswersArriveRight' /\ ~pending'["load"]
      /\ \A l \in Kinds : l # "load" => pending'[l] = pending[l]
      /\ \A c \in Clients, l \in Kinds : l # "load" => waiting'[c][l] = waiting[c][l]
      /\ UNCHANGED <<conn, opens, queue, requester, mixed>>
  BY <1>1, <1>3, SendAnswers
<1>5. ASSUME NEW l \in Kinds, ~mixed'[l]
      PROVE  QueuedOne(l)' /\ StoredOne(l)' /\ (l = "save" => TakenOne')
  <2>1. QueuedOne(l) /\ StoredOne(l) /\ (l = "save" => TakenOne)
    BY <1>4, <1>5 DEF AnswersInv, OneInv
  <2>2. CASE l = "load"
    <3>1. \A i \in DOMAIN queue : queue[i].kind # "load"
      BY <1>1, <2>1, <2>2 DEF QueuedOne
    <3> QED
      BY <1>2, <1>4, <2>2, <3>1 DEF QueuedOne, StoredOne
  <2>3. CASE l # "load"
    <3>1. ASSUME NEW q, Belongs(l, q)
          PROVE  Belongs(l, q)'
      BY <1>4, <2>3, <3>1 DEF Belongs
    <3> QED
      BY <1>1, <1>2, <1>4, <2>1, <2>3, <3>1 DEF QueuedOne, StoredOne, TakenOne
  <2> QED
    BY <2>2, <2>3
<1>6. OneInv'
  BY <1>5 DEF OneInv
<1> QED
  BY <1>4, <1>6 DEF AnswersInv

LEMMA StepAnswers == TypeOK /\ AnswersInv /\ [Next]_reqVars => AnswersInv'
<1> SUFFICES ASSUME TypeOK, AnswersInv, [Next]_reqVars PROVE AnswersInv'
  OBVIOUS
<1>1. CASE UNCHANGED reqVars
  BY <1>1 DEF reqVars, AnswersInv, ConnInv, OneInv, QueuedOne, StoredOne, TakenOne, Belongs,
              AnswersArriveRight
<1>2. CASE Next
  BY <1>2, OpenAnswers, CloseAnswers, AskAnswers, ServeAnswers, TakeAnswers,
     SendSavedAnswers, SendLoadedAnswers DEF Next
<1> QED
  BY <1>1, <1>2

\* A page only ever gets an answer it waits for, and the right one, with the
\* right path, if its request found no other of the kind on its way.
THEOREM AnswersAreRight == Spec => []AnswersArriveRight
<1>1. Init => TypeOK /\ AnswersInv
  BY InitTypes, InitAnswers
<1>2. TypeOK /\ AnswersInv /\ [Next]_reqVars => (TypeOK /\ AnswersInv)'
  BY StepTypes, StepAnswers
<1>3. AnswersInv => AnswersArriveRight
  BY DEF AnswersInv
<1> QED
  BY <1>1, <1>2, <1>3, PTL DEF Spec
=============================================================================
