---------------------------- MODULE SessionProofs ----------------------------
(* What a session's reader is given, for any connections and any number of   *)
(* accepts, closes, receives and messages.                                   *)
EXTENDS Session, SequenceTheorems, FiniteSetTheorems, TLAPS

(* The lemmas about sequences of numbers in MessageQueueProofs, which none of*)
(* its constants and variables occur in.                                     *)
N == INSTANCE MessageQueueProofs
     WITH MsgSizes <- {1}, BufSize <- 1, MaxReceives <- 1, MaxOutstanding <- 1,
          MaxSends <- 1, MaxMessages <- 1, MaxCloses <- 1, conn <- "open",
          transportEc <- FALSE, mPtr <- FALSE, waiting <- <<>>, data <- <<>>,
          tasks <- <<>>, owner <- TRUE, issued <- 0, sends <- 0, closes <- 0,
          results <- <<>>, sent <- <<>>, arrived <- <<>>, unheard <- FALSE

Below(S, T) == \A a \in S, b \in T : a < b

(* u holds the numbers of s and then those of t. *)
Joined(u, s, t) ==
    /\ Numbers(u) = Numbers(s) \union Numbers(t)
    /\ InOrder(u) <=> InOrder(s) /\ InOrder(t) /\ Below(Numbers(s), Numbers(t))

Alike(u, s) == Numbers(u) = Numbers(s) /\ (InOrder(u) <=> InOrder(s))

(* A sequence seen through a numbering of its elements. *)
Through(f, s) == [i \in DOMAIN s |-> f[s[i]]]

LEMMA SameNotions ==
    /\ \A s : Numbers(s) = N!Numbers(s)
    /\ \A s : InOrder(s) <=> N!InOrder(s)
    /\ \A u, s, t : N!Joined(u, s, t) => Joined(u, s, t)
    /\ \A f, s : Through(f, s) = N!Through(f, s)
<1>1. \A s : Numbers(s) = N!Numbers(s)
  BY DEF Numbers, N!Numbers, ToSet, N!ToSet
<1>2. \A s : InOrder(s) <=> N!InOrder(s)
  BY DEF InOrder, N!InOrder
<1>3. \A S, T : Below(S, T) <=> N!Below(S, T)
  BY DEF Below, N!Below
<1> QED
  BY <1>1, <1>2, <1>3 DEF Joined, N!Joined, Through, N!Through

LEMMA ConcatNumbers ==
    ASSUME NEW s \in Seq(Nat), NEW t \in Seq(Nat)
    PROVE  s \o t \in Seq(Nat) /\ Joined(s \o t, s, t)
BY N!ConcatNumbers, SameNotions

LEMMA SingleNumber ==
    ASSUME NEW n \in Nat
    PROVE  Numbers(<<n>>) = {n} \ {0} /\ InOrder(<<n>>)
BY N!SingleNumber, SameNotions

LEMMA NoNumber ==
    <<>> \in Seq(Nat) /\ Numbers(<<>>) = {} /\ InOrder(<<>>)
BY N!NoNumber, SameNotions

LEMMA JoinedNothing ==
    \A u, s : Joined(u, s, << 0 >>) \/ Joined(u, << 0 >>, s) => Alike(u, s)
<1>1. Numbers(<<0>>) = {} /\ InOrder(<<0>>)
  BY SingleNumber
<1> QED
  BY <1>1 DEF Joined, Alike, Below

LEMMA ThroughConcat ==
    ASSUME NEW S, NEW f \in [S -> Nat], NEW s \in Seq(S), NEW t \in Seq(S)
    PROVE  Joined(Through(f, s \o t), Through(f, s), Through(f, t))
BY N!ThroughConcat, SameNotions

LEMMA ThroughAppend ==
    ASSUME NEW S, NEW f \in [S -> Nat], NEW s \in Seq(S), NEW x \in S
    PROVE  Joined(Through(f, Append(s, x)), Through(f, s), <<f[x]>>)
BY N!ThroughAppend, SameNotions

LEMMA ThroughTail ==
    ASSUME NEW S, NEW f \in [S -> Nat], NEW s \in Seq(S), s # <<>>
    PROVE  Joined(Through(f, s), <<f[Head(s)]>>, Through(f, Tail(s)))
BY N!ThroughTail, SameNotions

LEMMA ThroughSeq ==
    ASSUME NEW S, NEW f \in [S -> Nat], NEW s \in Seq(S)
    PROVE  Through(f, s) \in Seq(Nat)
BY N!ThroughPlaces, SameNotions DEF N!Seen

-----------------------------------------------------------------------------
(* The types of a session's sequences.                                       *)
Accept == 1..MaxAccepts
Verdict == {"ok", "transport", "aborted"}
Text == [id : Nat, size : Nat]
Posting == [kind : {"produce"}, con : Connections]
Calling == [kind : {"handler"}, op : Accept, ec : Verdict]
Receiving == [kind : {"receive"}, op : Nat]
Completing == [kind : {"complete"}, op : Nat,
               ec : {"ok", "message_size", "operation_aborted", "transport"},
               msg : Text, size : Nat]
Reading == [kind : {"read"}, msg : [id : Nat \ {0}, size : Nat]]
Task == Posting \union Calling \union Receiving \union Completing \union Reading
Datum == [ec : {"ok"}, msg : Text]
         \union [ec : {"operation_aborted", "transport"}, msg : {Q!NoMessage}]
Offer == [ec : {"ok", "transport"}, con : Connections]

TypeOK ==
    /\ tasks \in Seq(Task) /\ received \in Seq(Completing)
    /\ readers \in Seq(Nat) /\ data \in Seq(Datum)
    /\ waiting \in Seq(Accept) /\ surplus \in Seq(Offer)
    /\ mq \in [Accept -> Connections \union {"none"}]
    /\ session \in [Connections ->
                       {"none", "connecting", "open", "failed", "closed"}]
    /\ accepts \in Nat /\ closes \in Nat /\ issued \in Nat /\ mqCloses \in Nat
    /\ peerSent \in Nat /\ {mPtr, inTime} \subseteq BOOLEAN
    /\ mqOwner = TRUE /\ (broken <=> Conn \in transportEc)
    /\ broken \in BOOLEAN

LEMMA Bounds ==
    /\ MaxAccepts \in Nat /\ MaxCloses \in Nat /\ MaxReceives \in Nat
    /\ MaxMessages \in Nat /\ Conn \in Connections /\ "none" \notin Connections
BY BoundAssumption, ConnectionAssumption

(* One kind of task tells which set it is from.                              *)
LEMMA TaskKinds ==
    ASSUME NEW x \in Task
    PROVE  \/ x.kind = "produce" /\ x \in Posting
           \/ x.kind = "handler" /\ x \in Calling
           \/ x.kind = "receive" /\ x \in Receiving
           \/ x.kind = "complete" /\ x \in Completing
           \/ x.kind = "read" /\ x \in Reading
BY DEF Task, Posting, Calling, Receiving, Completing, Reading

(* What a task, or a queued datum, carries: the number of its message, or 0. *)
Id(x) == IF x.kind = "complete" THEN x.msg.id ELSE 0
ReadId(x) == IF x.kind = "read" THEN x.msg.id ELSE 0
IdIn == [x \in Task |-> Id(x)]
ReadIn == [x \in Task |-> ReadId(x)]
DatumIn == [d \in Datum |-> d.msg.id]
ReadIds(s) == [i \in DOMAIN s |-> ReadId(s[i])]
DataIds(s) == [i \in DOMAIN s |-> s[i].msg.id]

LEMMA Views ==
    /\ IdIn \in [Task -> Nat] /\ ReadIn \in [Task -> Nat]
    /\ DatumIn \in [Datum -> Nat]
    /\ \A s \in Seq(Task) : /\ Q!IdsOf(s) = Through(IdIn, s)
                            /\ ReadIds(s) = Through(ReadIn, s)
    /\ \A s \in Seq(Datum) : DataIds(s) = Through(DatumIn, s)
<1>1. \A x \in Task : Id(x) \in Nat /\ ReadId(x) \in Nat
  BY TaskKinds DEF Id, ReadId, Completing, Reading, Text
<1>2. \A d \in Datum : d.msg.id \in Nat
  BY DEF Datum, Text, Q!NoMessage
<1>3. /\ IdIn \in [Task -> Nat] /\ ReadIn \in [Task -> Nat]
      /\ DatumIn \in [Datum -> Nat]
  BY <1>1, <1>2 DEF IdIn, ReadIn, DatumIn
<1>4. ASSUME NEW s \in Seq(Task)
      PROVE  Q!IdsOf(s) = Through(IdIn, s) /\ ReadIds(s) = Through(ReadIn, s)
  <2>1. \A i \in DOMAIN s : s[i] \in Task
    OBVIOUS
  <2>2. Q!IdsOf(s) = Through(IdIn, s)
    BY <2>1 DEF Q!IdsOf, Through, IdIn, Id
  <2>3. ReadIds(s) = Through(ReadIn, s)
    BY <2>1 DEF ReadIds, Through, ReadIn
  <2> QED
    BY <2>2, <2>3
<1>5. ASSUME NEW s \in Seq(Datum) PROVE DataIds(s) = Through(DatumIn, s)
  <2>1. \A i \in DOMAIN s : s[i] \in Datum
    OBVIOUS
  <2> QED
    BY <2>1 DEF DataIds, Through, DatumIn
<1> QED
  BY <1>3, <1>4, <1>5

LEMMA TasksGrow ==
    ASSUME NEW s \in Seq(Task), NEW x \in Task
    PROVE  /\ Append(s, x) \in Seq(Task)
           /\ Joined(Q!IdsOf(Append(s, x)), Q!IdsOf(s), <<Id(x)>>)
           /\ Joined(ReadIds(Append(s, x)), ReadIds(s), <<ReadId(x)>>)
<1>1. Append(s, x) \in Seq(Task) /\ IdIn[x] = Id(x) /\ ReadIn[x] = ReadId(x)
  BY AppendProperties DEF IdIn, ReadIn
<1>2. /\ Joined(Through(IdIn, Append(s, x)), Through(IdIn, s), <<IdIn[x]>>)
      /\ Joined(Through(ReadIn, Append(s, x)), Through(ReadIn, s), <<ReadIn[x]>>)
  BY Views, ThroughAppend
<1> QED
  BY <1>1, <1>2, Views, Zenon

LEMMA TasksShrink ==
    ASSUME NEW s \in Seq(Task), s # <<>>
    PROVE  /\ Head(s) \in Task /\ Tail(s) \in Seq(Task)
           /\ Joined(Q!IdsOf(s), <<Id(Head(s))>>, Q!IdsOf(Tail(s)))
           /\ Joined(ReadIds(s), <<ReadId(Head(s))>>, ReadIds(Tail(s)))
<1>1. Head(s) \in Task /\ Tail(s) \in Seq(Task)
  BY HeadTailProperties
<1>2. IdIn[Head(s)] = Id(Head(s)) /\ ReadIn[Head(s)] = ReadId(Head(s))
  BY <1>1 DEF IdIn, ReadIn
<1>3. /\ Joined(Through(IdIn, s), <<IdIn[Head(s)]>>, Through(IdIn, Tail(s)))
      /\ Joined(Through(ReadIn, s), <<ReadIn[Head(s)]>>, Through(ReadIn, Tail(s)))
  BY Views, ThroughTail
<1> QED
  BY <1>1, <1>2, <1>3, Views, Zenon

LEMMA TasksJoin ==
    ASSUME NEW s \in Seq(Task), NEW t \in Seq(Task)
    PROVE  /\ s \o t \in Seq(Task)
           /\ Joined(Q!IdsOf(s \o t), Q!IdsOf(s), Q!IdsOf(t))
           /\ Joined(ReadIds(s \o t), ReadIds(s), ReadIds(t))
<1>1. s \o t \in Seq(Task)
  BY ConcatProperties
<1>2. /\ Joined(Through(IdIn, s \o t), Through(IdIn, s), Through(IdIn, t))
      /\ Joined(Through(ReadIn, s \o t), Through(ReadIn, s), Through(ReadIn, t))
  BY Views, ThroughConcat
<1> QED
  BY <1>1, <1>2, Views, Zenon

LEMMA DataQueue ==
    ASSUME NEW s \in Seq(Datum)
    PROVE  /\ \A d \in Datum : /\ Append(s, d) \in Seq(Datum)
                               /\ Joined(DataIds(Append(s, d)), DataIds(s), <<d.msg.id>>)
           /\ s # <<>> =>
                 /\ Head(s) \in Datum /\ Tail(s) \in Seq(Datum)
                 /\ Joined(DataIds(s), <<Head(s).msg.id>>, DataIds(Tail(s)))
<1>1. ASSUME NEW d \in Datum
      PROVE  /\ Append(s, d) \in Seq(Datum)
             /\ Joined(DataIds(Append(s, d)), DataIds(s), <<d.msg.id>>)
  <2>1. Joined(Through(DatumIn, Append(s, d)), Through(DatumIn, s), <<DatumIn[d]>>)
    BY Views, ThroughAppend
  <2>2. DatumIn[d] = d.msg.id /\ Append(s, d) \in Seq(Datum)
    BY AppendProperties DEF DatumIn
  <2> QED
    BY <2>1, <2>2, Views, Zenon
<1>2. ASSUME s # <<>>
      PROVE  /\ Head(s) \in Datum /\ Tail(s) \in Seq(Datum)
             /\ Joined(DataIds(s), <<Head(s).msg.id>>, DataIds(Tail(s)))
  <2>1. Joined(Through(DatumIn, s), <<DatumIn[Head(s)]>>, Through(DatumIn, Tail(s)))
    BY <1>2, Views, ThroughTail
  <2>2. Head(s) \in Datum /\ Tail(s) \in Seq(Datum)
    BY <1>2, HeadTailProperties
  <2>3. DatumIn[Head(s)] = Head(s).msg.id
    BY <2>2 DEF DatumIn
  <2> QED
    BY <2>1, <2>2, <2>3, Views, Zenon
<1> QED
  BY <1>1, <1>2

(* What carries no message adds nothing.                                     *)
Silent(x) == x \in Task /\ Id(x) = 0 /\ ReadId(x) = 0

LEMMA SilentKinds ==
    /\ \A x \in Posting \union Calling \union Receiving : Silent(x)
    /\ \A x \in Completing : x \in Task /\ Id(x) = x.msg.id /\ ReadId(x) = 0
    /\ \A x \in Reading : x \in Task /\ Id(x) = 0 /\ ReadId(x) = x.msg.id
<1>1. ASSUME NEW x \in Posting \union Calling \union Receiving PROVE Silent(x)
  BY DEF Silent, Id, ReadId, Task, Posting, Calling, Receiving
<1>2. ASSUME NEW x \in Completing
      PROVE  x \in Task /\ Id(x) = x.msg.id /\ ReadId(x) = 0
  BY DEF Id, ReadId, Task, Completing
<1>3. ASSUME NEW x \in Reading
      PROVE  x \in Task /\ Id(x) = 0 /\ ReadId(x) = x.msg.id
  BY DEF Id, ReadId, Task, Reading
<1> QED
  BY <1>1, <1>2, <1>3

LEMMA SilentTasks ==
    ASSUME NEW s \in Seq(Task)
    PROVE  /\ \A x : Silent(x) => /\ Append(s, x) \in Seq(Task)
                                  /\ Alike(Q!IdsOf(Append(s, x)), Q!IdsOf(s))
                                  /\ Alike(ReadIds(Append(s, x)), ReadIds(s))
           /\ s # <<>> /\ Silent(Head(s)) =>
                 /\ Tail(s) \in Seq(Task)
                 /\ Alike(Q!IdsOf(s), Q!IdsOf(Tail(s)))
                 /\ Alike(ReadIds(s), ReadIds(Tail(s)))
<1>1. ASSUME NEW x, Silent(x)
      PROVE  /\ Append(s, x) \in Seq(Task)
             /\ Alike(Q!IdsOf(Append(s, x)), Q!IdsOf(s))
             /\ Alike(ReadIds(Append(s, x)), ReadIds(s))
  BY <1>1, TasksGrow, JoinedNothing DEF Silent
<1>2. ASSUME s # <<>>, Silent(Head(s))
      PROVE  /\ Tail(s) \in Seq(Task)
             /\ Alike(Q!IdsOf(s), Q!IdsOf(Tail(s)))
             /\ Alike(ReadIds(s), ReadIds(Tail(s)))
  <2>1. /\ Tail(s) \in Seq(Task)
        /\ Alike(Q!IdsOf(Tail(s)), Q!IdsOf(s)) \/ Alike(Q!IdsOf(s), Q!IdsOf(Tail(s)))
        /\ Alike(ReadIds(Tail(s)), ReadIds(s)) \/ Alike(ReadIds(s), ReadIds(Tail(s)))
    BY <1>2, TasksShrink, JoinedNothing DEF Silent
  <2> QED
    BY <2>1 DEF Alike
<1> QED
  BY <1>1, <1>2

LEMMA SilentMany ==
    ASSUME NEW s \in Seq(Task), NEW t \in Seq(Task),
           \A i \in DOMAIN t : Silent(t[i])
    PROVE  /\ s \o t \in Seq(Task)
           /\ Alike(Q!IdsOf(s \o t), Q!IdsOf(s)) /\ Alike(ReadIds(s \o t), ReadIds(s))
<1>1. \A i \in DOMAIN t : Q!IdsOf(t)[i] = 0 /\ ReadIds(t)[i] = 0
  <2>1. \A i \in DOMAIN t : Id(t[i]) = 0 /\ ReadId(t[i]) = 0
    BY DEF Silent
  <2> QED
    BY <2>1 DEF Q!IdsOf, ReadIds, Id
<1>2. DOMAIN Q!IdsOf(t) = DOMAIN t /\ DOMAIN ReadIds(t) = DOMAIN t
  BY DEF Q!IdsOf, ReadIds
<1> DEFINE a == Q!IdsOf(t)
           b == ReadIds(t)
<1>3. /\ \A i \in DOMAIN a : a[i] = 0
      /\ \A i \in DOMAIN b : b[i] = 0
  BY <1>1, <1>2
<1> HIDE DEF a, b
<1>4. Numbers(a) = {} /\ InOrder(a) /\ Numbers(b) = {} /\ InOrder(b)
  BY <1>3 DEF Numbers, InOrder, ToSet
<1>5. /\ s \o t \in Seq(Task)
      /\ Joined(Q!IdsOf(s \o t), Q!IdsOf(s), a)
      /\ Joined(ReadIds(s \o t), ReadIds(s), b)
  BY TasksJoin DEF a, b
<1> QED
  BY <1>4, <1>5 DEF Joined, Alike, Below

-----------------------------------------------------------------------------
(* The messages of the session: those the queue has been given, which are    *)
(* completed, posted or stored, and those on their way to it.                *)
DoneIds == Q!IdsOf(received)
TaskIds == Q!IdsOf(tasks)
StoredIds == DataIds(data)
Coming == ReadIds(tasks)
Given == Numbers(DoneIds) \union (Numbers(TaskIds) \union Numbers(StoredIds))
GivenInOrder ==
    /\ InOrder(DoneIds) /\ InOrder(TaskIds) /\ InOrder(StoredIds)
    /\ Below(Numbers(DoneIds), Numbers(TaskIds))
    /\ Below(Numbers(DoneIds), Numbers(StoredIds))
    /\ Below(Numbers(TaskIds), Numbers(StoredIds))

(* What a step can do to them.                                               *)
SameGiven == Given' = Given /\ (GivenInOrder => GivenInOrder')
Keeps == SameGiven /\ Alike(Coming', Coming) /\ peerSent' = peerSent
Sends ==             \* the peer sends one more
    /\ SameGiven /\ peerSent' = peerSent + 1
    /\ Joined(Coming', Coming, <<peerSent'>>)
Arrives(k) ==        \* the next one reaches the queue
    /\ Joined(Coming, <<k>>, Coming') /\ peerSent' = peerSent
    /\ Given' = Given \union {k}
    /\ GivenInOrder /\ Below(Given, {k}) => GivenInOrder'
Passes(k) ==         \* the next one finds no handler
    /\ Joined(Coming, <<k>>, Coming') /\ peerSent' = peerSent
    /\ SameGiven
Drains ==            \* the queue is closed
    /\ Given' \subseteq Given /\ (GivenInOrder => GivenInOrder')
    /\ Alike(Coming', Coming) /\ peerSent' = peerSent

(* The first message is not to be missed. *)
Prompt == inTime /\ closes = 0 /\ mqCloses = 0 /\ ~broken

(* The part of the inductive invariant that speaks of messages.  What is on  *)
(* its way is all that was sent from some message on; and while the          *)
(* connection is open it begins where what the queue was given ends.         *)
Flow ==
    /\ GivenInOrder /\ InOrder(Coming) /\ Below(Given, Numbers(Coming))
    /\ Given \subseteq 1..peerSent
    /\ \E n \in 0..peerSent : Numbers(Coming) = (n + 1)..peerSent
NoGap ==
    mqCloses = 0 =>
        \E lo, hi \in 0..peerSent :
            /\ lo <= hi /\ Given = (lo + 1)..hi
            /\ conn = "open" /\ lo < hi => Numbers(Coming) = (hi + 1)..peerSent
Unattached == ~mPtr => Given = {}
FromTheFirst ==
    Prompt => /\ Given # {} => 1 \in Given
              /\ conn = "open" /\ Given = {} => Numbers(Coming) = 1..peerSent
Messages == Flow /\ NoGap /\ Unattached /\ FromTheFirst

(* No step reopens what is closed. *)
Later ==
    /\ conn' = "open" => conn = "open"
    /\ mqCloses' = 0 => mqCloses = 0
    /\ ~mPtr' => ~mPtr
    /\ Prompt' => Prompt \/ peerSent = 0

LEMMA OldestFirst ==
    ASSUME NEW n \in Nat, NEW p \in Nat, NEW k \in Nat \ {0}, NEW S,
           (n + 1)..p = {k} \union S, Below({k}, S)
    PROVE  k = n + 1 /\ k <= p /\ S = (k + 1)..p
<1>1. k \in (n + 1)..p /\ S \subseteq (n + 1)..p
  OBVIOUS
<1>2. n + 1 \in (n + 1)..p
  BY <1>1
<1>3. n + 1 = k \/ n + 1 \in S
  BY <1>2
<1>4. k = n + 1
  BY <1>1, <1>3 DEF Below
<1>5. ASSUME NEW x \in S PROVE x \in (k + 1)..p
  BY <1>1, <1>4 DEF Below
<1>6. ASSUME NEW x \in (k + 1)..p PROVE x \in S
  <2>1. x \in (n + 1)..p /\ x # k
    BY <1>4
  <2> QED
    BY <2>1
<1>7. S = (k + 1)..p
  BY <1>5, <1>6
<1> QED
  BY <1>1, <1>4, <1>7

(* The next message to be read is the oldest on its way. *)
LEMMA NextRead ==
    ASSUME peerSent \in Nat, Flow, NEW k \in Nat \ {0}, Joined(Coming, <<k>>, Coming')
    PROVE  /\ k <= peerSent /\ Below(Given, {k})
           /\ Numbers(Coming) = k..peerSent
           /\ Numbers(Coming') = (k + 1)..peerSent
           /\ InOrder(Coming') /\ Below(Given \union {k}, Numbers(Coming'))
<1> DEFINE c == Numbers(Coming)
           d == Numbers(Coming')
           g == Given
<1>1. PICK n \in 0..peerSent : c = (n + 1)..peerSent
  BY DEF Flow
<1>2. Numbers(<<k>>) = {k}
  BY SingleNumber
<1>3. c = {k} \union d /\ InOrder(Coming') /\ Below({k}, d)
  BY <1>2 DEF Joined, Flow
<1>4. Below(g, c)
  BY DEF Flow
<1> HIDE DEF c, d, g
<1>5. k = n + 1 /\ k <= peerSent /\ d = (k + 1)..peerSent
  <2>1. n \in Nat /\ (n + 1)..peerSent = {k} \union d
    BY <1>1, <1>3
  <2> QED
    BY <1>3, <2>1, OldestFirst
<1>6. Below(g, {k}) /\ Below(g \union {k}, d)
  BY <1>3, <1>4 DEF Below
<1> QED
  BY <1>1, <1>3, <1>5, <1>6 DEF c, d, g

LEMMA FlowKept ==
    ASSUME peerSent \in Nat, Flow, NEW k \in Nat \ {0},
           Keeps \/ Sends \/ Arrives(k) \/ Passes(k) \/ Drains
    PROVE  Flow' /\ peerSent' \in Nat
<1>1. CASE Keeps \/ Drains
  <2>1. /\ Given' \subseteq Given /\ peerSent' = peerSent /\ GivenInOrder'
        /\ Numbers(Coming') = Numbers(Coming) /\ (InOrder(Coming') <=> InOrder(Coming))
    BY <1>1 DEF Keeps, SameGiven, Drains, Alike, Flow
  <2>2. Below(Given', Numbers(Coming'))
    BY <2>1 DEF Flow, Below
  <2> QED
    BY <2>1, <2>2 DEF Flow
<1>2. CASE Sends
  <2> DEFINE c == Numbers(Coming)
             d == Numbers(Coming')
             g == Given
  <2>1. /\ Given' = g /\ GivenInOrder' /\ peerSent' = peerSent + 1
        /\ g \subseteq 1..peerSent /\ Below(g, c)
    BY <1>2 DEF Sends, SameGiven, Flow
  <2>2. Numbers(<<peerSent'>>) = {peerSent + 1} /\ InOrder(<<peerSent'>>)
    <3>1. peerSent' \in Nat /\ peerSent' # 0 /\ peerSent' = peerSent + 1
      BY <2>1
    <3> QED
      BY <3>1, SingleNumber
  <2>3. PICK n \in 0..peerSent : c = (n + 1)..peerSent
    BY DEF Flow
  <2>4. d = c \union {peerSent + 1}
    BY <1>2, <2>2 DEF Sends, Joined
  <2>5. InOrder(Coming') <=> InOrder(Coming) /\ Below(c, {peerSent + 1})
    BY <1>2, <2>2 DEF Sends, Joined
  <2>6. InOrder(Coming)
    BY DEF Flow
  <2> HIDE DEF c, d, g
  <2>7. Below(c, {peerSent + 1})
    BY <2>3 DEF Below
  <2>8. d = (n + 1)..(peerSent + 1) /\ n \in 0..(peerSent + 1)
    BY <2>3, <2>4
  <2>9. Below(g, d) /\ g \subseteq 1..(peerSent + 1)
    BY <2>1, <2>4 DEF Below
  <2> QED
    BY <2>1, <2>5, <2>6, <2>7, <2>8, <2>9 DEF Flow, c, d, g
<1>3. CASE Arrives(k) \/ Passes(k)
  <2>1. Joined(Coming, <<k>>, Coming') /\ peerSent' = peerSent
    BY <1>3 DEF Arrives, Passes
  <2>2. /\ k <= peerSent /\ Below(Given, {k})
        /\ Numbers(Coming') = (k + 1)..peerSent
        /\ InOrder(Coming') /\ Below(Given \union {k}, Numbers(Coming'))
    BY <2>1, NextRead
  <2>3. GivenInOrder' /\ Given' \subseteq Given \union {k}
    BY <1>3, <2>2 DEF Arrives, Passes, SameGiven, Flow
  <2>4. Below(Given', Numbers(Coming'))
    BY <2>2, <2>3 DEF Below
  <2>5. Given' \subseteq 1..peerSent /\ k \in 0..peerSent
    <3>1. k \in 1..peerSent
      BY <2>2
    <3> QED
      BY <2>3, <3>1 DEF Flow
  <2> QED
    BY <2>1, <2>2, <2>3, <2>4, <2>5 DEF Flow
<1> QED
  BY <1>1, <1>2, <1>3

LEMMA MessagesKept ==
    ASSUME peerSent \in Nat, Messages, Later, NEW k \in Nat \ {0},
           \/ Keeps
           \/ Sends /\ conn = "open"
           \/ Arrives(k) /\ mPtr /\ conn = "open"
           \/ /\ Passes(k) /\ ~(mPtr /\ conn = "open")
              /\ Prompt /\ conn = "open" => mPtr
           \/ Drains /\ mqCloses' # 0
    PROVE  Messages'
<1>1. Flow' /\ peerSent' \in Nat /\ Flow /\ NoGap /\ Unattached /\ FromTheFirst
  BY FlowKept DEF Messages
<1> DEFINE c == Numbers(Coming)
           d == Numbers(Coming')
           g == Given
           h == Given'
           p == peerSent
<1>2. /\ g \subseteq 1..p
      /\ \E n \in 0..p : c = (n + 1)..p
  BY <1>1 DEF Flow
<1>3. /\ mqCloses = 0 =>
            \E lo, hi \in 0..p : /\ lo <= hi /\ g = (lo + 1)..hi
                                 /\ conn = "open" /\ lo < hi => c = (hi + 1)..p
      /\ ~mPtr => g = {}
      /\ Prompt => /\ g # {} => 1 \in g
                   /\ conn = "open" /\ g = {} => c = 1..p
  BY <1>1 DEF NoGap, Unattached, FromTheFirst
<1>4. CASE peerSent' = 0
  <2>1. Given' = {} /\ Numbers(Coming') = {}
    <3>1. /\ Given' \subseteq 1..0
          /\ \E n \in 0..0 : Numbers(Coming') = (n + 1)..0
      BY <1>1, <1>4 DEF Flow
    <3> QED
      BY <3>1
  <2>2. 0 \in 0..0 /\ (0 + 1)..0 = {} /\ ~(0 < 0) /\ 0 <= 0 /\ 1..0 = {}
    OBVIOUS
  <2> QED
    BY <1>1, <1>4, <2>1, <2>2 DEF Messages, NoGap, Unattached, FromTheFirst
<1>5. CASE Keeps /\ peerSent' # 0
  <2>1. h = g /\ d = c /\ peerSent' = p /\ (Prompt' => Prompt)
    BY <1>5 DEF Keeps, SameGiven, Alike, Later
  <2> HIDE DEF c, d, g, h
  <2> SUFFICES NoGap' /\ Unattached' /\ FromTheFirst'
    BY <1>1 DEF Messages
  <2>2. NoGap'
    BY <1>3, <2>1 DEF NoGap, Later, c, d, g, h
  <2>3. Unattached'
    BY <1>3, <2>1 DEF Unattached, Later, g, h
  <2>4. FromTheFirst'
    BY <1>3, <2>1 DEF FromTheFirst, Later, c, d, g, h
  <2> QED
    BY <2>2, <2>3, <2>4
<1>6. CASE Sends /\ conn = "open" /\ peerSent' # 0
  <2>1. h = g /\ peerSent' = p + 1 /\ (Prompt' /\ p # 0 => Prompt)
    BY <1>6 DEF Sends, SameGiven, Later
  <2>2. Numbers(<<peerSent'>>) = {p + 1}
    <3>1. peerSent' \in Nat /\ peerSent' # 0 /\ peerSent' = p + 1
      BY <2>1
    <3> QED
      BY <3>1, SingleNumber
  <2>3. d = c \union {p + 1}
    BY <1>6, <2>2 DEF Sends, Joined
  <2> HIDE DEF c, d, g, h
  <2>4. ASSUME NEW n \in 0..p, c = (n + 1)..p PROVE d = (n + 1)..(p + 1)
    BY <2>3, <2>4
  <2>5. NoGap'
    <3> SUFFICES ASSUME mqCloses' = 0
                 PROVE  \E lo, hi \in 0..(p + 1) :
                           /\ lo <= hi /\ h = (lo + 1)..hi
                           /\ conn' = "open" /\ lo < hi => d = (hi + 1)..(p + 1)
      BY <2>1 DEF NoGap, d, h
    <3>1. PICK lo \in 0..p, hi \in 0..p :
                 /\ lo <= hi /\ g = (lo + 1)..hi
                 /\ conn = "open" /\ lo < hi => c = (hi + 1)..p
      BY <1>3 DEF Later
    <3>2. conn' = "open" /\ lo < hi => d = (hi + 1)..(p + 1)
      BY <2>4, <3>1 DEF Later
    <3>3. lo \in 0..(p + 1) /\ hi \in 0..(p + 1)
      OBVIOUS
    <3> QED
      BY <2>1, <3>1, <3>2, <3>3
  <2>6. Unattached'
    BY <1>3, <2>1 DEF Unattached, Later, g, h
  <2>7. FromTheFirst'
    <3>1. CASE p = 0
      <4>1. h = {} /\ d = 1..(p + 1)
        BY <1>2, <2>1, <2>3, <3>1
      <4> QED
        BY <2>1, <4>1 DEF FromTheFirst, d, h
    <3>2. CASE p # 0
      <4>1. c = 1..p => d = 1..(p + 1)
        <5>1. 0 \in 0..p /\ 0 + 1 = 1
          OBVIOUS
        <5> QED
          BY <2>4, <5>1
      <4> QED
        BY <1>3, <1>6, <2>1, <3>2, <4>1 DEF FromTheFirst, d, h
    <3> QED
      BY <3>1, <3>2
  <2> QED
    BY <1>1, <2>5, <2>6, <2>7 DEF Messages
<1>7. CASE Arrives(k) /\ mPtr /\ conn = "open" /\ peerSent' # 0
  <2>1. h = g \union {k} /\ peerSent' = p /\ (Prompt' => Prompt) /\ mPtr'
    BY <1>7 DEF Arrives, Later
  <2>2. k <= p /\ c = k..p /\ d = (k + 1)..p
    BY <1>1, <1>7, NextRead DEF Arrives
  <2> HIDE DEF c, d, g, h
  <2>3. NoGap'
    <3> SUFFICES ASSUME mqCloses' = 0
                 PROVE  \E lo, hi \in 0..p :
                           /\ lo <= hi /\ h = (lo + 1)..hi
                           /\ conn' = "open" /\ lo < hi => d = (hi + 1)..p
      BY <2>1 DEF NoGap, d, h
    <3>1. PICK lo \in 0..p, hi \in 0..p :
                 /\ lo <= hi /\ g = (lo + 1)..hi
                 /\ conn = "open" /\ lo < hi => c = (hi + 1)..p
      BY <1>3 DEF Later
    <3>2. CASE lo < hi
      <4>1. k = hi + 1
        BY <1>7, <2>2, <3>1, <3>2
      <4>2. h = (lo + 1)..k /\ lo <= k /\ k \in 0..p
        BY <2>1, <2>2, <3>1, <4>1
      <4> QED
        BY <2>2, <4>2
    <3>3. CASE ~(lo < hi)
      <4>1. g = {}
        BY <3>1, <3>3
      <4>2. /\ k - 1 \in 0..p /\ k \in 0..p /\ k - 1 <= k
            /\ h = ((k - 1) + 1)..k
        BY <2>1, <2>2, <4>1
      <4> QED
        BY <2>2, <4>2
    <3> QED
      BY <3>2, <3>3
  <2>4. Unattached'
    BY <2>1 DEF Unattached
  <2>5. FromTheFirst'
    <3>1. ASSUME Prompt PROVE 1 \in h
      <4>1. CASE g = {}
        <5>1. k..p = 1..p
          BY <1>3, <1>7, <2>2, <3>1, <4>1
        <5>2. k = 1
          BY <2>2, <5>1
        <5> QED
          BY <2>1, <5>2
      <4> QED
        BY <1>3, <2>1, <3>1, <4>1
    <3> QED
      BY <2>1, <3>1 DEF FromTheFirst, h
  <2> QED
    BY <1>1, <2>3, <2>4, <2>5 DEF Messages
<1>8. CASE /\ Passes(k) /\ ~(mPtr /\ conn = "open")
           /\ Prompt /\ conn = "open" => mPtr
           /\ peerSent' # 0
  <2>1. h = g /\ peerSent' = p /\ (Prompt' => Prompt)
    BY <1>8 DEF Passes, SameGiven, Later
  <2> HIDE DEF c, d, g, h
  <2>2. NoGap'
    <3> SUFFICES ASSUME mqCloses' = 0
                 PROVE  \E lo, hi \in 0..p :
                           /\ lo <= hi /\ h = (lo + 1)..hi
                           /\ conn' = "open" /\ lo < hi => d = (hi + 1)..p
      BY <2>1 DEF NoGap, d, h
    <3>1. PICK lo \in 0..p, hi \in 0..p : lo <= hi /\ g = (lo + 1)..hi
      BY <1>3 DEF Later
    <3>2. conn' = "open" => ~(lo < hi)
      <4>1. conn' = "open" => g = {}
        BY <1>3, <1>8 DEF Later
      <4> QED
        BY <3>1, <4>1
    <3> QED
      BY <2>1, <3>1, <3>2
  <2>3. Unattached'
    BY <1>3, <2>1 DEF Unattached, Later, g, h
  <2>4. FromTheFirst'
    BY <1>3, <1>8, <2>1 DEF FromTheFirst, Later, g, h
  <2> QED
    BY <1>1, <2>2, <2>3, <2>4 DEF Messages
<1>9. CASE Drains /\ mqCloses' # 0
  <2>1. Given' \subseteq Given
    BY <1>9 DEF Drains
  <2>2. Unattached'
    BY <1>3, <2>1 DEF Unattached, Later
  <2> QED
    BY <1>1, <1>9, <2>2 DEF Messages, NoGap, FromTheFirst, Prompt
<1> QED
  BY <1>4, <1>5, <1>6, <1>7, <1>8, <1>9

-----------------------------------------------------------------------------
(* The steps of the acceptor's side post and run what carries no message.    *)
OneSided == readers = <<>> \/ data = <<>>

QuietTasks ==
    /\ tasks' \in Seq(Task)
    /\ Alike(Q!IdsOf(tasks'), Q!IdsOf(tasks)) /\ Alike(ReadIds(tasks'), ReadIds(tasks))

LEMMA AlikeItself == \A s : Alike(s, s)
BY DEF Alike

LEMMA QuietKeeps ==
    ASSUME QuietTasks, UNCHANGED <<received, data, peerSent>>
    PROVE  Keeps
<1>1. /\ DoneIds' = DoneIds /\ StoredIds' = StoredIds /\ peerSent' = peerSent
      /\ Alike(TaskIds', TaskIds) /\ Alike(Coming', Coming)
  BY DEF QuietTasks, DoneIds, StoredIds, TaskIds, Coming
<1>2. Given' = Given
  BY <1>1 DEF Given, Alike
<1>3. GivenInOrder => GivenInOrder'
  BY <1>1 DEF GivenInOrder, Alike
<1> QED
  BY <1>1, <1>2, <1>3 DEF Keeps, SameGiven

(* The handlers of accepts, called or posted. *)
Answer == [op : Accept, ec : Verdict]

LEMMA Finished ==
    ASSUME NEW list \in Seq(Answer), NEW here, NEW queued \in Seq(Task),
           A!Finish(list, here, results, queued)
    PROVE  \/ tasks' = queued
           \/ \E t \in Seq(Calling) : tasks' = queued \o t
<1> DEFINE posted == [i \in DOMAIN list |->
                         [kind |-> "handler", op |-> list[i].op, ec |-> list[i].ec]]
<1>1. posted \in Seq(Calling)
  <2>1. \A i \in 1..Len(list) :
            [kind |-> "handler", op |-> list[i].op, ec |-> list[i].ec] \in Calling
    <3> SUFFICES ASSUME NEW i \in 1..Len(list)
                 PROVE  [kind |-> "handler", op |-> list[i].op, ec |-> list[i].ec]
                            \in Calling
      OBVIOUS
    <3>1. list[i] \in Answer
      OBVIOUS
    <3> QED
      BY <3>1 DEF Answer, Calling
  <2>2. DOMAIN list = 1..Len(list) /\ Len(list) \in Nat
    BY LenProperties
  <2> QED
    BY <2>1, <2>2, IsASeq
<1> QED
  BY <1>1 DEF A!Finish

LEMMA CallsAreQuiet ==
    ASSUME NEW s \in Seq(Task), NEW t \in Seq(Calling)
    PROVE  /\ s \o t \in Seq(Task)
           /\ Alike(Q!IdsOf(s \o t), Q!IdsOf(s)) /\ Alike(ReadIds(s \o t), ReadIds(s))
<1>1. Calling \subseteq Task
  BY DEF Task
<1>2. t \in Seq(Task)
  BY <1>1, SeqMonotonic
<1>3. \A i \in DOMAIN t : t[i] \in Calling
  OBVIOUS
<1> QED
  BY <1>2, <1>3, SilentKinds, SilentMany

LEMMA QuietPost ==
    ASSUME tasks \in Seq(Task),
           \/ tasks' = tasks
           \/ \E t \in Seq(Calling) : tasks' = tasks \o t
           \/ \E x : Silent(x) /\ tasks' = Append(tasks, x)
    PROVE  QuietTasks
BY CallsAreQuiet, SilentTasks, AlikeItself DEF QuietTasks

LEMMA QuietRun ==
    ASSUME tasks \in Seq(Task), tasks # <<>>, Silent(Head(tasks)), tasks' = Tail(tasks)
    PROVE  QuietTasks
<1>1. /\ Tail(tasks) \in Seq(Task)
      /\ Alike(Q!IdsOf(tasks), Q!IdsOf(Tail(tasks)))
      /\ Alike(ReadIds(tasks), ReadIds(Tail(tasks)))
  BY SilentTasks
<1> QED
  BY <1>1 DEF QuietTasks, Alike

AcceptorTypes ==
    /\ waiting \in Seq(Accept) /\ surplus \in Seq(Offer)
    /\ mq \in [Accept -> Connections \union {"none"}]
    /\ session \in [Connections ->
                       {"none", "connecting", "open", "failed", "closed"}]
    /\ accepts \in Nat /\ closes \in Nat
QueueTypes ==
    /\ readers \in Seq(Nat) /\ data \in Seq(Datum) /\ received \in Seq(Completing)
    /\ issued \in Nat /\ mqCloses \in Nat
    /\ mPtr \in BOOLEAN /\ mqOwner = TRUE

LEMMA AllTypes ==
    TypeOK <=> /\ AcceptorTypes /\ QueueTypes /\ tasks \in Seq(Task)
               /\ peerSent \in Nat /\ inTime \in BOOLEAN
               /\ (broken <=> Conn \in transportEc) /\ broken \in BOOLEAN
BY DEF TypeOK, AcceptorTypes, QueueTypes

Starting == session[Conn] \in {"none", "connecting"}

(* What a call or a step of the acceptor does to its own part.               *)
AcceptorMoves ==
    /\ QuietTasks /\ AcceptorTypes' /\ transportEc' = transportEc
    /\ Starting' <=> Starting
    /\ closes' = 0 => closes = 0

LEMMA OfferTaken ==
    ASSUME AcceptorTypes, NEW d \in Offer, NEW a \in Accept, A!Give(a, d)
    PROVE  /\ mq' \in [Accept -> Connections \union {"none"}]
           /\ A!Done(a, d) \in Seq(Answer)
<1>1. d.con \in Connections /\ d.ec \in {"ok", "transport"}
  BY DEF Offer
<1>2. mq' \in [Accept -> Connections \union {"none"}]
  BY <1>1 DEF A!Give, AcceptorTypes
<1>3. [op |-> a, ec |-> d.ec] \in Answer
  BY <1>1 DEF Answer, Verdict
<1> QED
  BY <1>2, <1>3 DEF A!Done

LEMMA AcceptMoves ==
    ASSUME TypeOK, NEW here, A!AsyncAccept(here)
    PROVE  /\ AcceptorMoves /\ Len(waiting) <= Len(waiting')
           /\ tasks' = tasks \/ \E t \in Seq(Calling) : tasks' = tasks \o t
<1>1. AcceptorTypes /\ tasks \in Seq(Task)
  BY AllTypes
<1>2. accepts' \in Accept /\ accepts' \in Nat
  <2>1. accepts' = accepts + 1 /\ accepts < MaxAccepts
    BY DEF A!AsyncAccept
  <2>2. accepts \in Nat /\ MaxAccepts \in Nat
    BY <1>1, Bounds DEF AcceptorTypes
  <2> QED
    BY <2>1, <2>2 DEF Accept
<1>3. /\ transportEc' = transportEc /\ session' = session /\ closes' = closes
  BY DEF A!AsyncAccept, A!net
<1>4. CASE surplus = <<>>
  <2>1. /\ waiting' = Append(waiting, accepts') /\ surplus' = surplus
        /\ tasks' = tasks /\ mq' = mq
    BY <1>4 DEF A!AsyncAccept
  <2>2. waiting' \in Seq(Accept) /\ Len(waiting) <= Len(waiting')
    <3>1. waiting \in Seq(Accept) /\ Len(waiting) \in Nat
      BY <1>1, LenProperties DEF AcceptorTypes
    <3>2. waiting' \in Seq(Accept) /\ Len(waiting') = Len(waiting) + 1
      BY <1>2, <2>1, <3>1, AppendProperties
    <3> QED
      BY <3>1, <3>2
  <2>3. QuietTasks
    BY <1>1, <2>1, QuietPost
  <2> QED
    BY <1>1, <1>2, <1>3, <2>1, <2>2, <2>3 DEF AcceptorMoves, AcceptorTypes, Starting
<1>5. CASE surplus # <<>>
  <2> DEFINE d == Head(surplus)
  <2>1. /\ A!Give(accepts', d) /\ A!Finish(A!Done(accepts', d), here, results, tasks)
        /\ surplus' = Tail(surplus) /\ waiting' = waiting
    BY <1>5 DEF A!AsyncAccept, A!Taken
  <2>2. d \in Offer /\ Tail(surplus) \in Seq(Offer)
    BY <1>1, <1>5, HeadTailProperties DEF AcceptorTypes
  <2> HIDE DEF d
  <2>3. /\ mq' \in [Accept -> Connections \union {"none"}]
        /\ A!Done(accepts', d) \in Seq(Answer)
    BY <1>1, <1>2, <2>1, <2>2, OfferTaken
  <2>4. tasks' = tasks \/ \E t \in Seq(Calling) : tasks' = tasks \o t
    BY <1>1, <2>1, <2>3, Finished
  <2>5. QuietTasks
    BY <1>1, <2>4, QuietPost
  <2>6. Len(waiting) <= Len(waiting')
    BY <1>1, <2>1, LenProperties DEF AcceptorTypes
  <2> QED
    BY <1>1, <1>2, <1>3, <2>1, <2>2, <2>3, <2>4, <2>5, <2>6
       DEF AcceptorMoves, AcceptorTypes, Starting
<1> QED
  BY <1>4, <1>5

LEMMA ProduceMoves ==
    ASSUME TypeOK, A!RunProduce
    PROVE  AcceptorMoves /\ tasks' = Tail(tasks)
<1>1. AcceptorTypes /\ tasks \in Seq(Task)
  BY AllTypes
<1> DEFINE c == Head(tasks).con
           d == [con |-> c, ec |-> IF c \in transportEc THEN "transport" ELSE "ok"]
<1>2. /\ tasks # <<>> /\ Head(tasks).kind = "produce" /\ A!ProduceTo(c, Tail(tasks))
      /\ transportEc' = transportEc /\ session' = session /\ closes' = closes
      /\ accepts' = accepts
  BY DEF A!RunProduce, A!net
<1>3. Head(tasks) \in Posting /\ Silent(Head(tasks))
  <2>1. Head(tasks) \in Task
    BY <1>1, <1>2, TasksShrink
  <2> QED
    BY <1>2, <2>1, TaskKinds, SilentKinds
<1>4. d \in Offer
  BY <1>3 DEF Offer, Posting
<1>5. \/ /\ waiting = <<>> /\ surplus' = Append(surplus, d) /\ tasks' = Tail(tasks)
         /\ waiting' = waiting /\ mq' = mq
      \/ /\ waiting # <<>> /\ A!Give(Head(waiting), d) /\ tasks' = Tail(tasks)
         /\ waiting' = Tail(waiting) /\ surplus' = surplus
  BY <1>2 DEF A!ProduceTo, A!Finish
<1> HIDE DEF c, d
<1>6. QuietTasks
  BY <1>1, <1>2, <1>3, <1>5, QuietRun
<1>7. CASE waiting = <<>>
  <2>1. surplus' \in Seq(Offer) /\ waiting' = waiting /\ mq' = mq
    BY <1>1, <1>4, <1>5, <1>7, AppendProperties DEF AcceptorTypes
  <2> QED
    BY <1>1, <1>2, <1>5, <1>6, <2>1 DEF AcceptorMoves, AcceptorTypes, Starting
<1>8. CASE waiting # <<>>
  <2>1. Head(waiting) \in Accept /\ Tail(waiting) \in Seq(Accept)
    BY <1>1, <1>8, HeadTailProperties DEF AcceptorTypes
  <2>2. mq' \in [Accept -> Connections \union {"none"}]
    BY <1>1, <1>4, <1>5, <1>8, <2>1, OfferTaken
  <2> QED
    BY <1>1, <1>2, <1>5, <1>6, <1>8, <2>1, <2>2
       DEF AcceptorMoves, AcceptorTypes, Starting
<1> QED
  BY <1>5, <1>7, <1>8

LEMMA HandlerMoves ==
    ASSUME TypeOK, A!RunHandler
    PROVE  AcceptorMoves
<1>1. AcceptorTypes /\ tasks \in Seq(Task)
  BY AllTypes
<1>2. /\ tasks # <<>> /\ Head(tasks).kind = "handler" /\ tasks' = Tail(tasks)
      /\ UNCHANGED <<transportEc, session, closes, accepts, waiting, surplus, mq>>
  BY DEF A!RunHandler, A!net, A!queue
<1>3. Silent(Head(tasks))
  <2>1. Head(tasks) \in Task
    BY <1>1, <1>2, TasksShrink
  <2> QED
    BY <1>2, <2>1, TaskKinds, SilentKinds
<1>4. QuietTasks
  BY <1>1, <1>2, <1>3, QuietRun
<1> QED
  BY <1>1, <1>2, <1>4 DEF AcceptorMoves, AcceptorTypes, Starting

LEMMA CloseMoves ==
    ASSUME TypeOK, NEW here, A!Close(here)
    PROVE  AcceptorMoves /\ closes' # 0
<1>1. AcceptorTypes /\ tasks \in Seq(Task)
  BY AllTypes
<1>2. /\ A!Finish(A!Aborted, here, results, tasks)
      /\ waiting' = <<>> /\ surplus' = <<>> /\ closes' = closes + 1
      /\ UNCHANGED <<transportEc, accepts, mq>>
      /\ session' = [c \in Connections |->
                       IF c \in A!Discarded /\ session[c] = "open" THEN "closed"
                                                                 ELSE session[c]]
  BY DEF A!Close, A!Drain
<1>3. A!Aborted \in Seq(Answer)
  <2>1. DOMAIN waiting = 1..Len(waiting) /\ Len(waiting) \in Nat
    BY <1>1, LenProperties DEF AcceptorTypes
  <2>2. \A i \in 1..Len(waiting) : [op |-> waiting[i], ec |-> "aborted"] \in Answer
    <3> SUFFICES ASSUME NEW i \in 1..Len(waiting)
                 PROVE  [op |-> waiting[i], ec |-> "aborted"] \in Answer
      OBVIOUS
    <3>1. waiting[i] \in Accept
      BY <1>1 DEF AcceptorTypes
    <3> QED
      BY <3>1 DEF Answer, Verdict
  <2> QED
    BY <2>1, <2>2, IsASeq DEF A!Aborted
<1>4. QuietTasks
  BY <1>1, <1>2, <1>3, Finished, QuietPost
<1>5. /\ session' \in [Connections ->
                         {"none", "connecting", "open", "failed", "closed"}]
      /\ Starting' <=> Starting
  BY <1>1, <1>2, Bounds DEF AcceptorTypes, Starting
<1>6. waiting' \in Seq(Accept) /\ surplus' \in Seq(Offer)
  BY <1>2
<1> QED
  BY <1>1, <1>2, <1>4, <1>5, <1>6 DEF AcceptorMoves, AcceptorTypes

(* The queue is touched by the consumer of an accept at most to be attached. *)
Attached == Has(mq) => mPtr
QueueKept ==
    /\ UNCHANGED <<conn, broken, readers, data, received, mqOwner, issued, mqCloses>>
    /\ mPtr' = mPtr \/ mPtr' = TRUE

LEMMA ConsumerKeeps ==
    ASSUME Consumer
    PROVE  QueueKept /\ (Attached => (Has(mq') => mPtr'))
<1>1. CASE Has(mq') = Has(mq) /\ UNCHANGED queueVars
  BY <1>1 DEF queueVars, QueueKept, Attached
<1>2. CASE Q!Attach
  BY <1>2 DEF Q!Attach, Q!sending, Q!network, Q!queue, QueueKept
<1> QED
  BY <1>1, <1>2 DEF Consumer

LEMMA AcceptorStep ==
    ASSUME TypeOK, OneSided, Attached,
           Listen \/ AcceptorRuns \/ \E here \in BOOLEAN : AcceptorCalled(here)
    PROVE  /\ TypeOK' /\ OneSided' /\ Attached' /\ Keeps /\ Later
           /\ UNCHANGED <<conn, broken, mqCloses, inTime, transportEc>>
           /\ Starting' <=> Starting
           /\ closes' = 0 => closes = 0
           /\ mPtr => mPtr'
<1>1. CASE Listen
  <2>1. /\ UNCHANGED <<queueVars, peerVars, tasks, transportEc, session, waiting,
                       surplus, mq, accepts, closes>>
    BY <1>1 DEF Listen, A!Listen, A!net, A!queue
  <2>2. QuietTasks
    BY <2>1, QuietPost, AllTypes
  <2>3. Keeps
    BY <2>1, <2>2, QuietKeeps DEF queueVars, peerVars
  <2>4. TypeOK' /\ OneSided' /\ Attached'
    BY <2>1 DEF TypeOK, OneSided, Attached, Has, queueVars, peerVars
  <2> QED
    BY <2>1, <2>3, <2>4 DEF Later, Prompt, Starting, queueVars, peerVars
<1>2. CASE AcceptorRuns \/ \E here \in BOOLEAN : AcceptorCalled(here)
  <2>1. AcceptorMoves /\ Consumer /\ UNCHANGED peerVars
    BY <1>2, AcceptMoves, ProduceMoves, HandlerMoves, CloseMoves
       DEF AcceptorRuns, AcceptorCalled, A!RunTask
  <2>2. QueueKept /\ Attached'
    BY <2>1, ConsumerKeeps DEF Attached, Has
  <2>3. Keeps
    BY <2>1, <2>2, QuietKeeps DEF AcceptorMoves, QueueKept, peerVars
  <2>4. /\ AcceptorTypes' /\ QueueTypes' /\ OneSided'
        /\ tasks' \in Seq(Task) /\ UNCHANGED <<transportEc, broken, peerSent, inTime>>
    BY <2>1, <2>2, AllTypes
       DEF QueueTypes, QueueKept, OneSided, AcceptorMoves, QuietTasks, peerVars
  <2>5. TypeOK'
    BY <2>4, AllTypes DEF TypeOK, AcceptorTypes, QueueTypes
  <2> QED
    BY <2>1, <2>2, <2>3, <2>4, <2>5
       DEF Later, Prompt, AcceptorMoves, QueueKept, peerVars
<1> QED
  BY <1>1, <1>2

-----------------------------------------------------------------------------
(* The steps of the queue's side, of the peer and of the connection.         *)
LEMMA CompletionTypes ==
    /\ \A n \in Nat, d \in Datum : /\ Q!Consumed(n, d) \in Completing
                                   /\ Q!Consumed(n, d).msg.id = d.msg.id
    /\ \A n \in Nat : Silent(Q!Complete(n, "transport", Q!NoMessage, 0))
    /\ \A n \in Nat : Silent(Q!Consumed(n, Q!Aborted))
    /\ \A n \in Nat : Silent(Q!Receive(n))
    /\ Q!CloseNotice \in Datum /\ Q!CloseNotice.msg.id = 0
<1>1. ASSUME NEW n \in Nat, NEW d \in Datum
      PROVE  Q!Consumed(n, d) \in Completing /\ Q!Consumed(n, d).msg.id = d.msg.id
  <2>1. CASE d.ec = "ok"
    <3>1. d.msg \in Text /\ d.msg.size \in Nat /\ Q!SmallerOf(d.msg.size, 1) \in Nat
      BY <2>1 DEF Datum, Text, Q!SmallerOf, Q!NoMessage
    <3> DEFINE e == IF d.msg.size <= 1 THEN "ok" ELSE "message_size"
               z == Q!SmallerOf(d.msg.size, 1)
    <3>2. /\ e \in {"ok", "message_size", "operation_aborted", "transport"}
          /\ z \in Nat /\ Q!Consumed(n, d) = Q!Complete(n, e, d.msg, z)
      BY <2>1, <3>1 DEF Q!Consumed
    <3> HIDE DEF e, z
    <3> QED
      BY <3>1, <3>2 DEF Q!Complete, Completing
  <2>2. CASE d.ec # "ok"
    <3>1. d.ec \in {"operation_aborted", "transport"} /\ d.msg = Q!NoMessage
      BY <2>2 DEF Datum
    <3> QED
      BY <2>2, <3>1 DEF Q!Consumed, Q!Complete, Completing, Text, Q!NoMessage
  <2> QED
    BY <2>1, <2>2
<1>2. ASSUME NEW n \in Nat,
             NEW e \in {"ok", "message_size", "operation_aborted", "transport"}
      PROVE  Silent(Q!Complete(n, e, Q!NoMessage, 0))
  <2>1. /\ Q!Complete(n, e, Q!NoMessage, 0) \in Completing
        /\ Q!Complete(n, e, Q!NoMessage, 0).msg.id = 0
    BY DEF Q!Complete, Completing, Text, Q!NoMessage
  <2> QED
    BY <2>1, SilentKinds DEF Silent
<1>3. Q!Aborted.ec = "operation_aborted"
  BY DEF Q!Aborted
<1>4. ASSUME NEW n \in Nat PROVE Silent(Q!Consumed(n, Q!Aborted))
  <2>1. Q!Consumed(n, Q!Aborted) = Q!Complete(n, "operation_aborted", Q!NoMessage, 0)
    BY <1>3 DEF Q!Consumed
  <2> QED
    BY <1>2, <2>1
<1>5. ASSUME NEW n \in Nat PROVE Silent(Q!Receive(n))
  <2>1. Q!Receive(n) \in Receiving
    BY DEF Q!Receive, Receiving
  <2> QED
    BY <2>1, SilentKinds
<1>6. Q!CloseNotice \in Datum /\ Q!CloseNotice.msg.id = 0
  BY DEF Q!CloseNotice, Datum, Q!NoMessage
<1> QED
  BY <1>1, <1>2, <1>4, <1>5, <1>6

(* A datum is given to the reader that waits longest, or stored. *)
Takes(queued, k) ==
    /\ tasks' \in Seq(Task) /\ readers' \in Seq(Nat) /\ data' \in Seq(Datum)
    /\ OneSided' /\ Alike(ReadIds(tasks'), ReadIds(queued))
    /\ \/ /\ tasks' = queued
          /\ Joined(StoredIds', StoredIds, <<k>>)
       \/ /\ data = <<>> /\ data' = data
          /\ \E x \in Completing : tasks' = Append(queued, x)
          /\ Joined(TaskIds', Q!IdsOf(queued), <<k>>)

LEMMA ProduceTakes ==
    ASSUME QueueTypes, OneSided, NEW d \in Datum, NEW queued \in Seq(Task),
           Q!Produce(d, queued)
    PROVE  Takes(queued, d.msg.id)
<1>1. CASE readers = <<>>
  <2>1. data' = Append(data, d) /\ tasks' = queued /\ readers' = readers
    BY <1>1 DEF Q!Produce
  <2>2. /\ data' \in Seq(Datum)
        /\ Joined(DataIds(data'), DataIds(data), <<d.msg.id>>)
    BY <2>1, DataQueue DEF QueueTypes
  <2> QED
    BY <1>1, <2>1, <2>2, AlikeItself DEF Takes, OneSided, QueueTypes, StoredIds
<1>2. CASE readers # <<>>
  <2> DEFINE n == Head(readers)
             x == Q!Consumed(n, d)
  <2>1. tasks' = Append(queued, x) /\ readers' = Tail(readers) /\ data' = data
    BY <1>2 DEF Q!Produce
  <2>2. n \in Nat /\ Tail(readers) \in Seq(Nat)
    BY <1>2, HeadTailProperties DEF QueueTypes
  <2> HIDE DEF n
  <2>3. x \in Completing /\ x.msg.id = d.msg.id
    BY <2>2, CompletionTypes
  <2>4. x \in Task /\ Id(x) = d.msg.id /\ ReadId(x) = 0
    BY <2>3, SilentKinds
  <2> HIDE DEF x
  <2>5. /\ Append(queued, x) \in Seq(Task)
        /\ Joined(Q!IdsOf(Append(queued, x)), Q!IdsOf(queued), <<d.msg.id>>)
        /\ Joined(ReadIds(Append(queued, x)), ReadIds(queued), <<0>>)
    BY <2>4, TasksGrow
  <2>6. /\ tasks' \in Seq(Task) /\ Joined(TaskIds', Q!IdsOf(queued), <<d.msg.id>>)
        /\ Alike(ReadIds(tasks'), ReadIds(queued))
    BY <2>1, <2>5, JoinedNothing DEF TaskIds
  <2>7. data = <<>>
    BY <1>2 DEF OneSided
  <2> QED
    BY <2>1, <2>2, <2>3, <2>6, <2>7 DEF Takes, OneSided, QueueTypes
<1> QED
  BY <1>1, <1>2

LEMMA GivenMore ==
    ASSUME NEW k \in Nat, received' = received, NEW queued,
           Alike(Q!IdsOf(queued), TaskIds), Takes(queued, k)
    PROVE  /\ Given' = Given \union ({k} \ {0})
           /\ GivenInOrder /\ Below(Given, {k} \ {0}) => GivenInOrder'
<1> DEFINE K == {k} \ {0}
<1>1. Numbers(<<k>>) = K /\ InOrder(<<k>>)
  BY SingleNumber
<1>2. DoneIds' = DoneIds
  BY DEF DoneIds
<1> HIDE DEF K
<1>3. CASE tasks' = queued /\ Joined(StoredIds', StoredIds, <<k>>)
  <2>1. Alike(TaskIds', TaskIds)
    BY <1>3 DEF TaskIds
  <2> QED
    BY <1>1, <1>2, <1>3, <2>1 DEF Given, GivenInOrder, Joined, Alike, Below, K
<1>4. CASE /\ data = <<>> /\ data' = data
           /\ Joined(TaskIds', Q!IdsOf(queued), <<k>>)
  <2>1. StoredIds' = StoredIds /\ Numbers(StoredIds) = {}
    <3>1. StoredIds = <<>>
      BY <1>4 DEF StoredIds, DataIds
    <3> QED
      BY <1>4, <3>1, NoNumber DEF StoredIds
  <2> QED
    BY <1>1, <1>2, <1>4, <2>1 DEF Given, GivenInOrder, Joined, Alike, Below, K
<1> QED
  BY <1>3, <1>4 DEF Takes

(* What the steps other than the acceptor's leave of its part and the user's.*)
Aside ==
    /\ UNCHANGED <<acceptorVars, peerVars, mPtr, mqOwner, broken>>
    /\ OneSided' /\ QueueTypes' /\ tasks' \in Seq(Task)

LEMMA AsideTypes ==
    ASSUME TypeOK, Attached, Aside
    PROVE  /\ TypeOK' /\ OneSided' /\ Attached' /\ (Starting' <=> Starting)
           /\ UNCHANGED <<mPtr, broken, inTime, closes, waiting, peerSent>>
<1>1. AcceptorTypes' /\ peerSent' \in Nat /\ inTime' \in BOOLEAN
  BY AllTypes DEF Aside, acceptorVars, peerVars, AcceptorTypes
<1>2. (broken' <=> Conn \in transportEc') /\ broken' \in BOOLEAN
  BY AllTypes DEF Aside, acceptorVars
<1> QED
  BY <1>1, <1>2 DEF TypeOK, AcceptorTypes, QueueTypes, Aside, acceptorVars,
                    peerVars, Attached, Has, Starting

LEMMA AskStep ==
    ASSUME TypeOK, OneSided, UNCHANGED <<acceptorVars, peerVars>>, Q!AsyncReceive
    PROVE  /\ Aside /\ Keeps /\ UNCHANGED <<conn, mqCloses>>
           /\ \E x : tasks' = Append(tasks, x) /\ Silent(x)
<1>1. /\ tasks' = Append(tasks, Q!Receive(issued')) /\ issued' = issued + 1
      /\ UNCHANGED <<conn, broken, mPtr, readers, data, mqOwner, mqCloses, received>>
  BY DEF Q!AsyncReceive, Q!sending, Q!network, Q!queue
<1>2. issued' \in Nat /\ tasks \in Seq(Task)
  BY <1>1 DEF TypeOK
<1>3. Silent(Q!Receive(issued'))
  BY <1>2, CompletionTypes
<1>4. QuietTasks
  BY <1>1, <1>2, <1>3, QuietPost
<1> QED
  BY <1>1, <1>2, <1>3, <1>4, QuietKeeps
     DEF Aside, TypeOK, QueueTypes, OneSided, QuietTasks, peerVars

LEMMA QueueCloseStep ==
    ASSUME TypeOK, OneSided, UNCHANGED <<acceptorVars, peerVars>>, Q!Close
    PROVE  /\ Aside /\ Drains /\ mqCloses' # 0 /\ (conn' = "open" => conn = "open")
<1>1. /\ mqCloses' = mqCloses + 1 /\ tasks' = tasks \o Q!Drained
      /\ readers' = <<>> /\ data' = <<>>
      /\ conn' = "open" => conn = "open"
      /\ UNCHANGED <<broken, mPtr, mqOwner, issued, received>>
  BY DEF Q!Close, Q!CloseQueue, Q!CloseConnection, Q!sending
<1>2. tasks \in Seq(Task) /\ readers \in Seq(Nat)
  BY DEF TypeOK
<1> DEFINE D == Q!Drained
<1>3. D \in Seq(Task) /\ \A i \in DOMAIN D : Silent(D[i])
  <2>1. DOMAIN readers = 1..Len(readers) /\ Len(readers) \in Nat
    BY <1>2, LenProperties
  <2>2. \A i \in 1..Len(readers) : readers[i] \in Nat
    BY <1>2
  <2>3. \A i \in 1..Len(readers) : Silent(Q!Consumed(readers[i], Q!Aborted))
    BY <2>2, CompletionTypes
  <2>4. \A i \in 1..Len(readers) : Q!Consumed(readers[i], Q!Aborted) \in Task
    BY <2>3 DEF Silent
  <2>5. D = [i \in 1..Len(readers) |-> Q!Consumed(readers[i], Q!Aborted)]
    BY <2>1 DEF Q!Drained
  <2> HIDE DEF D
  <2>6. D \in Seq(Task)
    BY <2>1, <2>4, <2>5, IsASeq
  <2> QED
    BY <2>3, <2>5, <2>6
<1> HIDE DEF D
<1>4. /\ tasks' \in Seq(Task)
      /\ Alike(Q!IdsOf(tasks'), Q!IdsOf(tasks)) /\ Alike(ReadIds(tasks'), ReadIds(tasks))
  BY <1>1, <1>2, <1>3, SilentMany DEF D
<1>5. Numbers(StoredIds') = {} /\ InOrder(StoredIds')
  <2>1. StoredIds' = <<>>
    BY <1>1 DEF StoredIds, DataIds
  <2> QED
    BY <2>1, NoNumber
<1>6. Given' \subseteq Given /\ (GivenInOrder => GivenInOrder')
  <2>1. DoneIds' = DoneIds /\ Alike(TaskIds', TaskIds)
    BY <1>1, <1>4 DEF DoneIds, TaskIds
  <2> QED
    BY <1>5, <2>1 DEF Given, GivenInOrder, Alike, Below
<1>7. Drains
  BY <1>4, <1>6 DEF Drains, Coming, peerVars
<1>8. mqCloses' \in Nat /\ mqCloses' # 0
  BY <1>1 DEF TypeOK
<1>9. Aside
  BY <1>1, <1>4, <1>8 DEF Aside, TypeOK, QueueTypes, OneSided
<1> QED
  BY <1>1, <1>7, <1>8, <1>9

LEMMA ReceiveStep ==
    ASSUME TypeOK, OneSided, UNCHANGED <<acceptorVars, peerVars>>, Q!RunReceive
    PROVE  /\ Aside /\ Keeps /\ UNCHANGED <<conn, mqCloses>>
           /\ tasks # <<>> /\ Head(tasks).kind = "receive"
           /\ \/ tasks' = Tail(tasks)
              \/ \E x \in Task : tasks' = Append(Tail(tasks), x)
<1> DEFINE n == Head(tasks).op
           rest == Tail(tasks)
           lost == Q!Complete(n, "transport", Q!NoMessage, 0)
<1>1. /\ tasks # <<>> /\ Head(tasks).kind = "receive"
      /\ UNCHANGED <<conn, broken, mPtr, mqOwner, issued, mqCloses, received>>
      /\ \/ tasks' = Append(rest, lost) /\ UNCHANGED <<readers, data>>
         \/ Q!Consume(n, rest)
  BY DEF Q!RunReceive, Q!sending, Q!network, Q!queue
<1>2. /\ tasks \in Seq(Task) /\ readers \in Seq(Nat) /\ data \in Seq(Datum)
      /\ received \in Seq(Completing)
  BY DEF TypeOK
<1>3. Head(tasks) \in Receiving
  BY <1>1, <1>2, TasksShrink, TaskKinds
<1>4. n \in Nat /\ Silent(Head(tasks))
  BY <1>3, SilentKinds DEF Receiving
<1>5. /\ rest \in Seq(Task)
      /\ Alike(Q!IdsOf(tasks), Q!IdsOf(rest)) /\ Alike(ReadIds(tasks), ReadIds(rest))
  BY <1>1, <1>2, <1>4, SilentTasks
<1>6. Silent(lost)
  BY <1>4, CompletionTypes
<1> HIDE DEF n, rest, lost
<1>7. CASE tasks' = Append(rest, lost) /\ UNCHANGED <<readers, data>>
  <2>1. /\ tasks' \in Seq(Task) /\ Alike(Q!IdsOf(tasks'), Q!IdsOf(rest))
        /\ Alike(ReadIds(tasks'), ReadIds(rest))
    BY <1>5, <1>6, <1>7, SilentTasks
  <2>2. QuietTasks
    BY <1>5, <2>1 DEF QuietTasks, Alike
  <2>3. Keeps /\ Aside
    BY <1>1, <1>7, <2>1, <2>2, QuietKeeps
       DEF Aside, TypeOK, QueueTypes, OneSided, peerVars
  <2> QED
    BY <1>1, <1>6, <1>7, <2>3 DEF Silent, rest
<1>8. CASE Q!Consume(n, rest) /\ data = <<>>
  <2>1. readers' = Append(readers, n) /\ tasks' = rest /\ data' = data
    BY <1>8 DEF Q!Consume
  <2>2. readers' \in Seq(Nat)
    BY <1>2, <1>4, <2>1, AppendProperties
  <2>3. QuietTasks
    BY <1>5, <2>1 DEF QuietTasks, Alike
  <2>4. Keeps /\ Aside
    BY <1>1, <1>5, <1>8, <2>1, <2>2, <2>3, QuietKeeps
       DEF Aside, TypeOK, QueueTypes, OneSided, peerVars
  <2> QED
    BY <1>1, <2>1, <2>4 DEF rest
<1>9. CASE Q!Consume(n, rest) /\ data # <<>>
  <2> DEFINE d == Head(data)
             x == Q!Consumed(n, d)
             k == d.msg.id
  <2>1. tasks' = Append(rest, x) /\ data' = Tail(data) /\ readers' = readers
    BY <1>9 DEF Q!Consume
  <2>2. /\ d \in Datum /\ Tail(data) \in Seq(Datum)
        /\ Joined(DataIds(data), <<k>>, DataIds(Tail(data)))
    BY <1>2, <1>9, DataQueue
  <2>3. k \in Nat
    BY <2>2 DEF Datum, Text, Q!NoMessage
  <2> HIDE DEF d
  <2>4. x \in Completing /\ x.msg.id = k
    BY <1>4, <2>2, CompletionTypes
  <2>5. x \in Task /\ Id(x) = k /\ ReadId(x) = 0
    BY <2>4, SilentKinds
  <2> HIDE DEF x, k
  <2>6. /\ Append(rest, x) \in Seq(Task)
        /\ Joined(Q!IdsOf(Append(rest, x)), Q!IdsOf(rest), <<k>>)
        /\ Joined(ReadIds(Append(rest, x)), ReadIds(rest), <<0>>)
    BY <1>5, <2>5, TasksGrow
  <2>7. /\ tasks' \in Seq(Task) /\ Joined(TaskIds', Q!IdsOf(rest), <<k>>)
        /\ Alike(ReadIds(tasks'), ReadIds(rest))
    BY <2>1, <2>6, JoinedNothing DEF TaskIds
  <2>8. /\ DoneIds' = DoneIds /\ Joined(StoredIds, <<k>>, StoredIds')
        /\ Alike(TaskIds, Q!IdsOf(rest))
    BY <1>1, <1>5, <2>1, <2>2 DEF DoneIds, StoredIds, TaskIds
  <2>9. Numbers(<<k>>) = {k} \ {0} /\ InOrder(<<k>>)
    BY <2>3, SingleNumber
  <2>10. SameGiven
    <3>1. Numbers(TaskIds') = Numbers(TaskIds) \union Numbers(<<k>>)
      BY <2>7, <2>8 DEF Joined, Alike
    <3>2. Numbers(StoredIds) = Numbers(<<k>>) \union Numbers(StoredIds')
      BY <2>8 DEF Joined
    <3>3. Given' = Given
      BY <2>8, <3>1, <3>2 DEF Given
    <3>4. GivenInOrder => GivenInOrder'
      BY <2>7, <2>8, <2>9, <3>1, <3>2 DEF GivenInOrder, Joined, Alike, Below
    <3> QED
      BY <3>3, <3>4 DEF SameGiven
  <2>11. Keeps
    BY <1>5, <2>7, <2>10 DEF Keeps, Coming, Alike, peerVars
  <2>12. Aside
    BY <1>1, <1>9, <2>1, <2>2, <2>7 DEF Aside, TypeOK, QueueTypes, OneSided
  <2> QED
    BY <1>1, <2>1, <2>5, <2>11, <2>12 DEF rest
<1> QED
  BY <1>1, <1>7, <1>8, <1>9

LEMMA CompleteStep ==
    ASSUME TypeOK, OneSided, UNCHANGED <<acceptorVars, peerVars>>, Q!RunComplete
    PROVE  /\ Aside /\ Keeps /\ UNCHANGED <<conn, mqCloses>>
           /\ tasks # <<>> /\ Head(tasks).kind = "complete" /\ tasks' = Tail(tasks)
<1> DEFINE x == Head(tasks)
           k == x.msg.id
<1>1. /\ tasks # <<>> /\ x.kind = "complete"
      /\ received' = Append(received, x) /\ tasks' = Tail(tasks)
      /\ UNCHANGED <<conn, broken, mPtr, readers, data, mqOwner, issued, mqCloses>>
  BY DEF Q!RunComplete, Q!sending, Q!network, Q!queue
<1>2. tasks \in Seq(Task) /\ received \in Seq(Completing) /\ received \in Seq(Task)
  <2>1. Completing \subseteq Task
    BY DEF Task
  <2>2. received \in Seq(Completing)
    BY DEF TypeOK
  <2> QED
    BY <2>1, <2>2, SeqMonotonic DEF TypeOK
<1>3. x \in Completing /\ x \in Task
  BY <1>1, <1>2, TasksShrink, TaskKinds
<1>4. k \in Nat /\ Id(x) = k /\ ReadId(x) = 0
  BY <1>3, SilentKinds DEF Completing, Text
<1>5. /\ tasks' \in Seq(Task) /\ Joined(TaskIds, <<k>>, TaskIds')
      /\ Joined(Coming, <<0>>, Coming')
  BY <1>1, <1>2, <1>4, TasksShrink DEF TaskIds, Coming
<1>6. received' \in Seq(Completing) /\ Joined(DoneIds', DoneIds, <<k>>)
  BY <1>1, <1>2, <1>3, <1>4, TasksGrow, AppendProperties DEF DoneIds
<1> HIDE DEF x, k
<1>7. Numbers(<<k>>) = {k} \ {0} /\ InOrder(<<k>>) /\ StoredIds' = StoredIds
  BY <1>1, <1>4, SingleNumber DEF StoredIds
<1>8. SameGiven
  <2>1. Given' = Given
    BY <1>5, <1>6, <1>7 DEF Given, Joined
  <2>2. GivenInOrder => GivenInOrder'
    BY <1>5, <1>6, <1>7 DEF GivenInOrder, Joined, Below
  <2> QED
    BY <2>1, <2>2 DEF SameGiven
<1>9. Alike(Coming', Coming)
  BY <1>5, JoinedNothing DEF Alike
<1>10. Keeps
  BY <1>8, <1>9 DEF Keeps, peerVars
<1>11. Aside
  BY <1>1, <1>5, <1>6 DEF Aside, TypeOK, QueueTypes, OneSided
<1> QED
  BY <1>1, <1>10, <1>11 DEF x

LEMMA NoSends ==
    ASSUME TypeOK
    PROVE  ~Q!RunSent
<1> SUFFICES ASSUME Q!RunSent PROVE FALSE
  OBVIOUS
<1>1. tasks # <<>> /\ Head(tasks).kind = "sent" /\ tasks \in Seq(Task)
  BY DEF Q!RunSent, TypeOK
<1>2. Head(tasks) \in Task
  BY <1>1, TasksShrink
<1> QED
  BY <1>1, <1>2, TaskKinds

LEMMA PeerStep ==
    ASSUME TypeOK, OneSided, Attached, PeerSends
    PROVE  /\ TypeOK' /\ OneSided' /\ Attached' /\ Sends /\ conn = "open"
           /\ UNCHANGED <<acceptorVars, queueVars, inTime>> /\ ~Starting
           /\ \E x \in Task : tasks' = Append(tasks, x)
<1> DEFINE x == [kind |-> "read", msg |-> [id |-> peerSent', size |-> 1]]
<1>1. /\ session[Conn] = "open" /\ conn = "open" /\ peerSent' = peerSent + 1
      /\ tasks' = Append(tasks, x)
      /\ UNCHANGED <<acceptorVars, queueVars, inTime>>
  BY DEF PeerSends
<1>2. peerSent' \in Nat \ {0} /\ tasks \in Seq(Task)
  BY <1>1 DEF TypeOK
<1>3. x \in Reading /\ x.msg.id = peerSent'
  BY <1>2 DEF Reading
<1>4. x \in Task /\ Id(x) = 0 /\ ReadId(x) = peerSent'
  BY <1>3, SilentKinds
<1> HIDE DEF x
<1>5. /\ tasks' \in Seq(Task) /\ Joined(TaskIds', TaskIds, <<0>>)
      /\ Joined(Coming', Coming, <<peerSent'>>)
  BY <1>1, <1>2, <1>4, TasksGrow DEF TaskIds, Coming
<1>6. Alike(TaskIds', TaskIds) /\ DoneIds' = DoneIds /\ StoredIds' = StoredIds
  BY <1>1, <1>5, JoinedNothing DEF DoneIds, StoredIds, queueVars
<1>7. SameGiven
  <2>1. Given' = Given
    BY <1>6 DEF Given, Alike
  <2>2. GivenInOrder => GivenInOrder'
    BY <1>6 DEF GivenInOrder, Alike
  <2> QED
    BY <2>1, <2>2 DEF SameGiven
<1>8. Sends
  BY <1>1, <1>5, <1>7 DEF Sends
<1>9. TypeOK' /\ OneSided' /\ Attached'
  BY <1>1, <1>2, <1>5
     DEF TypeOK, OneSided, Attached, Has, acceptorVars, queueVars
<1> QED
  BY <1>1, <1>4, <1>8, <1>9 DEF Starting

LEMMA ReadStep ==
    ASSUME TypeOK, OneSided, Read
    PROVE  /\ Aside /\ UNCHANGED <<conn, mqCloses>>
           /\ tasks # <<>> /\ Head(tasks).kind = "read"
           /\ \/ tasks' = Tail(tasks)
              \/ \E x \in Task : tasks' = Append(Tail(tasks), x)
           /\ \E k \in Nat \ {0} :
                 \/ Arrives(k) /\ mPtr /\ conn = "open"
                 \/ Passes(k) /\ ~(mPtr /\ conn = "open")
<1> DEFINE m == Head(tasks).msg
           k == m.id
           rest == Tail(tasks)
           d == [ec |-> "ok", msg |-> m]
<1>1. tasks # <<>> /\ Head(tasks).kind = "read" /\ UNCHANGED <<acceptorVars, peerVars>>
  BY DEF Read, IsTask
<1>2. tasks \in Seq(Task) /\ QueueTypes
  BY AllTypes
<1>3. Head(tasks) \in Reading
  BY <1>1, <1>2, TasksShrink, TaskKinds
<1>4. /\ m \in [id : Nat \ {0}, size : Nat]
      /\ Id(Head(tasks)) = 0 /\ ReadId(Head(tasks)) = k
  BY <1>3, SilentKinds DEF Reading
<1>5. k \in Nat \ {0} /\ m \in Text /\ d \in Datum /\ d.msg.id = k
  BY <1>4 DEF Text, Datum
<1>6. /\ rest \in Seq(Task)
      /\ Joined(Q!IdsOf(tasks), <<0>>, Q!IdsOf(rest))
      /\ Joined(ReadIds(tasks), <<k>>, ReadIds(rest))
  BY <1>1, <1>2, <1>4, TasksShrink
<1>7. Alike(Q!IdsOf(rest), TaskIds)
  BY <1>6, JoinedNothing DEF Alike, TaskIds
<1>8. CASE Q!Deliver(m, rest)
  <2>1. /\ conn = "open" /\ mPtr /\ Q!Produce(d, rest)
        /\ UNCHANGED <<conn, broken, mPtr, mqOwner, issued, mqCloses, received>>
    BY <1>8 DEF Q!Deliver, Q!sending, Q!network
  <2> HIDE DEF d, k, rest, m
  <2>2. Takes(rest, k)
    BY <1>2, <1>5, <1>6, <2>1, ProduceTakes
  <2>3. /\ Given' = Given \union ({k} \ {0})
        /\ GivenInOrder /\ Below(Given, {k} \ {0}) => GivenInOrder'
    BY <1>5, <1>7, <2>1, <2>2, GivenMore
  <2>4. {k} \ {0} = {k}
    BY <1>5
  <2>5. Joined(Coming, <<k>>, Coming')
    BY <1>6, <2>2 DEF Coming, Takes, Joined, Alike
  <2>6. Arrives(k)
    BY <1>1, <2>3, <2>4, <2>5 DEF Arrives, peerVars
  <2>7. Aside
    BY <1>1, <1>2, <2>1, <2>2 DEF Aside, QueueTypes, Takes
  <2>8. tasks' = rest \/ \E x \in Task : tasks' = Append(rest, x)
    BY <2>2, SilentKinds DEF Takes
  <2> QED
    BY <1>1, <1>5, <2>1, <2>6, <2>7, <2>8 DEF rest
<1>9. CASE ~(mPtr /\ conn = "open") /\ tasks' = rest /\ UNCHANGED queueVars
  <2>1. TaskIds' = Q!IdsOf(rest) /\ Coming' = ReadIds(rest)
    BY <1>9 DEF TaskIds, Coming
  <2>2. DoneIds' = DoneIds /\ StoredIds' = StoredIds
    BY <1>9 DEF DoneIds, StoredIds, queueVars
  <2>3. SameGiven
    <3>1. Given' = Given
      BY <1>7, <2>1, <2>2 DEF Given, Alike
    <3>2. GivenInOrder => GivenInOrder'
      BY <1>7, <2>1, <2>2 DEF GivenInOrder, Alike
    <3> QED
      BY <3>1, <3>2 DEF SameGiven
  <2>4. Joined(Coming, <<k>>, Coming') /\ peerSent' = peerSent
    BY <1>1, <1>6, <2>1 DEF Coming, peerVars
  <2>5. Passes(k)
    BY <2>3, <2>4 DEF Passes
  <2>6. Aside
    BY <1>1, <1>2, <1>6, <1>9 DEF Aside, QueueTypes, OneSided, queueVars
  <2> QED
    BY <1>1, <1>5, <1>9, <2>5, <2>6 DEF queueVars
<1> QED
  BY <1>8, <1>9 DEF Read

LEMMA EndStep ==
    ASSUME TypeOK, OneSided, SessionEnds
    PROVE  Aside /\ Keeps /\ conn' = "closed" /\ mqCloses' = mqCloses
<1>1. /\ UNCHANGED <<acceptorVars, peerVars, mPtr, mqOwner, broken, issued, received,
                     mqCloses>>
      /\ conn' = "closed"
      /\ \/ Q!Produce(Q!CloseNotice, tasks)
         \/ UNCHANGED <<readers, data, tasks>>
  BY DEF SessionEnds, Q!Terminate, Q!sending, Q!queue
<1>2. tasks \in Seq(Task) /\ QueueTypes
  BY AllTypes
<1>3. CASE Q!Produce(Q!CloseNotice, tasks)
  <2>1. Takes(tasks, 0)
    BY <1>2, <1>3, ProduceTakes, CompletionTypes
  <2>2. Alike(Q!IdsOf(tasks), TaskIds) /\ 0 \in Nat
    BY AlikeItself DEF TaskIds
  <2>3. /\ Given' = Given \union ({0} \ {0})
        /\ GivenInOrder /\ Below(Given, {0} \ {0}) => GivenInOrder'
    BY <1>1, <2>1, <2>2, GivenMore
  <2>4. SameGiven
    BY <2>3 DEF SameGiven, Below
  <2>5. Keeps
    BY <1>1, <2>1, <2>4 DEF Keeps, Takes, Coming, peerVars
  <2>6. Aside
    BY <1>1, <1>2, <2>1 DEF Aside, QueueTypes, Takes
  <2> QED
    BY <1>1, <2>5, <2>6
<1>4. CASE UNCHANGED <<readers, data, tasks>>
  <2>1. QuietTasks
    BY <1>2, <1>4, QuietPost
  <2> QED
    BY <1>1, <1>2, <1>4, <2>1, QuietKeeps
       DEF Aside, QueueTypes, OneSided, peerVars
<1> QED
  BY <1>1, <1>3, <1>4

LEMMA FailStep ==
    ASSUME TypeOK, OneSided, Attached, TransportFails
    PROVE  /\ TypeOK' /\ OneSided' /\ Attached' /\ Keeps
           /\ UNCHANGED <<conn, mqCloses, mPtr, tasks, waiting, session, inTime,
                          closes, peerSent>>
           /\ broken'
<1>1. /\ transportEc' = transportEc \union {Conn} /\ broken' = TRUE
      /\ UNCHANGED <<session, waiting, surplus, tasks, accepts, closes, mq, conn, mPtr,
                     readers, data, mqOwner, issued, mqCloses, received, peerVars>>
  BY DEF TransportFails, A!TransportFails, Q!TransportFails, Q!sending, Q!queue, A!queue
<1>2. QuietTasks
  BY <1>1, QuietPost, AllTypes
<1>3. Keeps
  BY <1>1, <1>2, QuietKeeps DEF peerVars
<1>4. TypeOK' /\ OneSided' /\ Attached'
  BY <1>1 DEF TypeOK, OneSided, Attached, Has, peerVars
<1> QED
  BY <1>1, <1>3, <1>4 DEF peerVars

LEMMA AheadIsNumber ==
    ASSUME tasks \in Seq(Task)
    PROVE  /\ IsFiniteSet({i \in DOMAIN tasks : tasks[i].kind = "produce"})
           /\ Ahead \in Nat
<1>1. DOMAIN tasks = 1..Len(tasks) /\ Len(tasks) \in Nat
  BY LenProperties
<1>2. IsFiniteSet(DOMAIN tasks)
  BY <1>1, FS_Interval
<1> QED
  BY <1>2, FS_Subset, FS_CardinalityType DEF Ahead

LEMMA HandshakeStep ==
    ASSUME TypeOK, OneSided, Attached, NEW c \in Connections, Handshake(c)
    PROVE  /\ TypeOK' /\ OneSided' /\ Attached' /\ Keeps
           /\ UNCHANGED <<queueVars, transportEc, waiting, closes, peerSent>>
           /\ tasks' = tasks \/ \E x \in Task : tasks' = Append(tasks, x)
           /\ \/ inTime' = inTime /\ (Starting' <=> Starting)
              \/ /\ c = Conn /\ Starting /\ ~Starting'
                 /\ tasks' = Append(tasks, [kind |-> "produce", con |-> Conn])
                 /\ inTime' = (Len(waiting) > Ahead)
<1> DEFINE x == [kind |-> "produce", con |-> c]
<1>1. UNCHANGED <<queueVars, peerSent, transportEc, waiting, surplus, closes, accepts, mq>>
  BY DEF Handshake, A!Connect, A!HandshakeEnds, A!queue
<1>2. \/ /\ session[c] = "none" /\ session' = [session EXCEPT ![c] = "connecting"]
         /\ tasks' = tasks /\ inTime' = inTime
      \/ /\ session[c] = "connecting" /\ session' = [session EXCEPT ![c] = "open"]
         /\ tasks' = Append(tasks, x)
         /\ inTime' = IF c = Conn THEN Len(waiting) > Ahead ELSE inTime
  BY DEF Handshake, A!Connect, A!HandshakeEnds
<1>3. x \in Posting
  BY DEF Posting
<1>4. Silent(x) /\ x \in Task
  BY <1>3, SilentKinds DEF Silent
<1>5. session \in [Connections ->
                     {"none", "connecting", "open", "failed", "closed"}]
  BY DEF TypeOK
<1>6. session' \in [Connections ->
                      {"none", "connecting", "open", "failed", "closed"}]
  BY <1>2, <1>5
<1>7. QuietTasks
  <2>1. tasks \in Seq(Task)
    BY DEF TypeOK
  <2> HIDE DEF x
  <2> QED
    BY <1>2, <1>4, <2>1, QuietPost
<1>8. Keeps
  BY <1>1, <1>7, QuietKeeps DEF queueVars
<1>9. inTime' \in BOOLEAN
  <2>1. inTime \in BOOLEAN
    BY DEF TypeOK
  <2>2. (Len(waiting) > Ahead) \in BOOLEAN
    BY AheadIsNumber DEF TypeOK
  <2> QED
    BY <1>2, <2>1, <2>2
<1>10. TypeOK' /\ OneSided' /\ Attached'
  BY <1>1, <1>6, <1>7, <1>9
     DEF TypeOK, QuietTasks, OneSided, Attached, Has, queueVars
<1>11. \/ inTime' = inTime /\ (Starting' <=> Starting)
       \/ /\ c = Conn /\ Starting /\ ~Starting' /\ tasks' = Append(tasks, x)
          /\ inTime' = (Len(waiting) > Ahead)
  <2>1. CASE c = Conn
    BY <1>2, <1>5, <2>1 DEF Starting
  <2>2. CASE c # Conn
    BY <1>2, <1>5, <2>2, Bounds DEF Starting
  <2> QED
    BY <2>1, <2>2
<1>12. tasks' = tasks \/ \E y \in Task : tasks' = Append(tasks, y)
  BY <1>2, <1>4
<1> QED
  BY <1>1, <1>8, <1>10, <1>11, <1>12

-----------------------------------------------------------------------------
(* Conn is still in the queue of the io_service, ahead of everything read    *)
(* from it, and there is an accept for it and for each connection before it. *)
Produced(s, k) == {i \in 1..k : s[i].kind = "produce"}
AwaitedIn(s, m) ==
    \E k \in DOMAIN s :
        /\ s[k].kind = "produce" /\ s[k].con = Conn
        /\ \A i \in DOMAIN s : s[i].kind = "read" => i > k
        /\ Cardinality(Produced(s, k)) <= m
Awaited == AwaitedIn(tasks, Len(waiting))

LEMMA ProducedFinite ==
    ASSUME NEW s, NEW k \in Nat
    PROVE  IsFiniteSet(Produced(s, k)) /\ Cardinality(Produced(s, k)) \in Nat
<1>1. IsFiniteSet(1..k)
  BY FS_Interval
<1> QED
  BY <1>1, FS_Subset, FS_CardinalityType DEF Produced

LEMMA AwaitedLonger ==
    ASSUME NEW s \in Seq(Task), NEW t \in Seq(Task), NEW m \in Nat, NEW n \in Nat,
           m <= n, AwaitedIn(s, m)
    PROVE  AwaitedIn(s \o t, n)
<1> DEFINE u == s \o t
<1>1. /\ u \in Seq(Task) /\ Len(u) = Len(s) + Len(t)
      /\ \A i \in 1..(Len(s) + Len(t)) :
            u[i] = IF i <= Len(s) THEN s[i] ELSE t[i - Len(s)]
  BY ConcatProperties
<1>2. /\ DOMAIN s = 1..Len(s) /\ Len(s) \in Nat /\ Len(t) \in Nat
      /\ DOMAIN u = 1..(Len(s) + Len(t))
  BY <1>1, LenProperties
<1>3. PICK k \in DOMAIN s :
             /\ s[k].kind = "produce" /\ s[k].con = Conn
             /\ \A i \in DOMAIN s : s[i].kind = "read" => i > k
             /\ Cardinality(Produced(s, k)) <= m
  BY DEF AwaitedIn
<1>4. k \in Nat /\ k <= Len(s) /\ k \in DOMAIN u
  BY <1>2, <1>3
<1> HIDE DEF u
<1>5. \A i \in 1..Len(s) : i \in DOMAIN u /\ u[i] = s[i]
  BY <1>1, <1>2
<1>6. \A i \in DOMAIN u : u[i].kind = "read" => i > k
  <2> SUFFICES ASSUME NEW i \in DOMAIN u, u[i].kind = "read" PROVE i > k
    OBVIOUS
  <2>1. CASE i \in 1..Len(s)
    BY <1>2, <1>3, <1>5, <2>1
  <2>2. CASE i \notin 1..Len(s)
    BY <1>2, <1>4, <2>2
  <2> QED
    BY <2>1, <2>2
<1>7. Produced(u, k) = Produced(s, k)
  <2>1. \A i \in 1..k : u[i] = s[i]
    BY <1>2, <1>4, <1>5
  <2> QED
    BY <2>1 DEF Produced
<1>8. Cardinality(Produced(u, k)) <= n
  BY <1>3, <1>4, <1>7, ProducedFinite
<1>9. u[k].kind = "produce" /\ u[k].con = Conn
  BY <1>2, <1>3, <1>5
<1> QED
  BY <1>4, <1>6, <1>8, <1>9 DEF AwaitedIn, u

LEMMA AwaitedPost ==
    ASSUME NEW s \in Seq(Task), NEW x \in Task, NEW m \in Nat, AwaitedIn(s, m)
    PROVE  AwaitedIn(Append(s, x), m)
<1>1. Append(s, x) = s \o <<x>> /\ <<x>> \in Seq(Task)
  BY AppendIsConcat
<1>2. m <= m
  OBVIOUS
<1>3. AwaitedIn(s \o <<x>>, m)
  BY <1>1, <1>2, AwaitedLonger
<1> QED
  BY <1>1, <1>3, Zenon

(* The task in front runs: it is nothing read, and an accept fewer is needed *)
(* when it is a connection.                                                  *)
LEMMA AwaitedRun ==
    ASSUME NEW s \in Seq(Task), s # <<>>, NEW m \in Nat, AwaitedIn(s, m)
    PROVE  /\ m # 0 /\ Head(s).kind # "read"
           /\ Head(s).kind # "produce" => AwaitedIn(Tail(s), m)
           /\ Head(s).kind = "produce" =>
                 Head(s).con = Conn \/ AwaitedIn(Tail(s), m - 1)
<1> DEFINE u == Tail(s)
<1>1. /\ DOMAIN s = 1..Len(s) /\ Len(s) \in Nat /\ Len(s) > 0 /\ Head(s) = s[1]
      /\ u \in Seq(Task) /\ Len(u) = Len(s) - 1
      /\ \A i \in 1..(Len(s) - 1) : u[i] = s[i + 1]
  BY HeadTailProperties, LenProperties, EmptySeq
<1>2. DOMAIN u = 1..(Len(s) - 1)
  BY <1>1, LenProperties
<1>3. PICK k \in DOMAIN s :
             /\ s[k].kind = "produce" /\ s[k].con = Conn
             /\ \A i \in DOMAIN s : s[i].kind = "read" => i > k
             /\ Cardinality(Produced(s, k)) <= m
  BY DEF AwaitedIn
<1>4. k \in Nat /\ k >= 1 /\ k <= Len(s) /\ 1 \in DOMAIN s
  BY <1>1, <1>3
<1>5. Head(s).kind # "read"
  <2>1. s[1].kind = "read" => 1 > k
    BY <1>3, <1>4
  <2> QED
    BY <1>1, <1>4, <2>1
<1> DEFINE S == Produced(s, k)
<1>6. IsFiniteSet(S) /\ Cardinality(S) \in Nat /\ k \in S
  <2>1. IsFiniteSet(S) /\ Cardinality(S) \in Nat
    BY <1>4, ProducedFinite
  <2>2. k \in S
    BY <1>3, <1>4 DEF Produced
  <2> QED
    BY <2>1, <2>2
<1>7. Cardinality(S) # 0 /\ m # 0
  BY <1>3, <1>6, FS_EmptySet
<1> HIDE DEF u
<1>8. ASSUME k # 1 PROVE AwaitedIn(u, IF Head(s).kind = "produce" THEN m - 1 ELSE m)
  <2> DEFINE j == k - 1
             T == Produced(u, j)
             f == [i \in T |-> i + 1]
  <2>1. j \in DOMAIN u /\ j \in Nat /\ u[j] = s[k]
    BY <1>1, <1>2, <1>4, <1>8
  <2>2. \A i \in DOMAIN u : u[i].kind = "read" => i > j
    <3> SUFFICES ASSUME NEW i \in DOMAIN u, u[i].kind = "read" PROVE i > j
      OBVIOUS
    <3>1. i \in Nat /\ i + 1 \in DOMAIN s /\ s[i + 1].kind = "read"
      BY <1>1, <1>2
    <3>2. i + 1 > k
      BY <1>3, <3>1
    <3> QED
      BY <1>4, <3>1, <3>2
  <2>3. \A i \in T : i \in Nat /\ i + 1 \in S /\ i + 1 # 1
    BY <1>1, <1>4 DEF Produced
  <2> HIDE DEF T
  <2>4. f \in Injection(T, S \ {1})
    <3>1. f \in [T -> S \ {1}]
      BY <2>3
    <3>2. \A a, b \in T : f[a] = f[b] => a = b
      BY <2>3
    <3> QED
      BY <3>1, <3>2 DEF Injection, IsInjective
  <2>5. /\ IsFiniteSet(S \ {1})
        /\ Cardinality(S \ {1}) = IF 1 \in S THEN Cardinality(S) - 1
                                            ELSE Cardinality(S)
    BY <1>6, FS_RemoveElement
  <2>6. Cardinality(T) <= Cardinality(S \ {1})
    BY <2>4, <2>5, FS_Injection
  <2>7. 1 \in S <=> Head(s).kind = "produce"
    BY <1>1, <1>4 DEF Produced
  <2>8. Cardinality(T) \in Nat
    BY <2>1, ProducedFinite DEF T
  <2> HIDE DEF S
  <2>9. Cardinality(T) <= IF Head(s).kind = "produce" THEN m - 1 ELSE m
    <3>1. Cardinality(S) <= m
      BY <1>3 DEF S
    <3>2. CASE 1 \in S
      BY <1>6, <2>5, <2>6, <2>7, <2>8, <3>1, <3>2
    <3>3. CASE 1 \notin S
      BY <1>6, <2>5, <2>6, <2>7, <2>8, <3>1, <3>3
    <3> QED
      BY <3>2, <3>3
  <2> QED
    BY <1>3, <2>1, <2>2, <2>9 DEF AwaitedIn, T
<1>9. k = 1 => Head(s).kind = "produce" /\ Head(s).con = Conn
  BY <1>1, <1>3
<1> QED
  BY <1>5, <1>7, <1>8, <1>9 DEF u

(* The handshake of Conn is over while an accept waits for it, and nothing   *)
(* has been read.                                                            *)
LEMMA AwaitedFirst ==
    ASSUME tasks \in Seq(Task), waiting \in Seq(Accept),
           Numbers(Coming) = {}, Len(waiting) > Ahead
    PROVE  AwaitedIn(Append(tasks, [kind |-> "produce", con |-> Conn]), Len(waiting))
<1> DEFINE x == [kind |-> "produce", con |-> Conn]
           u == Append(tasks, x)
           k == Len(tasks) + 1
           B == {i \in DOMAIN tasks : tasks[i].kind = "produce"}
<1>1. DOMAIN tasks = 1..Len(tasks) /\ Len(tasks) \in Nat /\ Len(waiting) \in Nat
  BY LenProperties
<1>2. x \in Task
  BY Bounds DEF Task, Posting
<1>3. x.kind = "produce" /\ x.con = Conn
  OBVIOUS
<1> HIDE DEF x
<1>4. /\ u \in Seq(Task) /\ Len(u) = Len(tasks) + 1
      /\ \A i \in 1..Len(tasks) : u[i] = tasks[i]
      /\ u[Len(tasks) + 1] = x
  BY <1>2, AppendProperties
<1>5. DOMAIN u = 1..(Len(tasks) + 1)
  BY <1>4, LenProperties
<1> HIDE DEF u
<1>6. \A i \in DOMAIN u : u[i].kind # "read"
  <2>1. ASSUME NEW i \in DOMAIN tasks PROVE tasks[i].kind # "read"
    <3> SUFFICES ASSUME tasks[i].kind = "read" PROVE FALSE
      OBVIOUS
    <3>1. tasks[i] \in Task
      OBVIOUS
    <3>2. tasks[i].msg.id # 0
      BY <3>1, TaskKinds DEF Reading
    <3>3. i \in DOMAIN Coming /\ Coming[i] = tasks[i].msg.id
      BY DEF Coming, ReadIds, ReadId
    <3> QED
      BY <3>2, <3>3 DEF Numbers, ToSet
  <2>2. ASSUME NEW i \in DOMAIN u PROVE i \in DOMAIN tasks \/ i = Len(tasks) + 1
    BY <1>1, <1>5
  <2> QED
    BY <1>1, <1>3, <1>4, <2>1, <2>2
<1>7. Produced(u, k) = B \union {k}
  <2>1. ASSUME NEW i PROVE i \in Produced(u, k) <=> i \in B \union {k}
    <3>1. CASE i \in DOMAIN tasks
      BY <1>1, <1>4, <3>1 DEF Produced
    <3>2. CASE i \notin DOMAIN tasks
      BY <1>1, <1>3, <1>4, <3>2 DEF Produced
    <3> QED
      BY <3>1, <3>2
  <2> QED
    BY <2>1
<1>8. IsFiniteSet(B) /\ Cardinality(B) = Ahead /\ Ahead \in Nat /\ k \notin B
  BY <1>1, AheadIsNumber DEF Ahead
<1> HIDE DEF B
<1>9. Cardinality(Produced(u, k)) = Ahead + 1
  BY <1>7, <1>8, FS_AddElement
<1>10. Cardinality(Produced(u, k)) <= Len(waiting)
  BY <1>1, <1>8, <1>9
<1>11. k \in DOMAIN u /\ u[k].kind = "produce" /\ u[k].con = Conn
  BY <1>1, <1>3, <1>4, <1>5
<1>12. AwaitedIn(u, Len(waiting))
  BY <1>6, <1>10, <1>11 DEF AwaitedIn
<1> QED
  BY <1>12 DEF u, x

-----------------------------------------------------------------------------
(* While the first message is not to be missed, the connection is attached,  *)
(* or will be before anything is read from it.                               *)
Waited == Prompt /\ conn = "open" => mPtr \/ Awaited
Fresh == Starting => peerSent = 0 /\ ~inTime

Inv == TypeOK /\ OneSided /\ Attached /\ Messages /\ Fresh /\ Waited

LEMMA AwaitedLater ==
    ASSUME TypeOK, Awaited, waiting' = waiting,
           tasks' = tasks \/ \E x \in Task : tasks' = Append(tasks, x)
    PROVE  Awaited'
<1>1. tasks \in Seq(Task) /\ Len(waiting) \in Nat
  BY LenProperties DEF TypeOK
<1>2. AwaitedIn(tasks', Len(waiting))
  BY <1>1, AwaitedPost DEF Awaited
<1> QED
  BY <1>2 DEF Awaited

(* A task other than a connection's runs, and may post another. *)
LEMMA AwaitedStill ==
    ASSUME TypeOK, Awaited, waiting' = waiting, tasks # <<>>,
           Head(tasks).kind # "produce",
           tasks' = Tail(tasks) \/ \E x \in Task : tasks' = Append(Tail(tasks), x)
    PROVE  Awaited' /\ Head(tasks).kind # "read"
<1>1. tasks \in Seq(Task) /\ Len(waiting) \in Nat /\ Tail(tasks) \in Seq(Task)
  BY LenProperties, HeadTailProperties DEF TypeOK
<1>2. AwaitedIn(Tail(tasks), Len(waiting)) /\ Head(tasks).kind # "read"
  BY <1>1, AwaitedRun DEF Awaited
<1>3. AwaitedIn(tasks', Len(waiting))
  BY <1>1, <1>2, AwaitedPost
<1> QED
  BY <1>2, <1>3 DEF Awaited

LEMMA ProduceAwaited ==
    ASSUME TypeOK, Awaited, ~broken, A!RunProduce
    PROVE  Has(mq') \/ Awaited'
<1> DEFINE c == Head(tasks).con
           a == Head(waiting)
           d == [con |-> c, ec |-> IF c \in transportEc THEN "transport" ELSE "ok"]
<1>1. /\ tasks # <<>> /\ Head(tasks).kind = "produce" /\ tasks' = Tail(tasks)
      /\ A!ProduceTo(c, Tail(tasks))
  BY ProduceMoves DEF A!RunProduce
<1>2. /\ tasks \in Seq(Task) /\ Len(waiting) \in Nat /\ waiting \in Seq(Accept)
      /\ mq \in [Accept -> Connections \union {"none"}]
      /\ Conn \notin transportEc
  BY LenProperties DEF TypeOK
<1>3. Len(waiting) # 0 /\ (c = Conn \/ AwaitedIn(Tail(tasks), Len(waiting) - 1))
  BY <1>1, <1>2, AwaitedRun DEF Awaited
<1>4. waiting # <<>>
  BY <1>3
<1>5. /\ A!Give(a, d) /\ waiting' = Tail(waiting)
  BY <1>1, <1>4 DEF A!ProduceTo
<1>6. a \in Accept /\ Len(waiting') = Len(waiting) - 1
  BY <1>2, <1>4, <1>5, HeadTailProperties
<1>7. CASE c = Conn
  <2>1. d.ec = "ok" /\ d.con = Conn
    BY <1>2, <1>7
  <2> HIDE DEF a, d
  <2>2. mq' = [mq EXCEPT ![a] = Conn]
    BY <1>5, <2>1 DEF A!Give
  <2>3. a \in DOMAIN mq' /\ mq'[a] = Conn
    BY <1>2, <1>6, <2>2
  <2> QED
    BY <2>3 DEF Has, Range
<1>8. CASE c # Conn
  BY <1>1, <1>3, <1>6, <1>8 DEF Awaited
<1> QED
  BY <1>7, <1>8

LEMMA AcceptorAwaited ==
    ASSUME TypeOK, Awaited, ~broken, Attached', closes' = 0,
           Listen \/ AcceptorRuns \/ \E here \in BOOLEAN : AcceptorCalled(here)
    PROVE  mPtr' \/ Awaited'
<1>1. tasks \in Seq(Task) /\ Len(waiting) \in Nat
  BY LenProperties DEF TypeOK
<1>2. CASE Listen
  BY <1>2, AwaitedLater DEF Listen, A!Listen, A!queue
<1>3. ASSUME NEW here, A!AsyncAccept(here) PROVE Awaited'
  <2>1. /\ Len(waiting) <= Len(waiting') /\ waiting' \in Seq(Accept)
        /\ tasks' = tasks \/ \E t \in Seq(Calling) : tasks' = tasks \o t
    BY <1>3, AcceptMoves DEF AcceptorMoves, AcceptorTypes
  <2>2. Len(waiting') \in Nat /\ Calling \subseteq Task
    BY <2>1, LenProperties DEF Task
  <2>3. CASE tasks' = tasks
    <3>1. <<>> \in Seq(Task) /\ tasks \o <<>> = tasks
      BY <1>1, ConcatEmptySeq
    <3>2. AwaitedIn(tasks \o <<>>, Len(waiting'))
      BY <1>1, <2>1, <2>2, <3>1, AwaitedLonger DEF Awaited
    <3>3. AwaitedIn(tasks', Len(waiting'))
      BY <2>3, <3>1, <3>2, Zenon
    <3> QED
      BY <3>3 DEF Awaited
  <2>4. ASSUME NEW t \in Seq(Calling), tasks' = tasks \o t PROVE Awaited'
    <3>1. t \in Seq(Task)
      BY <2>2, SeqMonotonic
    <3>2. AwaitedIn(tasks \o t, Len(waiting'))
      BY <1>1, <2>1, <2>2, <3>1, AwaitedLonger DEF Awaited
    <3>3. AwaitedIn(tasks', Len(waiting'))
      BY <2>4, <3>2, Zenon
    <3> QED
      BY <3>3 DEF Awaited
  <2> QED
    BY <2>1, <2>3, <2>4
<1>4. ASSUME NEW here, A!Close(here) PROVE FALSE
  BY <1>4, CloseMoves
<1>5. CASE A!RunProduce
  BY <1>5, ProduceAwaited DEF Attached, Has
<1>6. CASE A!RunHandler
  <2>1. /\ tasks # <<>> /\ Head(tasks).kind = "handler" /\ tasks' = Tail(tasks)
        /\ waiting' = waiting
    BY <1>6 DEF A!RunHandler, A!queue
  <2> QED
    BY <2>1, AwaitedStill
<1> QED
  BY <1>2, <1>3, <1>4, <1>5, <1>6 DEF AcceptorRuns, AcceptorCalled, A!RunTask

-----------------------------------------------------------------------------
LEMMA InvInit == Init => Inv
<1> SUFFICES ASSUME Init PROVE Inv
  OBVIOUS
<1>1. /\ tasks = <<>> /\ received = <<>> /\ readers = <<>> /\ data = <<>>
      /\ waiting = <<>> /\ surplus = <<>> /\ mq = [a \in Accept |-> "none"]
      /\ session = [c \in Connections |-> "none"] /\ transportEc = {}
      /\ accepts = 0 /\ closes = 0 /\ issued = 0 /\ mqCloses = 0
      /\ peerSent = 0 /\ mPtr = FALSE /\ inTime = FALSE /\ mqOwner = TRUE
      /\ broken = FALSE
  BY DEF Init, A!Init, Q!Init, A!Accept, Accept, A!None
<1>2. TypeOK
  <2>1. \A S : <<>> \in Seq(S)
    BY EmptySeq
  <2>2. tasks \in Seq(Task) /\ received \in Seq(Completing)
    BY <1>1, <2>1, Zenon
  <2>3. /\ readers \in Seq(Nat) /\ data \in Seq(Datum)
        /\ waiting \in Seq(Accept) /\ surplus \in Seq(Offer)
    BY <1>1, <2>1, Zenon
  <2>4. mq \in [Accept -> Connections \union {"none"}]
    BY <1>1
  <2>5. session \in [Connections ->
                        {"none", "connecting", "open", "failed", "closed"}]
    BY <1>1
  <2>6. /\ accepts \in Nat /\ closes \in Nat /\ issued \in Nat
        /\ mqCloses \in Nat /\ peerSent \in Nat
    BY <1>1
  <2>7. /\ {mPtr, inTime} \subseteq BOOLEAN /\ broken \in BOOLEAN
        /\ (broken <=> Conn \in transportEc)
    BY <1>1
  <2> QED
    BY <1>1, <2>2, <2>3, <2>4, <2>5, <2>6, <2>7 DEF TypeOK
<1>3. OneSided /\ Fresh /\ Waited
  BY <1>1 DEF OneSided, Fresh, Waited, Prompt
<1>4. Attached
  BY <1>1, Bounds DEF Attached, Has, Range
<1>5. DoneIds = <<>> /\ TaskIds = <<>> /\ StoredIds = <<>> /\ Coming = <<>>
  BY <1>1 DEF DoneIds, TaskIds, StoredIds, Coming, Q!IdsOf, DataIds, ReadIds
<1>6. Given = {} /\ GivenInOrder /\ InOrder(Coming) /\ Numbers(Coming) = {}
  BY <1>5, NoNumber DEF Given, GivenInOrder, Below
<1>7. 0 \in 0..0 /\ (0 + 1)..0 = {} /\ 0 <= 0 /\ ~(0 < 0)
  OBVIOUS
<1>8. Flow
  BY <1>1, <1>6, <1>7 DEF Flow, Below
<1>9. NoGap
  BY <1>1, <1>6, <1>7 DEF NoGap
<1>10. Unattached /\ FromTheFirst
  BY <1>1, <1>6 DEF Unattached, FromTheFirst, Prompt
<1> QED
  BY <1>2, <1>3, <1>4, <1>8, <1>9, <1>10 DEF Inv, Messages

(* A step of the queue, the peer's reading or the connection, given what it  *)
(* does to the messages.                                                     *)
LEMMA AsideKept ==
    ASSUME Inv, Aside, conn' = "open" => conn = "open", mqCloses' = 0 => mqCloses = 0
    PROVE  /\ TypeOK' /\ OneSided' /\ Attached' /\ Fresh' /\ Later
           /\ Prompt' => Prompt
           /\ UNCHANGED <<mPtr, waiting, peerSent>>
<1>1. /\ TypeOK' /\ OneSided' /\ Attached' /\ (Starting' <=> Starting)
      /\ UNCHANGED <<mPtr, broken, inTime, closes, waiting, peerSent>>
  BY AsideTypes DEF Inv
<1> QED
  BY <1>1 DEF Later, Prompt, Fresh, Inv

LEMMA InvStep == Inv /\ [Next]_vars => Inv'
<1> SUFFICES ASSUME Inv, [Next]_vars PROVE Inv'
  OBVIOUS
<1>1. TypeOK /\ OneSided /\ Attached /\ Messages /\ Fresh /\ Waited /\ peerSent \in Nat
  BY DEF Inv, TypeOK
<1>2. 1 \in Nat \ {0}
  OBVIOUS
<1>3. CASE Listen \/ AcceptorRuns \/ \E here \in BOOLEAN : AcceptorCalled(here)
  <2>1. /\ TypeOK' /\ OneSided' /\ Attached' /\ Keeps /\ Later
        /\ UNCHANGED <<conn, broken, mqCloses, inTime, transportEc>>
        /\ Starting' <=> Starting
        /\ closes' = 0 => closes = 0
        /\ mPtr => mPtr'
    BY <1>1, <1>3, AcceptorStep
  <2>2. Messages'
    BY <1>1, <1>2, <2>1, MessagesKept
  <2>3. Waited'
    BY <1>1, <1>3, <2>1, AcceptorAwaited DEF Waited, Prompt
  <2>4. Fresh'
    BY <1>1, <2>1 DEF Fresh, Keeps
  <2> QED
    BY <2>1, <2>2, <2>3, <2>4 DEF Inv
<1>4. ASSUME NEW c \in Connections, Handshake(c) PROVE Inv'
  <2>1. /\ TypeOK' /\ OneSided' /\ Attached' /\ Keeps
        /\ UNCHANGED <<queueVars, transportEc, waiting, closes, peerSent>>
        /\ tasks' = tasks \/ \E x \in Task : tasks' = Append(tasks, x)
    BY <1>1, <1>4, HandshakeStep
  <2>2. \/ inTime' = inTime /\ (Starting' <=> Starting)
        \/ /\ Starting /\ ~Starting'
           /\ tasks' = Append(tasks, [kind |-> "produce", con |-> Conn])
           /\ inTime' = (Len(waiting) > Ahead)
    BY <1>1, <1>4, HandshakeStep
  <2>3. Later
    BY <1>1, <2>1, <2>2 DEF Later, Prompt, Fresh, queueVars
  <2>4. Messages'
    BY <1>1, <1>2, <2>1, <2>3, MessagesKept
  <2>5. Fresh'
    BY <1>1, <2>1, <2>2 DEF Fresh
  <2>6. Waited'
    <3>1. CASE inTime' = inTime
      BY <1>1, <2>1, <3>1, AwaitedLater DEF Waited, Prompt, queueVars
    <3>2. CASE /\ Starting /\ inTime'
               /\ tasks' = Append(tasks, [kind |-> "produce", con |-> Conn])
               /\ inTime' = (Len(waiting) > Ahead)
      <4>1. Numbers(Coming) = {}
        <5>1. peerSent = 0 /\ Flow
          BY <1>1, <3>2 DEF Fresh, Messages
        <5> QED
          BY <5>1 DEF Flow
      <4>2. AwaitedIn(tasks', Len(waiting))
        BY <1>1, <3>2, <4>1, AwaitedFirst DEF TypeOK
      <4> QED
        BY <2>1, <4>2 DEF Waited, Awaited
    <3>3. CASE ~inTime'
      BY <3>3 DEF Waited, Prompt
    <3> QED
      BY <2>2, <3>1, <3>2, <3>3
  <2> QED
    BY <2>1, <2>4, <2>5, <2>6 DEF Inv
<1>5. CASE TransportFails
  <2>1. /\ TypeOK' /\ OneSided' /\ Attached' /\ Keeps
        /\ UNCHANGED <<conn, mqCloses, mPtr, tasks, waiting, session, inTime, closes,
                       peerSent>>
        /\ broken'
    BY <1>1, <1>5, FailStep
  <2>2. Later /\ Fresh' /\ Waited'
    BY <1>1, <2>1 DEF Later, Prompt, Fresh, Starting, Waited
  <2>3. Messages'
    BY <1>1, <1>2, <2>1, <2>2, MessagesKept
  <2> QED
    BY <2>1, <2>2, <2>3 DEF Inv
<1>6. CASE PeerSends
  <2>1. /\ TypeOK' /\ OneSided' /\ Attached' /\ Sends /\ conn = "open"
        /\ UNCHANGED <<acceptorVars, queueVars, inTime>> /\ ~Starting
        /\ \E x \in Task : tasks' = Append(tasks, x)
    BY <1>1, <1>6, PeerStep
  <2>2. Later /\ Fresh'
    BY <2>1 DEF Later, Prompt, Fresh, Starting, acceptorVars, queueVars
  <2>3. Messages'
    BY <1>1, <1>2, <2>1, <2>2, MessagesKept
  <2>4. Waited'
    BY <1>1, <2>1, AwaitedLater DEF Waited, Prompt, acceptorVars, queueVars
  <2> QED
    BY <2>1, <2>2, <2>3, <2>4 DEF Inv
<1>7. CASE UNCHANGED <<acceptorVars, peerVars>> /\ Q!AsyncReceive
  <2>1. /\ Aside /\ Keeps /\ UNCHANGED <<conn, mqCloses>>
        /\ \E x \in Task : tasks' = Append(tasks, x)
    BY <1>1, <1>7, AskStep DEF Silent
  <2>2. /\ TypeOK' /\ OneSided' /\ Attached' /\ Fresh' /\ Later
        /\ Prompt' => Prompt
        /\ UNCHANGED <<mPtr, waiting, peerSent>>
    BY <2>1, AsideKept
  <2>3. Messages'
    BY <1>1, <1>2, <2>1, <2>2, MessagesKept
  <2>4. Waited'
    BY <1>1, <2>1, <2>2, AwaitedLater DEF Waited
  <2> QED
    BY <2>2, <2>3, <2>4 DEF Inv
<1>8. CASE UNCHANGED <<acceptorVars, peerVars>> /\ Q!Close
  <2>1. Aside /\ Drains /\ mqCloses' # 0 /\ (conn' = "open" => conn = "open")
    BY <1>1, <1>8, QueueCloseStep
  <2>2. /\ TypeOK' /\ OneSided' /\ Attached' /\ Fresh' /\ Later
    BY <2>1, AsideKept
  <2>3. Messages'
    BY <1>1, <1>2, <2>1, <2>2, MessagesKept
  <2>4. Waited'
    BY <2>1 DEF Waited, Prompt
  <2> QED
    BY <2>2, <2>3, <2>4 DEF Inv
<1>9. CASE UNCHANGED <<acceptorVars, peerVars>> /\ (Q!RunReceive \/ Q!RunComplete)
  <2>1. /\ Aside /\ Keeps /\ UNCHANGED <<conn, mqCloses>>
        /\ tasks # <<>> /\ Head(tasks).kind # "produce"
        /\ tasks' = Tail(tasks) \/ \E x \in Task : tasks' = Append(Tail(tasks), x)
    BY <1>1, <1>9, ReceiveStep, CompleteStep
  <2>2. /\ TypeOK' /\ OneSided' /\ Attached' /\ Fresh' /\ Later
        /\ Prompt' => Prompt
        /\ UNCHANGED <<mPtr, waiting, peerSent>>
    BY <2>1, AsideKept
  <2>3. Messages'
    BY <1>1, <1>2, <2>1, <2>2, MessagesKept
  <2>4. Waited'
    BY <1>1, <2>1, <2>2, AwaitedStill DEF Waited
  <2> QED
    BY <2>2, <2>3, <2>4 DEF Inv
<1>10. CASE Read
  <2>1. /\ Aside /\ UNCHANGED <<conn, mqCloses>>
        /\ tasks # <<>> /\ Head(tasks).kind = "read"
        /\ tasks' = Tail(tasks) \/ \E x \in Task : tasks' = Append(Tail(tasks), x)
    BY <1>1, <1>10, ReadStep
  <2>2. PICK k \in Nat \ {0} : \/ Arrives(k) /\ mPtr /\ conn = "open"
                               \/ Passes(k) /\ ~(mPtr /\ conn = "open")
    BY <1>1, <1>10, ReadStep
  <2>3. /\ TypeOK' /\ OneSided' /\ Attached' /\ Fresh' /\ Later
        /\ Prompt' => Prompt
        /\ UNCHANGED <<mPtr, waiting, peerSent>>
    BY <2>1, AsideKept
  <2>4. Prompt /\ conn = "open" => mPtr
    <3>1. ~Awaited
      <4>1. tasks \in Seq(Task) /\ Len(waiting) \in Nat
        BY <1>1, LenProperties DEF TypeOK
      <4> QED
        BY <2>1, <4>1, AwaitedRun DEF Awaited
    <3> QED
      BY <1>1, <3>1 DEF Waited
  <2>5. Messages'
    BY <1>1, <2>2, <2>3, <2>4, MessagesKept
  <2>6. Waited'
    BY <2>1, <2>3, <2>4 DEF Waited
  <2> QED
    BY <2>3, <2>5, <2>6 DEF Inv
<1>11. CASE SessionEnds
  <2>1. Aside /\ Keeps /\ conn' = "closed" /\ mqCloses' = mqCloses
    BY <1>1, <1>11, EndStep
  <2>2. TypeOK' /\ OneSided' /\ Attached' /\ Fresh' /\ Later
    BY <2>1, AsideKept
  <2>3. Messages'
    BY <1>1, <1>2, <2>1, <2>2, MessagesKept
  <2> QED
    BY <2>1, <2>2, <2>3 DEF Inv, Waited
<1>12. CASE UNCHANGED vars
  <2>1. UNCHANGED <<tasks, acceptorVars, queueVars, peerVars>>
    BY <1>12 DEF vars
  <2>2. QuietTasks
    BY <1>1, <2>1, QuietPost DEF TypeOK
  <2>3. Keeps
    BY <2>1, <2>2, QuietKeeps DEF queueVars, peerVars
  <2>4. Aside
    BY <1>1, <2>1, AllTypes
       DEF Aside, OneSided, QueueTypes, TypeOK, acceptorVars, queueVars, peerVars
  <2>5. /\ TypeOK' /\ OneSided' /\ Attached' /\ Fresh' /\ Later
        /\ Prompt' => Prompt
        /\ UNCHANGED <<mPtr, waiting, peerSent, conn, tasks>>
    BY <2>1, <2>4, AsideKept DEF queueVars
  <2>6. Messages'
    BY <1>1, <1>2, <2>3, <2>5, MessagesKept
  <2>7. Waited'
    BY <1>1, <2>5, AwaitedLater DEF Waited
  <2> QED
    BY <2>5, <2>6, <2>7 DEF Inv
<1> QED
  BY <1>1, <1>3, <1>4, <1>5, <1>6, <1>7, <1>8, <1>9, <1>10, <1>11, <1>12, NoSends
     DEF Next, Runs, QueueCalled, QueueRuns, Q!RunTask

LEMMA Invariance == Spec => []Inv
BY InvInit, InvStep, PTL DEF Spec

LEMMA InvImplies == Inv => ReadsFromTheFirst
<1> SUFFICES ASSUME Inv PROVE ReadsFromTheFirst
  OBVIOUS
<1>1. tasks \in Seq(Task) /\ received \in Seq(Task)
  <2>1. Completing \subseteq Task /\ tasks \in Seq(Task) /\ received \in Seq(Completing)
    BY DEF Task, Inv, TypeOK
  <2> QED
    BY <2>1, SeqMonotonic
<1>2. Joined(Ids, DoneIds, TaskIds)
  BY <1>1, TasksJoin DEF Ids, DoneIds, TaskIds
<1> DEFINE I == Numbers(Ids)
           S == Numbers(StoredIds)
           g == Given
<1>3. /\ InOrder(Ids) /\ g = I \union S /\ Below(I, S) /\ g \subseteq 1..peerSent
  <2>1. GivenInOrder /\ g \subseteq 1..peerSent
    BY DEF Inv, Messages, Flow
  <2>2. InOrder(Ids) /\ I = Numbers(DoneIds) \union Numbers(TaskIds)
    BY <1>2, <2>1 DEF Joined, GivenInOrder
  <2>3. Below(I, S)
    BY <2>1, <2>2 DEF GivenInOrder, Below
  <2>4. g = I \union S
    BY <2>2 DEF Given
  <2> QED
    BY <2>1, <2>2, <2>3, <2>4
<1>4. peerSent \in Nat
  BY DEF Inv, TypeOK
<1> HIDE DEF I, S, g
(* What is stored comes later: no number of it is between two of Ids. *)
<1>5. ASSUME NEW n \in I, NEW x \in g, x <= n PROVE x \in I
  <2>1. n \in Nat /\ x \in Nat
    BY <1>3, <1>4
  <2> QED
    BY <1>3, <1>5, <2>1 DEF Below
<1>6. ASSUME mqCloses = 0, NEW m \in I, NEW n \in I PROVE m..n \subseteq I
  <2>1. PICK lo \in 0..peerSent, hi \in 0..peerSent : g = (lo + 1)..hi
    BY <1>6 DEF Inv, Messages, NoGap, g
  <2> SUFFICES ASSUME NEW x \in m..n PROVE x \in I
    OBVIOUS
  <2>2. m \in (lo + 1)..hi /\ n \in (lo + 1)..hi
    BY <1>3, <2>1
  <2>3. x \in (lo + 1)..hi /\ x <= n
    BY <1>4, <2>2
  <2> QED
    BY <1>5, <2>1, <2>3
<1>7. ASSUME inTime, closes = 0, mqCloses = 0, ~broken, NEW n \in I PROVE 1..n \subseteq I
  <2>1. n \in g /\ 1 \in g /\ n \in Nat
    <3>1. n \in g /\ n \in Nat
      BY <1>3, <1>4
    <3> QED
      BY <1>7, <3>1 DEF Inv, Messages, FromTheFirst, Prompt, g
  <2>2. 1 <= n
    BY <1>3, <1>4, <2>1
  <2>3. 1 \in I
    BY <1>5, <2>1, <2>2
  <2> QED
    BY <1>6, <1>7, <2>3
<1> QED
  BY <1>3, <1>6, <1>7 DEF ReadsFromTheFirst, I

(* Type correctness of the session: of its tasks in particular, which are    *)
(* posted by three parties and run by whom they are for.                     *)
THEOREM SessionTypes == Spec => []TypeOK
<1>1. Inv => TypeOK
  BY DEF Inv
<1> QED
  BY <1>1, Invariance, PTL

(* A reader is given what the peer sent in order, once and until it closes   *)
(* the queue without a gap, from the first message on if its accept was      *)
(* waiting when the handshake was over (messagequeue.hpp: handleMessage;     *)
(* acceptor.hpp: handleOpen, whose posted half sets the handlers in time).   *)
THEOREM ReaderMissesNothing == Spec => []ReadsFromTheFirst
BY Invariance, InvImplies, PTL
=============================================================================
