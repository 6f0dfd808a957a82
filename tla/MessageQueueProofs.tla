------------------------ MODULE MessageQueueProofs --------------------------
(* Theorems about ws::MessageQueue for any messages and any number of        *)
(* receives, sends, messages and closes.                                     *)
EXTENDS MessageQueue, SequenceTheorems, TLAPS

Receiving == [kind : {"receive"}, op : 1..MaxReceives]
Task == Completion \union Sent \union Receiving
Call == 1..MaxReceives

-----------------------------------------------------------------------------
(* Sequences of numbers in which 0 stands for nothing.                       *)
Below(A, B) == \A a \in A, b \in B : a < b

LEMMA NumberAt ==
    ASSUME NEW s \in Seq(Nat)
    PROVE  /\ \A i \in DOMAIN s : s[i] \in Nat /\ (s[i] # 0 => s[i] \in Numbers(s))
           /\ \A x \in Numbers(s) : x # 0 /\ x \in Nat /\ \E i \in DOMAIN s : s[i] = x
<1>1. \A i \in DOMAIN s : s[i] \in Nat
  BY LenProperties
<1> QED
  BY <1>1 DEF Numbers, ToSet

LEMMA ConcatPlaces ==
    ASSUME NEW s \in Seq(Nat), NEW t \in Seq(Nat)
    PROVE  /\ \A i \in DOMAIN s : /\ i \in Nat /\ i <= Len(s)
                                  /\ i \in DOMAIN (s \o t) /\ (s \o t)[i] = s[i]
           /\ \A i \in DOMAIN t : /\ i \in Nat /\ i > 0
                                  /\ i + Len(s) \in DOMAIN (s \o t)
                                  /\ (s \o t)[i + Len(s)] = t[i]
           /\ \A i \in DOMAIN (s \o t) :
                 /\ i \in Nat
                 /\ \/ i \in DOMAIN s
                    \/ \E k \in DOMAIN t : i = k + Len(s)
           /\ Len(s) \in Nat
<1>1. /\ s \o t \in Seq(Nat) /\ Len(s \o t) = Len(s) + Len(t)
      /\ \A i \in 1..(Len(s) + Len(t)) :
            (s \o t)[i] = IF i <= Len(s) THEN s[i] ELSE t[i - Len(s)]
  BY ConcatProperties
<1>2. /\ DOMAIN s = 1..Len(s) /\ Len(s) \in Nat
      /\ DOMAIN t = 1..Len(t) /\ Len(t) \in Nat
      /\ DOMAIN (s \o t) = 1..(Len(s) + Len(t))
  BY <1>1, LenProperties
<1>3. ASSUME NEW i \in DOMAIN s
      PROVE  /\ i \in Nat /\ i <= Len(s)
             /\ i \in DOMAIN (s \o t) /\ (s \o t)[i] = s[i]
  BY <1>1, <1>2
<1>4. ASSUME NEW i \in DOMAIN t
      PROVE  /\ i \in Nat /\ i > 0
             /\ i + Len(s) \in DOMAIN (s \o t)
             /\ (s \o t)[i + Len(s)] = t[i]
  <2>1. /\ i \in Nat /\ i > 0 /\ i + Len(s) \in 1..(Len(s) + Len(t))
        /\ ~(i + Len(s) <= Len(s)) /\ (i + Len(s)) - Len(s) = i
    BY <1>2
  <2> QED
    BY <1>1, <1>2, <2>1
<1>5. ASSUME NEW i \in DOMAIN (s \o t)
      PROVE  /\ i \in Nat
             /\ i \in DOMAIN s \/ \E k \in DOMAIN t : i = k + Len(s)
  <2>1. i \in Nat /\ (i \in 1..Len(s) \/ i - Len(s) \in 1..Len(t))
    BY <1>2
  <2>2. i = (i - Len(s)) + Len(s)
    BY <1>2, <2>1
  <2> QED
    BY <1>2, <2>1, <2>2
<1> QED
  BY <1>2, <1>3, <1>4, <1>5

(* u holds the numbers of s and then those of t. *)
Joined(u, s, t) ==
    /\ Numbers(u) = Numbers(s) \union Numbers(t)
    /\ Once(u) <=> Once(s) /\ Once(t) /\ Numbers(s) \cap Numbers(t) = {}
    /\ InOrder(u) <=> InOrder(s) /\ InOrder(t) /\ Below(Numbers(s), Numbers(t))

LEMMA ConcatNumbers ==
    ASSUME NEW s \in Seq(Nat), NEW t \in Seq(Nat)
    PROVE  s \o t \in Seq(Nat) /\ Joined(s \o t, s, t)
<1> DEFINE u == s \o t
           n == Len(s)
<1>1. u \in Seq(Nat)
  BY ConcatProperties
<1>2. /\ \A i \in DOMAIN s : i \in Nat /\ i <= n /\ i \in DOMAIN u /\ u[i] = s[i]
      /\ \A i \in DOMAIN t : i \in Nat /\ i > 0 /\ i + n \in DOMAIN u /\ u[i + n] = t[i]
      /\ \A i \in DOMAIN u : i \in Nat /\ (i \in DOMAIN s \/ \E k \in DOMAIN t : i = k + n)
      /\ n \in Nat
  BY ConcatPlaces
<1>3. /\ \A i \in DOMAIN s : s[i] \in Nat /\ (s[i] # 0 => s[i] \in Numbers(s))
      /\ \A i \in DOMAIN t : t[i] \in Nat /\ (t[i] # 0 => t[i] \in Numbers(t))
      /\ \A x \in Numbers(s) : x # 0 /\ x \in Nat /\ \E i \in DOMAIN s : s[i] = x
      /\ \A x \in Numbers(t) : x # 0 /\ x \in Nat /\ \E i \in DOMAIN t : t[i] = x
  BY NumberAt
<1> HIDE DEF u, n
<1>4. Numbers(u) = Numbers(s) \union Numbers(t)
  <2>1. ToSet(u) \subseteq ToSet(s) \union ToSet(t)
    BY <1>2 DEF ToSet
  <2>2. ToSet(s) \union ToSet(t) \subseteq ToSet(u)
    BY <1>2 DEF ToSet
  <2> QED
    BY <2>1, <2>2 DEF Numbers
<1>5. ASSUME Once(u)
      PROVE  Once(s) /\ Once(t) /\ Numbers(s) \cap Numbers(t) = {}
  <2>1. Once(s)
    BY <1>2, <1>5 DEF Once
  <2>2. Once(t)
    <3> SUFFICES ASSUME NEW i \in DOMAIN t, NEW j \in DOMAIN t,
                        t[i] = t[j], t[i] # 0
                 PROVE  i = j
      BY DEF Once
    <3>1. i + n = j + n
      BY <1>2, <1>5 DEF Once
    <3> QED
      BY <1>2, <3>1
  <2>3. ASSUME NEW i \in DOMAIN s, NEW j \in DOMAIN t, s[i] = t[j], s[i] # 0
        PROVE  FALSE
    <3>1. i = j + n
      BY <1>2, <1>5, <2>3 DEF Once
    <3> QED
      BY <1>2, <3>1
  <2> QED
    BY <1>3, <2>1, <2>2, <2>3
<1>6. ASSUME Once(s), Once(t), Numbers(s) \cap Numbers(t) = {}
      PROVE  Once(u)
  <2> SUFFICES ASSUME NEW i \in DOMAIN u, NEW j \in DOMAIN u,
                      u[i] = u[j], u[i] # 0
               PROVE  i = j
    BY DEF Once
  <2>1. CASE i \in DOMAIN s /\ j \in DOMAIN s
    BY <1>2, <1>6, <2>1 DEF Once
  <2>2. ASSUME NEW k \in DOMAIN t, NEW l \in DOMAIN t, i = k + n, j = l + n
        PROVE  i = j
    BY <1>2, <1>6, <2>2 DEF Once
  <2>3. ASSUME NEW k \in DOMAIN s, NEW l \in DOMAIN t, s[k] = t[l], s[k] # 0
        PROVE  FALSE
    BY <1>3, <1>6, <2>3
  <2> QED
    BY <1>2, <2>1, <2>2, <2>3
<1>7. ASSUME InOrder(u)
      PROVE  InOrder(s) /\ InOrder(t) /\ Below(Numbers(s), Numbers(t))
  <2>1. InOrder(s)
    BY <1>2, <1>7 DEF InOrder
  <2>2. InOrder(t)
    <3> SUFFICES ASSUME NEW i \in DOMAIN t, NEW j \in DOMAIN t,
                        i < j, t[i] # 0, t[j] # 0
                 PROVE  t[i] < t[j]
      BY DEF InOrder
    <3>1. i + n < j + n
      BY <1>2
    <3> QED
      BY <1>2, <1>7, <3>1 DEF InOrder
  <2>3. ASSUME NEW i \in DOMAIN s, NEW j \in DOMAIN t, s[i] # 0, t[j] # 0
        PROVE  s[i] < t[j]
    <3>1. i < j + n
      BY <1>2
    <3> QED
      BY <1>2, <1>7, <2>3, <3>1 DEF InOrder
  <2> QED
    BY <1>3, <2>1, <2>2, <2>3 DEF Below
<1>8. ASSUME InOrder(s), InOrder(t), Below(Numbers(s), Numbers(t))
      PROVE  InOrder(u)
  <2> SUFFICES ASSUME NEW i \in DOMAIN u, NEW j \in DOMAIN u,
                      i < j, u[i] # 0, u[j] # 0
               PROVE  u[i] < u[j]
    BY DEF InOrder
  <2>1. CASE i \in DOMAIN s /\ j \in DOMAIN s
    BY <1>2, <1>8, <2>1 DEF InOrder
  <2>2. ASSUME NEW k \in DOMAIN t, NEW l \in DOMAIN t, i = k + n, j = l + n
        PROVE  u[i] < u[j]
    <3>1. k < l
      BY <1>2, <2>2
    <3> QED
      BY <1>2, <1>8, <2>2, <3>1 DEF InOrder
  <2>3. ASSUME i \in DOMAIN s, NEW l \in DOMAIN t, j = l + n
        PROVE  u[i] < u[j]
    BY <1>2, <1>3, <1>8, <2>3 DEF Below
  <2>4. ASSUME j \in DOMAIN s, NEW k \in DOMAIN t, i = k + n
        PROVE  FALSE
    BY <1>2, <2>4
  <2> QED
    BY <1>2, <2>1, <2>2, <2>3, <2>4
<1> QED
  BY <1>1, <1>4, <1>5, <1>6, <1>7, <1>8 DEF u, Joined

LEMMA SingleNumber ==
    ASSUME NEW n \in Nat
    PROVE  /\ <<n>> \in Seq(Nat)
           /\ Numbers(<<n>>) = {n} \ {0}
           /\ Once(<<n>>) /\ InOrder(<<n>>)
<1>1. <<n>> \in Seq(Nat) /\ DOMAIN <<n>> = {1} /\ <<n>>[1] = n
  OBVIOUS
<1>2. Numbers(<<n>>) = {n} \ {0}
  BY <1>1 DEF Numbers, ToSet
<1>3. Once(<<n>>) /\ InOrder(<<n>>)
  BY <1>1 DEF Once, InOrder
<1> QED
  BY <1>1, <1>2, <1>3

LEMMA NoNumber ==
    /\ <<>> \in Seq(Nat) /\ Numbers(<<>>) = {}
    /\ Once(<<>>) /\ InOrder(<<>>)
<1>1. <<>> \in Seq(Nat) /\ DOMAIN <<>> = {}
  OBVIOUS
<1> QED
  BY <1>1 DEF Numbers, ToSet, Once, InOrder

-----------------------------------------------------------------------------
(* A sequence seen through a numbering of its elements.                      *)
Through(g, s) == [i \in DOMAIN s |-> g[s[i]]]

Seen(v, g, s) ==
    /\ v \in Seq(Nat) /\ Len(v) = Len(s)
    /\ \A i \in 1..Len(s) : v[i] = g[s[i]]

LEMMA ThroughPlaces ==
    ASSUME NEW S, NEW g \in [S -> Nat], NEW s \in Seq(S)
    PROVE  Seen(Through(g, s), g, s)
<1>1. DOMAIN s = 1..Len(s) /\ Len(s) \in Nat /\ \A i \in 1..Len(s) : s[i] \in S
  BY LenProperties
<1>2. \A i \in 1..Len(s) : g[s[i]] \in Nat
  BY <1>1
<1> QED
  BY <1>1, <1>2 DEF Through, Seen

LEMMA ThroughConcat ==
    ASSUME NEW S, NEW g \in [S -> Nat], NEW s \in Seq(S), NEW t \in Seq(S)
    PROVE  Joined(Through(g, s \o t), Through(g, s), Through(g, t))
<1> DEFINE q == s \o t
<1>1. /\ q \in Seq(S) /\ Len(q) = Len(s) + Len(t)
      /\ \A i \in 1..(Len(s) + Len(t)) :
            q[i] = IF i <= Len(s) THEN s[i] ELSE t[i - Len(s)]
      /\ Len(s) \in Nat /\ Len(t) \in Nat
  BY ConcatProperties, LenProperties
<1> HIDE DEF q
<1> DEFINE u == Through(g, q)
<1>2. Seen(u, g, q)
  BY <1>1, ThroughPlaces
<1> DEFINE v == Through(g, s)
<1>3. Seen(v, g, s)
  BY ThroughPlaces
<1> DEFINE w == Through(g, t)
<1>4. Seen(w, g, t)
  BY ThroughPlaces
<1> HIDE DEF u, v, w
<1>5. /\ v \o w \in Seq(Nat) /\ Len(v \o w) = Len(s) + Len(t)
      /\ \A i \in 1..(Len(s) + Len(t)) :
            (v \o w)[i] = IF i <= Len(s) THEN v[i] ELSE w[i - Len(s)]
  <2>1. /\ v \in Seq(Nat) /\ Len(v) = Len(s)
        /\ w \in Seq(Nat) /\ Len(w) = Len(t)
    BY <1>3, <1>4 DEF Seen
  <2>2. /\ v \o w \in Seq(Nat) /\ Len(v \o w) = Len(v) + Len(w)
        /\ \A i \in 1..(Len(v) + Len(w)) :
              (v \o w)[i] = IF i <= Len(v) THEN v[i] ELSE w[i - Len(v)]
    BY <2>1, ConcatProperties
  <2> QED
    BY <2>1, <2>2
<1>6. \A i \in 1..Len(u) : u[i] = (v \o w)[i]
  <2> SUFFICES ASSUME NEW i \in 1..Len(u) PROVE u[i] = (v \o w)[i]
    OBVIOUS
  <2>1. CASE i <= Len(s)
    <3>1. i \in 1..Len(s) /\ i \in 1..Len(q) /\ i \in 1..(Len(s) + Len(t))
      BY <1>1, <1>2, <2>1 DEF Seen
    <3>2. u[i] = g[q[i]] /\ v[i] = g[s[i]]
      BY <1>2, <1>3, <3>1 DEF Seen
    <3> QED
      BY <1>1, <1>5, <2>1, <3>1, <3>2
  <2>2. CASE ~(i <= Len(s))
    <3>1. /\ i - Len(s) \in 1..Len(t) /\ i \in 1..Len(q)
          /\ i \in 1..(Len(s) + Len(t))
      BY <1>1, <1>2, <2>2 DEF Seen
    <3>2. u[i] = g[q[i]] /\ w[i - Len(s)] = g[t[i - Len(s)]]
      BY <1>2, <1>4, <3>1 DEF Seen
    <3> QED
      BY <1>1, <1>5, <2>2, <3>1, <3>2
  <2> QED
    BY <2>1, <2>2
<1>7. u = v \o w
  BY <1>1, <1>2, <1>5, <1>6, SeqEqual DEF Seen
<1>8. Joined(v \o w, v, w)
  BY <1>3, <1>4, ConcatNumbers DEF Seen
<1> QED
  BY <1>7, <1>8 DEF q, u, v, w

LEMMA ThroughOne ==
    ASSUME NEW S, NEW g \in [S -> Nat], NEW x \in S
    PROVE  <<x>> \in Seq(S) /\ Through(g, <<x>>) = <<g[x]>>
<1>1. <<x>> \in Seq(S) /\ Len(<<x>>) = 1 /\ <<x>>[1] = x /\ DOMAIN <<x>> = 1..1
  OBVIOUS
<1>2. \A i \in 1..1 : <<x>>[i] = x
  BY <1>1
<1>3. Through(g, <<x>>) = [i \in 1..1 |-> g[x]]
  BY <1>1, <1>2 DEF Through
<1> QED
  BY <1>1, <1>3

LEMMA ThroughAppend ==
    ASSUME NEW S, NEW g \in [S -> Nat], NEW s \in Seq(S), NEW x \in S
    PROVE  Joined(Through(g, Append(s, x)), Through(g, s), <<g[x]>>)
<1>1. Append(s, x) = s \o <<x>>
  BY AppendIsConcat
<1>2. Joined(Through(g, s \o <<x>>), Through(g, s), Through(g, <<x>>))
  BY ThroughOne, ThroughConcat
<1> QED
  BY <1>1, <1>2, ThroughOne, Zenon

LEMMA ThroughTail ==
    ASSUME NEW S, NEW g \in [S -> Nat], NEW s \in Seq(S), s # <<>>
    PROVE  Joined(Through(g, s), <<g[Head(s)]>>, Through(g, Tail(s)))
<1>1. Head(s) \in S /\ Tail(s) \in Seq(S) /\ s = <<Head(s)>> \o Tail(s)
  BY HeadTailProperties
<1>2. Joined(Through(g, <<Head(s)>> \o Tail(s)), Through(g, <<Head(s)>>),
             Through(g, Tail(s)))
  BY <1>1, ThroughOne, ThroughConcat
<1> QED
  BY <1>1, <1>2, ThroughOne, Zenon

-----------------------------------------------------------------------------
(* The sequences of the model, seen through their numbers.                   *)
Op(x, kinds) == IF x.kind \in kinds THEN x.op ELSE 0
Id(x) == IF x.kind = "complete" THEN x.msg.id ELSE 0
OpIn(kinds) == [x \in Task |-> Op(x, kinds)]
IdIn == [x \in Task |-> Id(x)]
DatumId == [d \in Datum |-> d.msg.id]
DataIds(s) == [i \in DOMAIN s |-> s[i].msg.id]

LEMMA Bounds ==
    /\ MaxReceives \in Nat /\ MaxOutstanding \in Nat /\ MaxSends \in Nat
    /\ MaxMessages \in Nat /\ MaxCloses \in Nat /\ BufSize \in Nat
    /\ MsgSizes \subseteq Nat
BY SizeAssumption, BoundAssumption

LEMMA TaskNumbers ==
    /\ \A kinds : OpIn(kinds) \in [Task -> Nat]
    /\ IdIn \in [Task -> Nat]
    /\ DatumId \in [Datum -> Nat]
<1>1. \A kinds : \A x \in Task : Op(x, kinds) \in Nat
  BY Bounds DEF Op, Task, Completion, Sent, Receiving
<1>2. \A x \in Task : Id(x) \in Nat
  BY Bounds DEF Id, Task, Completion, Sent, Receiving, Message, NoMessage
<1>3. \A d \in Datum : d.msg.id \in Nat
  <2>1. \A d \in Datum : d.msg \in Message \union {NoMessage}
    BY DEF Datum
  <2>2. \A m \in Message \union {NoMessage} : m.id \in Nat
    BY Bounds DEF Message, NoMessage
  <2> QED
    BY <2>1, <2>2
<1>4. ASSUME NEW kinds PROVE OpIn(kinds) \in [Task -> Nat]
  BY <1>1 DEF OpIn
<1>5. IdIn \in [Task -> Nat]
  BY <1>2 DEF IdIn
<1>6. DatumId \in [Datum -> Nat]
  BY <1>3 DEF DatumId
<1> QED
  BY <1>4, <1>5, <1>6

LEMMA SeenByNumber ==
    /\ \A kinds : \A s \in Seq(Task) : OpsOf(s, kinds) = Through(OpIn(kinds), s)
    /\ \A s \in Seq(Task) : IdsOf(s) = Through(IdIn, s)
    /\ \A s \in Seq(Datum) : DataIds(s) = Through(DatumId, s)
<1>1. \A s \in Seq(Task) : \A i \in DOMAIN s : s[i] \in Task
  OBVIOUS
<1>2. \A s \in Seq(Datum) : \A i \in DOMAIN s : s[i] \in Datum
  OBVIOUS
<1>3. ASSUME NEW s \in Seq(Task), NEW kinds
      PROVE  OpsOf(s, kinds) = Through(OpIn(kinds), s)
  BY <1>1 DEF OpsOf, Through, OpIn, Op
<1>4. ASSUME NEW s \in Seq(Task)
      PROVE  IdsOf(s) = Through(IdIn, s)
  BY <1>1 DEF IdsOf, Through, IdIn, Id
<1>5. ASSUME NEW s \in Seq(Datum)
      PROVE  DataIds(s) = Through(DatumId, s)
  BY <1>2 DEF DataIds, Through, DatumId
<1> QED
  BY <1>3, <1>4, <1>5

LEMMA NumbersAreNumbers ==
    /\ \A kinds : \A s \in Seq(Task) : OpsOf(s, kinds) \in Seq(Nat)
    /\ \A s \in Seq(Task) : IdsOf(s) \in Seq(Nat)
    /\ \A s \in Seq(Datum) : DataIds(s) \in Seq(Nat)
<1>1. ASSUME NEW kinds, NEW s \in Seq(Task) PROVE OpsOf(s, kinds) \in Seq(Nat)
  <2>1. Seen(Through(OpIn(kinds), s), OpIn(kinds), s)
    BY TaskNumbers, ThroughPlaces
  <2> QED
    BY <2>1, SeenByNumber DEF Seen
<1>2. ASSUME NEW s \in Seq(Task) PROVE IdsOf(s) \in Seq(Nat)
  <2>1. Seen(Through(IdIn, s), IdIn, s)
    BY TaskNumbers, ThroughPlaces
  <2> QED
    BY <2>1, SeenByNumber DEF Seen
<1>3. ASSUME NEW s \in Seq(Datum) PROVE DataIds(s) \in Seq(Nat)
  <2>1. Seen(Through(DatumId, s), DatumId, s)
    BY TaskNumbers, ThroughPlaces
  <2> QED
    BY <2>1, SeenByNumber DEF Seen
<1> QED
  BY <1>1, <1>2, <1>3

LEMMA Posting ==
    ASSUME NEW s \in Seq(Task), NEW x \in Task
    PROVE  /\ \A kinds : Joined(OpsOf(Append(s, x), kinds), OpsOf(s, kinds),
                               <<Op(x, kinds)>>)
           /\ Joined(IdsOf(Append(s, x)), IdsOf(s), <<Id(x)>>)
<1>1. Append(s, x) \in Seq(Task)
  BY AppendProperties
<1>2. ASSUME NEW kinds
      PROVE  Joined(OpsOf(Append(s, x), kinds), OpsOf(s, kinds), <<Op(x, kinds)>>)
  <2>1. Joined(Through(OpIn(kinds), Append(s, x)), Through(OpIn(kinds), s),
               <<OpIn(kinds)[x]>>)
    BY TaskNumbers, ThroughAppend
  <2>2. OpIn(kinds)[x] = Op(x, kinds)
    BY DEF OpIn
  <2> QED
    BY <1>1, <2>1, <2>2, SeenByNumber, Zenon
<1>3. Joined(Through(IdIn, Append(s, x)), Through(IdIn, s), <<IdIn[x]>>)
  BY TaskNumbers, ThroughAppend
<1>4. IdIn[x] = Id(x)
  BY DEF IdIn
<1> QED
  BY <1>1, <1>2, <1>3, <1>4, SeenByNumber, Zenon

LEMMA Running ==
    ASSUME NEW s \in Seq(Task), s # <<>>
    PROVE  /\ \A kinds : Joined(OpsOf(s, kinds), <<Op(Head(s), kinds)>>,
                               OpsOf(Tail(s), kinds))
           /\ Joined(IdsOf(s), <<Id(Head(s))>>, IdsOf(Tail(s)))
<1>1. Tail(s) \in Seq(Task) /\ Head(s) \in Task
  BY HeadTailProperties
<1>2. ASSUME NEW kinds
      PROVE  Joined(OpsOf(s, kinds), <<Op(Head(s), kinds)>>, OpsOf(Tail(s), kinds))
  <2>1. Joined(Through(OpIn(kinds), s), <<OpIn(kinds)[Head(s)]>>,
               Through(OpIn(kinds), Tail(s)))
    BY TaskNumbers, ThroughTail
  <2>2. OpIn(kinds)[Head(s)] = Op(Head(s), kinds)
    BY <1>1 DEF OpIn
  <2> QED
    BY <1>1, <2>1, <2>2, SeenByNumber, Zenon
<1>3. Joined(Through(IdIn, s), <<IdIn[Head(s)]>>, Through(IdIn, Tail(s)))
  BY TaskNumbers, ThroughTail
<1>4. IdIn[Head(s)] = Id(Head(s))
  BY <1>1 DEF IdIn
<1> QED
  BY <1>1, <1>2, <1>3, <1>4, SeenByNumber, Zenon

LEMMA PostingAll ==
    ASSUME NEW s \in Seq(Task), NEW t \in Seq(Task)
    PROVE  /\ \A kinds : Joined(OpsOf(s \o t, kinds), OpsOf(s, kinds), OpsOf(t, kinds))
           /\ Joined(IdsOf(s \o t), IdsOf(s), IdsOf(t))
<1>1. s \o t \in Seq(Task)
  BY ConcatProperties
<1>2. ASSUME NEW kinds
      PROVE  Joined(OpsOf(s \o t, kinds), OpsOf(s, kinds), OpsOf(t, kinds))
  <2>1. Joined(Through(OpIn(kinds), s \o t), Through(OpIn(kinds), s),
               Through(OpIn(kinds), t))
    BY TaskNumbers, ThroughConcat
  <2> QED
    BY <1>1, <2>1, SeenByNumber, Zenon
<1>3. Joined(Through(IdIn, s \o t), Through(IdIn, s), Through(IdIn, t))
  BY TaskNumbers, ThroughConcat
<1> QED
  BY <1>1, <1>2, <1>3, SeenByNumber, Zenon

LEMMA DataQueue ==
    ASSUME NEW s \in Seq(Datum)
    PROVE  /\ \A d \in Datum : Joined(DataIds(Append(s, d)), DataIds(s), <<d.msg.id>>)
           /\ s # <<>> => Joined(DataIds(s), <<Head(s).msg.id>>, DataIds(Tail(s)))
<1>1. ASSUME NEW d \in Datum
      PROVE  Joined(DataIds(Append(s, d)), DataIds(s), <<d.msg.id>>)
  <2>1. Joined(Through(DatumId, Append(s, d)), Through(DatumId, s), <<DatumId[d]>>)
    BY TaskNumbers, ThroughAppend
  <2>2. DatumId[d] = d.msg.id /\ Append(s, d) \in Seq(Datum)
    BY AppendProperties DEF DatumId
  <2> QED
    BY <2>1, <2>2, SeenByNumber, Zenon
<1>2. ASSUME s # <<>>
      PROVE  Joined(DataIds(s), <<Head(s).msg.id>>, DataIds(Tail(s)))
  <2>1. Joined(Through(DatumId, s), <<DatumId[Head(s)]>>, Through(DatumId, Tail(s)))
    BY <1>2, TaskNumbers, ThroughTail
  <2>2. Head(s) \in Datum /\ Tail(s) \in Seq(Datum)
    BY <1>2, HeadTailProperties
  <2>3. DatumId[Head(s)] = Head(s).msg.id
    BY <2>2 DEF DatumId
  <2> QED
    BY <2>1, <2>2, <2>3, SeenByNumber, Zenon
<1> QED
  BY <1>1, <1>2

-----------------------------------------------------------------------------
(* Types.                                                                    *)
LEMMA CompletionTypes ==
    /\ \A n \in Call : Receive(n) \in Task
    /\ \A n \in Call, d \in Datum : Consumed(n, d) \in Completion
    /\ \A n \in Call : Complete(n, "transport", NoMessage, 0) \in Completion
    /\ Completion \subseteq Task /\ Sent \subseteq Task
    /\ Aborted \in Datum
<1>1. ASSUME NEW n \in Call PROVE Receive(n) \in Receiving
  BY DEF Receive, Receiving, Call
<1>2. ASSUME NEW n \in Call, NEW d \in Datum PROVE Consumed(n, d) \in Completion
  <2>1. CASE d.ec = "ok"
    <3>1. d.msg \in Message /\ d.msg.size \in Nat
      BY <2>1, Bounds DEF Datum, Message
    <3>2. SmallerOf(d.msg.size, BufSize) \in 0..BufSize
      BY <3>1, Bounds DEF SmallerOf
    <3> QED
      BY <2>1, <3>1, <3>2 DEF Consumed, Complete, Completion, Call, Errors
  <2>2. CASE d.ec # "ok"
    <3>1. d.ec \in {"operation_aborted", "transport"}
      BY <2>2 DEF Datum
    <3>2. 0 \in 0..BufSize
      BY Bounds
    <3> QED
      BY <2>2, <3>1, <3>2 DEF Consumed, Complete, Completion, Call, Errors
  <2> QED
    BY <2>1, <2>2
<1>3. ASSUME NEW n \in Call
      PROVE  Complete(n, "transport", NoMessage, 0) \in Completion
  BY Bounds DEF Complete, Completion, Call, Errors
<1> QED
  BY <1>1, <1>2, <1>3 DEF Task, Aborted, Datum

(* What TypeOK says of the sequences, in the words of the lemmas above.      *)
LEMMA Sequences ==
    ASSUME TypeOK
    PROVE  /\ tasks \in Seq(Task) /\ results \in Seq(Task) /\ sent \in Seq(Task)
           /\ waiting \in Seq(Call) /\ waiting \in Seq(Nat)
           /\ data \in Seq(Datum)
           /\ tasks # <<>> => /\ Head(tasks) \in Task
                             /\ Tail(tasks) \in Seq(Task)
           /\ issued \in Nat /\ sends \in Nat
<1>1. Task = Completion \union Sent \union [kind : {"receive"}, op : 1..MaxReceives]
  BY DEF Task, Receiving
<1>2. tasks \in Seq(Task)
  BY <1>1 DEF TypeOK
<1>3. results \in Seq(Task) /\ sent \in Seq(Task)
  BY <1>1, SeqMonotonic DEF TypeOK
<1>4. waiting \in Seq(Call) /\ data \in Seq(Datum)
  BY DEF TypeOK, Call
<1>5. waiting \in Seq(Nat)
  <2>1. Call \subseteq Nat
    BY DEF Call
  <2> QED
    BY <1>4, <2>1, SeqMonotonic
<1>6. tasks # <<>> => Head(tasks) \in Task /\ Tail(tasks) \in Seq(Task)
  BY <1>2
<1>7. issued \in Nat /\ sends \in Nat
  BY Bounds DEF TypeOK
<1> QED
  BY <1>2, <1>3, <1>4, <1>5, <1>6, <1>7

LEMMA DrainedTypes ==
    ASSUME TypeOK
    PROVE  Drained \in Seq(Completion) /\ Drained \in Seq(Task)
<1>1. /\ DOMAIN waiting = 1..Len(waiting) /\ Len(waiting) \in Nat
      /\ \A i \in 1..Len(waiting) : waiting[i] \in Call
  BY Sequences, LenProperties
<1>2. \A i \in 1..Len(waiting) : Consumed(waiting[i], Aborted) \in Completion
  BY <1>1, CompletionTypes
<1>3. Drained \in Seq(Completion)
  BY <1>1, <1>2 DEF Drained
<1> QED
  BY <1>3, CompletionTypes, SeqMonotonic

LEMMA ProduceTypes ==
    ASSUME TypeOK, NEW d \in Datum, Produce(d, tasks)
    PROVE  waiting' \in Seq(Call) /\ data' \in Seq(Datum) /\ tasks' \in Seq(Task)
<1>0. waiting \in Seq(Call) /\ data \in Seq(Datum) /\ tasks \in Seq(Task)
  BY Sequences
<1>1. CASE waiting = <<>>
  BY <1>0, <1>1 DEF Produce
<1>2. CASE waiting # <<>>
  <2>1. Head(waiting) \in Call /\ Tail(waiting) \in Seq(Call)
    BY <1>2, Sequences, HeadTailProperties
  <2>2. Consumed(Head(waiting), d) \in Task
    BY <2>1, CompletionTypes
  <2> QED
    <3>1. /\ tasks' = Append(tasks, Consumed(Head(waiting), d))
          /\ waiting' = Tail(waiting) /\ data' = data
      BY <1>2 DEF Produce
    <3> QED
      BY <1>0, <2>1, <2>2, <3>1
<1> QED
  BY <1>1, <1>2

LEMMA ConsumeTypes ==
    ASSUME TypeOK, NEW n \in Call, NEW q \in Seq(Task), Consume(n, q)
    PROVE  waiting' \in Seq(Call) /\ data' \in Seq(Datum) /\ tasks' \in Seq(Task)
<1>0. waiting \in Seq(Call) /\ data \in Seq(Datum)
  BY Sequences
<1>1. CASE data = <<>>
  BY <1>0, <1>1 DEF Consume
<1>2. CASE data # <<>>
  <2>1. Head(data) \in Datum /\ Tail(data) \in Seq(Datum)
    BY <1>2, Sequences, HeadTailProperties
  <2>2. Consumed(n, Head(data)) \in Task
    BY <2>1, CompletionTypes
  <2> QED
    <3>1. /\ tasks' = Append(q, Consumed(n, Head(data)))
          /\ data' = Tail(data) /\ waiting' = waiting
      BY <1>2 DEF Consume
    <3> QED
      BY <1>0, <2>1, <2>2, <3>1
<1> QED
  BY <1>1, <1>2

LEMMA TypeInit == Init => TypeOK
<1>1. /\ <<>> \in Seq(Call) /\ <<>> \in Seq(Datum) /\ <<>> \in Seq(Task)
      /\ <<>> \in Seq(Completion) /\ <<>> \in Seq(Sent) /\ <<>> \in Seq(Message)
  OBVIOUS
<1>2. 0 \in 0..MaxReceives /\ 0 \in 0..MaxSends /\ 0 \in 0..MaxCloses
  BY Bounds
<1> QED
  BY <1>1, <1>2 DEF Init, TypeOK, Call, Task, Receiving

LEMMA TypeStep == TypeOK /\ [Next]_vars => TypeOK'
<1> SUFFICES ASSUME TypeOK, [Next]_vars PROVE TypeOK'
  OBVIOUS
<1> USE DEF TypeOK
<1>1. CASE SetConnectionPtr
  BY <1>1 DEF SetConnectionPtr, Attach, sending, network, queue
<1>2. CASE AsyncReceive
  <2>1. issued' \in 1..MaxReceives
    BY <1>2, Bounds DEF AsyncReceive
  <2>2. Receive(issued') \in Task
    BY <2>1, CompletionTypes DEF Call
  <2>3. tasks' \in Seq(Task)
    BY <1>2, <2>2, Sequences, AppendProperties DEF AsyncReceive
  <2> QED
    BY <1>2, <2>1, <2>3 DEF AsyncReceive, sending, network, queue, Task, Receiving
<1>3. CASE AsyncSend
  <2>1. sends' \in 1..MaxSends
    BY <1>3, Bounds DEF AsyncSend
  <2>2. [kind |-> "sent", op |-> sends', ok |-> conn = "open"] \in Task
    BY <2>1 DEF Task, Sent
  <2>3. tasks' \in Seq(Task)
    BY <1>3, <2>2, Sequences, AppendProperties DEF AsyncSend
  <2> QED
    BY <1>3, <2>1, <2>3 DEF AsyncSend, network, queue, Task, Receiving
<1>4. CASE RunReceive
  <2> DEFINE n == Head(tasks).op
  <2>1. n \in Call /\ Tail(tasks) \in Seq(Task)
    BY <1>4, Sequences DEF RunReceive, Task, Completion, Sent, Receiving, Call
  <2> HIDE DEF n
  <2>2. waiting' \in Seq(Call) /\ data' \in Seq(Datum) /\ tasks' \in Seq(Task)
    <3>1. CASE transportEc
      <4>1. Complete(n, "transport", NoMessage, 0) \in Task
        BY <2>1, CompletionTypes
      <4>2. tasks' = Append(Tail(tasks), Complete(n, "transport", NoMessage, 0))
        BY <1>4, <3>1 DEF RunReceive, n
      <4>3. tasks' \in Seq(Task)
        BY <2>1, <4>1, <4>2
      <4> QED
        BY <1>4, <3>1, <4>3, Sequences DEF RunReceive, queue
    <3>2. CASE ~transportEc
      BY <1>4, <2>1, <3>2, ConsumeTypes DEF RunReceive, n
    <3> QED
      BY <3>1, <3>2
  <2> QED
    BY <1>4, <2>2 DEF RunReceive, sending, network, Task, Receiving, Call
<1>5. CASE RunComplete
  <2>1. Head(tasks) \in Completion /\ Tail(tasks) \in Seq(Task)
    BY <1>5, Sequences DEF RunComplete, Task, Completion, Sent, Receiving
  <2>2. results' \in Seq(Completion)
    BY <1>5, <2>1, AppendProperties DEF RunComplete
  <2> QED
    BY <1>5, <2>1, <2>2 DEF RunComplete, sending, network, queue, Task, Receiving
<1>6. CASE RunSent
  <2>1. Head(tasks) \in Sent /\ Tail(tasks) \in Seq(Task)
    BY <1>6, Sequences DEF RunSent, Task, Completion, Sent, Receiving
  <2>2. sent' \in Seq(Sent)
    BY <1>6, <2>1, AppendProperties DEF RunSent
  <2> QED
    BY <1>6, <2>1, <2>2 DEF RunSent, network, queue, Task, Receiving
<1>7. ASSUME CloseQueue
      PROVE  waiting' \in Seq(Call) /\ data' \in Seq(Datum) /\ tasks' \in Seq(Task)
  BY <1>7, DrainedTypes, Sequences, ConcatProperties DEF CloseQueue
<1>8. CASE Close
  <2>1. closes' \in 0..MaxCloses
    BY <1>8, Bounds DEF Close
  <2>2. unheard' \in BOOLEAN /\ conn' \in {"open", "closing", "closed"}
    BY <1>8 DEF Close, CloseConnection
  <2> QED
    BY <1>7, <1>8, <2>1, <2>2 DEF Close, sending, Task, Receiving, Call
<1>9. CASE Destroy
  <2>2. unheard' \in BOOLEAN /\ conn' \in {"open", "closing", "closed"}
    BY <1>9 DEF Destroy, CloseConnection
  <2> QED
    BY <1>7, <1>9, <2>2 DEF Destroy, sending, Task, Receiving, Call
<1>10. ASSUME NEW size \in MsgSizes, HandleMessage(size) PROVE TypeOK'
  <2> DEFINE msg == [id |-> NextId, size |-> size]
  <2>1. NextId \in 1..MaxMessages
    BY <1>10, Bounds DEF HandleMessage, NextId
  <2>2. msg \in Message /\ [ec |-> "ok", msg |-> msg] \in Datum
    BY <2>1 DEF Message, Datum
  <2> HIDE DEF msg
  <2>3. waiting' \in Seq(Call) /\ data' \in Seq(Datum) /\ tasks' \in Seq(Task)
    BY <1>10, <2>2, ProduceTypes DEF HandleMessage, Deliver, msg
  <2>4. arrived' \in Seq(Message)
    BY <1>10, <2>2, AppendProperties DEF HandleMessage, Deliver, msg
  <2> QED
    BY <1>10, <2>3, <2>4 DEF HandleMessage, Deliver, sending, network, Task,
                            Receiving, Call
<1>11. CASE TransportFails
  BY <1>11 DEF TransportFails, sending, queue
<1>12. CASE Terminate
  <2>1. CloseNotice \in Datum
    BY DEF CloseNotice, Datum
  <2>2. waiting' \in Seq(Call) /\ data' \in Seq(Datum) /\ tasks' \in Seq(Task)
    BY <1>12, <2>1, ProduceTypes, Sequences DEF Terminate, queue
  <2> QED
    BY <1>12, <2>2 DEF Terminate, sending, Task, Receiving, Call
<1>13. CASE UNCHANGED vars
  BY <1>13 DEF vars
<1> QED
  BY <1>1, <1>2, <1>3, <1>4, <1>5, <1>6, <1>8, <1>9, <1>10, <1>11, <1>12, <1>13
     DEF Next, RunTask

(* Every variable keeps its type.                                            *)
THEOREM TypeCorrect == Spec => []TypeOK
<1> QED
  BY TypeInit, TypeStep, PTL DEF Spec

-----------------------------------------------------------------------------
(* What the actions do to the numbers.  Every step is one of these moves of a*)
(* receive n and of a message numbered k, 0 when there is none.              *)
Done == OpsOf(results, {"complete"})
Asked == OpsOf(tasks, {"receive", "complete"})
Completing == OpsOf(tasks, {"complete"})
Posted == OpsOf(tasks, {"receive"})
SendsDone == OpsOf(sent, {"sent"})
SendsLeft == OpsOf(tasks, {"sent"})
DoneIds == IdsOf(results)
TaskIds == IdsOf(tasks)

Alike(u, s) ==
    Numbers(u) = Numbers(s) /\ (Once(u) <=> Once(s)) /\ (InOrder(u) <=> InOrder(s))

SameSends == Alike(SendsLeft', SendsLeft) /\ UNCHANGED <<sends, sent>>
SameResults == UNCHANGED <<issued, results>>

Asks(n) ==           \* a new receive is posted
    /\ issued' = n /\ n = issued + 1
    /\ Joined(Asked', Asked, <<n>>) /\ Joined(Posted', Posted, <<n>>)
    /\ Alike(Completing', Completing) /\ Alike(TaskIds', TaskIds) /\ SameSends
    /\ UNCHANGED <<results, queue>>
Parks(n) ==          \* a posted receive waits for a datum
    /\ Joined(Asked, <<n>>, Asked') /\ Joined(Posted, <<n>>, Posted')
    /\ Joined(waiting', waiting, <<n>>)
    /\ Alike(Completing', Completing) /\ Alike(TaskIds', TaskIds) /\ SameSends
    /\ data = <<>> /\ SameResults /\ UNCHANGED data
Takes(n, k) ==       \* a posted receive completes, with queued data or an error
    /\ \E a \in Seq(Nat) : Joined(Asked, <<n>>, a) /\ Joined(Asked', a, <<n>>)
    /\ Joined(Posted, <<n>>, Posted') /\ Joined(Completing', Completing, <<n>>)
    /\ Joined(TaskIds', TaskIds, <<k>>) /\ SameSends
    /\ SameResults /\ UNCHANGED waiting
    /\ \/ k = 0 /\ transportEc /\ UNCHANGED data
       \/ data # <<>> /\ Joined(DataIds(data), <<k>>, DataIds(data)')
Answers(n, k) ==     \* a waiting receive completes
    /\ Joined(waiting, <<n>>, waiting') /\ Joined(Asked', Asked, <<n>>)
    /\ Joined(Completing', Completing, <<n>>) /\ Alike(Posted', Posted)
    /\ Joined(TaskIds', TaskIds, <<k>>) /\ SameSends
    /\ waiting # <<>> /\ SameResults /\ UNCHANGED data
Stores(k) ==         \* a datum waits for a receive
    /\ Joined(DataIds(data)', DataIds(data), <<k>>)
    /\ waiting = <<>> /\ SameResults /\ UNCHANGED <<waiting, tasks, sending>>
Reports(n, k) ==     \* a completion runs
    /\ Joined(Asked, <<n>>, Asked') /\ Joined(Completing, <<n>>, Completing')
    /\ Joined(Done', Done, <<n>>) /\ Alike(Posted', Posted)
    /\ Joined(TaskIds, <<k>>, TaskIds') /\ Joined(DoneIds', DoneIds, <<k>>)
    /\ SameSends /\ UNCHANGED <<issued, queue>>
Drains ==            \* every waiting receive completes, the data are discarded
    /\ Joined(Asked', Asked, waiting) /\ Joined(Completing', Completing, waiting)
    /\ Alike(Posted', Posted) /\ Alike(TaskIds', TaskIds) /\ SameSends
    /\ waiting' = <<>> /\ data' = <<>> /\ SameResults
Otherwise ==         \* a send is posted or completes, or nothing moves
    /\ Alike(Asked', Asked) /\ Alike(Completing', Completing)
    /\ Alike(Posted', Posted) /\ Alike(TaskIds', TaskIds)
    /\ SameResults /\ UNCHANGED queue
    /\ \/ SameSends
       \/ /\ sends' = sends + 1 /\ sent' = sent
          /\ Joined(SendsLeft', SendsLeft, <<sends'>>)
       \/ \E n \in 1..MaxSends : /\ Joined(SendsLeft, <<n>>, SendsLeft')
                                /\ Joined(SendsDone', SendsDone, <<n>>)
                                /\ sends' = sends

LEMMA AlikeItself == \A s : Alike(s, s)
BY DEF Alike

LEMMA JoinedNothing ==
    \A u, s : Joined(u, s, <<0>>) \/ Joined(u, <<0>>, s) => Alike(u, s)
<1>1. Numbers(<<0>>) = {} /\ Once(<<0>>) /\ InOrder(<<0>>)
  BY SingleNumber
<1>2. ASSUME NEW u, NEW s, Joined(u, s, << 0 >>) PROVE Alike(u, s)
  BY <1>1, <1>2 DEF Joined, Alike, Below
<1>3. ASSUME NEW u, NEW s, Joined(u, << 0 >>, s) PROVE Alike(u, s)
  BY <1>1, <1>3 DEF Joined, Alike, Below
<1> QED
  BY <1>2, <1>3

LEMMA OpValues ==
    ASSUME NEW x \in Task
    PROVE  /\ x.kind = "receive" =>
                 /\ Op(x, {"receive", "complete"}) = x.op /\ Op(x, {"receive"}) = x.op
                 /\ Op(x, {"complete"}) = 0 /\ Op(x, {"sent"}) = 0 /\ Id(x) = 0
                 /\ x.op \in Call
           /\ x.kind = "complete" =>
                 /\ Op(x, {"receive", "complete"}) = x.op /\ Op(x, {"receive"}) = 0
                 /\ Op(x, {"complete"}) = x.op /\ Op(x, {"sent"}) = 0
                 /\ Id(x) = x.msg.id /\ x.op \in Call
           /\ x.kind = "sent" =>
                 /\ Op(x, {"receive", "complete"}) = 0 /\ Op(x, {"receive"}) = 0
                 /\ Op(x, {"complete"}) = 0 /\ Op(x, {"sent"}) = x.op /\ Id(x) = 0
                 /\ x.op \in 1..MaxSends
<1>1. x.kind = "receive" => x.op \in Call
  BY DEF Task, Completion, Sent, Receiving, Call
<1>2. x.kind = "complete" => x.op \in Call
  BY DEF Task, Completion, Sent, Receiving, Call
<1>3. x.kind = "sent" => x.op \in 1..MaxSends
  BY DEF Task, Completion, Sent, Receiving, Call
<1> QED
  BY <1>1, <1>2, <1>3 DEF Op, Id

LEMMA ConsumedNumbers ==
    ASSUME NEW n \in Call, NEW d \in Datum
    PROVE  /\ Consumed(n, d) \in Task /\ Consumed(n, d).kind = "complete"
           /\ Consumed(n, d).op = n /\ Consumed(n, d).msg = d.msg
           /\ Id(Consumed(n, d)) = d.msg.id
<1>1. d.ec # "ok" => d.msg = NoMessage
  BY DEF Datum
<1>2. /\ Consumed(n, d).kind = "complete" /\ Consumed(n, d).op = n
      /\ Consumed(n, d).msg = d.msg
  BY <1>1 DEF Consumed, Complete
<1> QED
  BY <1>2, CompletionTypes DEF Id

LEMMA AskEffect ==
    ASSUME TypeOK, AsyncReceive
    PROVE  \E n \in Call : Asks(n)
<1> DEFINE n == issued + 1
           x == Receive(n)
<1>0. issued \in Nat /\ MaxReceives \in Nat
  BY Sequences, Bounds
<1>1. n \in Call /\ issued' = n /\ tasks' = Append(tasks, x)
  <2>1. issued < MaxReceives /\ issued' = n /\ tasks' = Append(tasks, x)
    BY DEF AsyncReceive
  <2> QED
    BY <1>0, <2>1 DEF Call
<1>2. x \in Task /\ x.kind = "receive" /\ x.op = n
  BY <1>1, CompletionTypes DEF Receive
<1>3. tasks \in Seq(Task)
  BY Sequences
<1> HIDE DEF x
<1>4. /\ Joined(Asked', Asked, <<n>>) /\ Joined(Posted', Posted, <<n>>)
      /\ Joined(Completing', Completing, <<0>>) /\ Joined(TaskIds', TaskIds, <<0>>)
      /\ Joined(SendsLeft', SendsLeft, <<0>>)
  BY <1>1, <1>2, <1>3, OpValues, Posting
     DEF Asked, Posted, Completing, TaskIds, SendsLeft
<1> QED
  BY <1>1, <1>4, JoinedNothing DEF Asks, SameSends, AsyncReceive, sending, queue

LEMMA PostSendEffect ==
    ASSUME TypeOK, AsyncSend
    PROVE  Otherwise
<1> DEFINE x == [kind |-> "sent", op |-> sends', ok |-> conn = "open"]
<1>1. sends' = sends + 1 /\ sends' \in 1..MaxSends /\ tasks' = Append(tasks, x)
  BY Sequences, Bounds DEF AsyncSend
<1>2. x \in Task /\ x.kind = "sent" /\ x.op = sends'
  BY <1>1 DEF Task, Sent
<1>3. tasks \in Seq(Task)
  BY Sequences
<1> HIDE DEF x
<1>4. /\ Joined(Asked', Asked, <<0>>) /\ Joined(Posted', Posted, <<0>>)
      /\ Joined(Completing', Completing, <<0>>) /\ Joined(TaskIds', TaskIds, <<0>>)
      /\ Joined(SendsLeft', SendsLeft, <<sends'>>)
  BY <1>1, <1>2, <1>3, OpValues, Posting
     DEF Asked, Posted, Completing, TaskIds, SendsLeft
<1> QED
  BY <1>1, <1>4, JoinedNothing DEF Otherwise, SameResults, AsyncSend, queue

LEMMA SentEffect ==
    ASSUME TypeOK, RunSent
    PROVE  Otherwise
<1> DEFINE x == Head(tasks)
<1>1. /\ tasks # <<>> /\ x \in Task /\ x.kind = "sent"
      /\ tasks' = Tail(tasks) /\ sent' = Append(sent, x)
      /\ tasks \in Seq(Task) /\ sent \in Seq(Task)
  BY Sequences DEF RunSent
<1> HIDE DEF x
<1>2. x.op \in 1..MaxSends
  BY <1>1, OpValues
<1>3. /\ Joined(Asked, <<0>>, Asked') /\ Joined(Posted, <<0>>, Posted')
      /\ Joined(Completing, <<0>>, Completing') /\ Joined(TaskIds, <<0>>, TaskIds')
      /\ Joined(SendsLeft, <<x.op>>, SendsLeft')
  BY <1>1, OpValues, Running DEF x, Asked, Posted, Completing, TaskIds, SendsLeft
<1>4. Joined(SendsDone', SendsDone, <<x.op>>)
  BY <1>1, OpValues, Posting DEF SendsDone
<1>5. ASSUME NEW u, NEW s, Alike(u, s) PROVE Alike(s, u)
  BY <1>5 DEF Alike
<1> QED
  BY <1>2, <1>3, <1>4, <1>5, JoinedNothing DEF Otherwise, SameResults, RunSent, queue

LEMMA ReportEffect ==
    ASSUME TypeOK, RunComplete
    PROVE  \E n \in Call, k \in Nat : Reports(n, k)
<1> DEFINE x == Head(tasks)
<1>1. /\ tasks # <<>> /\ x \in Task /\ x.kind = "complete"
      /\ tasks' = Tail(tasks) /\ results' = Append(results, x)
      /\ tasks \in Seq(Task) /\ results \in Seq(Task)
  BY Sequences DEF RunComplete
<1> HIDE DEF x
<1>2. x.op \in Call /\ Id(x) \in Nat
  BY <1>1, OpValues, TaskNumbers DEF IdIn
<1>3. /\ Joined(Asked, <<x.op>>, Asked') /\ Joined(Posted, <<0>>, Posted')
      /\ Joined(Completing, <<x.op>>, Completing')
      /\ Joined(TaskIds, <<Id(x)>>, TaskIds')
      /\ Joined(SendsLeft, <<0>>, SendsLeft')
  BY <1>1, OpValues, Running DEF x, Asked, Posted, Completing, TaskIds, SendsLeft
<1>4. Joined(Done', Done, <<x.op>>) /\ Joined(DoneIds', DoneIds, <<Id(x)>>)
  BY <1>1, OpValues, Posting DEF Done, DoneIds
<1>5. ASSUME NEW u, NEW s, Alike(u, s) PROVE Alike(s, u)
  BY <1>5 DEF Alike
<1>6. Reports(x.op, Id(x))
  BY <1>3, <1>4, <1>5, JoinedNothing DEF Reports, SameSends, RunComplete, sending, queue
<1> QED
  BY <1>2, <1>6

(* A receive x leaves the front of the task queue; its completion y, when    *)
(* there is one already, goes to the end.                                    *)
LEMMA Requeue ==
    ASSUME TypeOK, RunReceive
    PROVE  LET x == Head(tasks)
               q == Tail(tasks)
           IN  /\ x \in Task /\ x.op \in Call /\ q \in Seq(Task)
               /\ tasks' = q =>
                    /\ Joined(Asked, <<x.op>>, Asked')
                    /\ Joined(Posted, <<x.op>>, Posted')
                    /\ Alike(Completing', Completing) /\ Alike(TaskIds', TaskIds)
                    /\ Alike(SendsLeft', SendsLeft)
               /\ \A y \in Task :
                    y.kind = "complete" /\ y.op = x.op /\ tasks' = Append(q, y) =>
                    /\ \E a \in Seq(Nat) : /\ Joined(Asked, <<x.op>>, a)
                                           /\ Joined(Asked', a, <<x.op>>)
                    /\ Joined(Posted, <<x.op>>, Posted')
                    /\ Joined(Completing', Completing, <<x.op>>)
                    /\ Joined(TaskIds', TaskIds, <<Id(y)>>)
                    /\ Alike(SendsLeft', SendsLeft)
<1> DEFINE x == Head(tasks)
           q == Tail(tasks)
<1>1. /\ tasks # <<>> /\ x \in Task /\ x.kind = "receive" /\ q \in Seq(Task)
      /\ tasks \in Seq(Task)
  BY Sequences DEF RunReceive
<1>2. /\ Joined(Asked, <<x.op>>, OpsOf(q, {"receive", "complete"}))
      /\ Joined(Posted, <<x.op>>, OpsOf(q, {"receive"}))
      /\ Joined(Completing, <<0>>, OpsOf(q, {"complete"}))
      /\ Joined(TaskIds, <<0>>, IdsOf(q))
      /\ Joined(SendsLeft, <<0>>, OpsOf(q, {"sent"}))
      /\ x.op \in Call
  BY <1>1, OpValues, Running DEF Asked, Posted, Completing, TaskIds, SendsLeft
<1> HIDE DEF x, q
<1>3. /\ Alike(OpsOf(q, {"complete"}), Completing) /\ Alike(IdsOf(q), TaskIds)
      /\ Alike(OpsOf(q, {"sent"}), SendsLeft)
  <2>1. ASSUME NEW u, NEW s, Alike(u, s) PROVE Alike(s, u)
    BY <2>1 DEF Alike
  <2> QED
    BY <1>2, <2>1, JoinedNothing
<1>4. ASSUME tasks' = q
      PROVE  /\ Joined(Asked, <<x.op>>, Asked')
             /\ Joined(Posted, <<x.op>>, Posted')
             /\ Alike(Completing', Completing) /\ Alike(TaskIds', TaskIds)
             /\ Alike(SendsLeft', SendsLeft)
  BY <1>2, <1>3, <1>4 DEF Asked, Posted, Completing, TaskIds, SendsLeft
<1>5. ASSUME NEW y \in Task, y.kind = "complete", y.op = x.op, tasks' = Append(q, y)
      PROVE  /\ \E a \in Seq(Nat) : /\ Joined(Asked, <<x.op>>, a)
                                    /\ Joined(Asked', a, <<x.op>>)
             /\ Joined(Posted, <<x.op>>, Posted')
             /\ Joined(Completing', Completing, <<x.op>>)
             /\ Joined(TaskIds', TaskIds, <<Id(y)>>)
             /\ Alike(SendsLeft', SendsLeft)
  <2>1. /\ Joined(Asked', OpsOf(q, {"receive", "complete"}), <<x.op>>)
        /\ Joined(Posted', OpsOf(q, {"receive"}), <<0>>)
        /\ Joined(Completing', OpsOf(q, {"complete"}), <<x.op>>)
        /\ Joined(TaskIds', IdsOf(q), <<Id(y)>>)
        /\ Joined(SendsLeft', OpsOf(q, {"sent"}), <<0>>)
    BY <1>1, <1>5, OpValues, Posting DEF Asked, Posted, Completing, TaskIds, SendsLeft
  <2>2. \E a \in Seq(Nat) : Joined(Asked, <<x.op>>, a) /\ Joined(Asked', a, <<x.op>>)
    BY <1>1, <1>2, <2>1, NumbersAreNumbers
  <2>3. ASSUME NEW u, NEW s, NEW v, NEW w, Joined(u, s, w), Alike(s, v)
        PROVE  Joined(u, v, w)
    BY <2>3 DEF Joined, Alike
  <2>4. /\ Joined(Completing', Completing, <<x.op>>)
        /\ Joined(TaskIds', TaskIds, <<Id(y)>>)
    BY <1>3, <2>1, <2>3
  <2>5. Alike(Posted', OpsOf(q, {"receive"})) /\ Alike(SendsLeft', OpsOf(q, {"sent"}))
    BY <2>1, JoinedNothing
  <2>6. ASSUME NEW u, NEW s, NEW v, NEW w, Joined(u, s, v), Alike(w, v)
        PROVE  Joined(u, s, w)
    BY <2>6 DEF Joined, Alike
  <2>7. Joined(Posted, <<x.op>>, Posted')
    BY <1>2, <2>5, <2>6
  <2>8. Alike(SendsLeft', SendsLeft)
    BY <1>3, <2>5 DEF Alike
  <2> QED
    BY <2>2, <2>4, <2>7, <2>8
<1> QED
  BY <1>1, <1>2, <1>4, <1>5 DEF x, q

LEMMA ReceiveEffect ==
    ASSUME TypeOK, RunReceive
    PROVE  \E n \in Call : Parks(n) \/ \E k \in Nat : Takes(n, k)
<1> DEFINE n == Head(tasks).op
           q == Tail(tasks)
<1>1. n \in Call /\ q \in Seq(Task)
  BY Requeue
<1>2. CASE transportEc
  <2> DEFINE y == Complete(n, "transport", NoMessage, 0)
  <2>1. y \in Task /\ y.kind = "complete" /\ y.op = n /\ Id(y) = 0
    BY <1>1, CompletionTypes DEF Complete, Id, NoMessage
  <2>2. tasks' = Append(q, y) /\ UNCHANGED queue
    BY <1>2 DEF RunReceive
  <2> HIDE DEF y
  <2>3. Takes(n, 0)
    BY <1>2, <2>1, <2>2, Requeue DEF Takes, SameSends, SameResults, RunReceive, sending, queue
  <2> QED
    BY <1>1, <2>3
<1>3. CASE ~transportEc /\ data = <<>>
  <2>1. tasks' = q /\ waiting' = Append(waiting, n) /\ data' = data
    BY <1>3 DEF RunReceive, Consume
  <2>2. Joined(waiting', waiting, <<n>>)
    <3>1. waiting \in Seq(Nat) /\ n \in Nat
      BY <1>1, Sequences DEF Call
    <3>2. Append(waiting, n) = waiting \o <<n>>
      BY <3>1, AppendIsConcat
    <3>3. <<n>> \in Seq(Nat)
      BY <3>1
    <3>4. Joined(waiting \o <<n>>, waiting, <<n>>)
      BY <3>1, <3>3, ConcatNumbers
    <3> QED
      BY <2>1, <3>2, <3>4
  <2>3. Parks(n)
    BY <1>3, <2>1, <2>2, Requeue DEF Parks, SameSends, SameResults, RunReceive, sending
  <2> QED
    BY <1>1, <2>3
<1>4. CASE ~transportEc /\ data # <<>>
  <2> DEFINE d == Head(data)
             y == Consumed(n, d)
  <2>1. tasks' = Append(q, y) /\ data' = Tail(data) /\ waiting' = waiting
    BY <1>4 DEF RunReceive, Consume
  <2>2. d \in Datum /\ d.msg.id \in Nat
    BY <1>4, Sequences, TaskNumbers DEF DatumId
  <2>3. y \in Task /\ y.kind = "complete" /\ y.op = n /\ Id(y) = d.msg.id
    BY <1>1, <2>2, ConsumedNumbers
  <2>4. Joined(DataIds(data), <<d.msg.id>>, DataIds(data'))
    BY <1>4, <2>1, Sequences, DataQueue
  <2> HIDE DEF y, d
  <2>5. Takes(n, d.msg.id)
    BY <1>4, <2>1, <2>3, <2>4, Requeue
       DEF Takes, SameSends, SameResults, RunReceive, sending, queue
  <2> QED
    BY <1>1, <2>2, <2>5
<1> QED
  BY <1>2, <1>3, <1>4

LEMMA ProduceEffect ==
    ASSUME TypeOK, NEW d \in Datum, Produce(d, tasks),
           UNCHANGED <<sending, issued, results>>
    PROVE  \/ Stores(d.msg.id)
           \/ \E n \in Call : Answers(n, d.msg.id)
<1>1. CASE waiting = <<>>
  <2>1. data' = Append(data, d) /\ tasks' = tasks /\ waiting' = waiting
    BY <1>1 DEF Produce
  <2>2. Joined(DataIds(data'), DataIds(data), <<d.msg.id>>)
    BY <2>1, Sequences, DataQueue
  <2> QED
    BY <1>1, <2>1, <2>2 DEF Stores, SameResults, sending
<1>2. CASE waiting # <<>>
  <2>0. /\ waiting \in Seq(Nat) /\ tasks \in Seq(Task)
        /\ Head(waiting) \in Call /\ <<Head(waiting)>> \in Seq(Nat)
        /\ Tail(waiting) \in Seq(Nat)
        /\ waiting = <<Head(waiting)>> \o Tail(waiting)
    <3>1. waiting \in Seq(Call) /\ waiting \in Seq(Nat) /\ tasks \in Seq(Task)
      BY Sequences
    <3>2. Head(waiting) \in Call
      BY <1>2, <3>1
    <3> QED
      BY <1>2, <3>1, <3>2
  <2> DEFINE n == Head(waiting)
             y == Consumed(n, d)
  <2>1. tasks' = Append(tasks, y) /\ waiting' = Tail(waiting) /\ data' = data
    BY <1>2 DEF Produce
  <2>2. /\ n \in Call /\ waiting \in Seq(Nat) /\ tasks \in Seq(Task)
        /\ Joined(waiting, <<n>>, waiting')
    <3>1. Joined(<<n>> \o Tail(waiting), <<n>>, Tail(waiting))
      BY <2>0, ConcatNumbers
    <3> QED
      BY <2>0, <2>1, <3>1, Zenon
  <2>3. y \in Task /\ y.kind = "complete" /\ y.op = n /\ Id(y) = d.msg.id
    BY <2>2, ConsumedNumbers
  <2> HIDE DEF y, n
  <2>4. /\ Joined(Asked', Asked, <<n>>) /\ Joined(Posted', Posted, <<0>>)
        /\ Joined(Completing', Completing, <<n>>)
        /\ Joined(TaskIds', TaskIds, <<d.msg.id>>)
        /\ Joined(SendsLeft', SendsLeft, <<0>>)
    BY <2>1, <2>2, <2>3, OpValues, Posting
       DEF Asked, Posted, Completing, TaskIds, SendsLeft
  <2>5. Answers(n, d.msg.id)
    BY <1>2, <2>1, <2>2, <2>4, JoinedNothing
       DEF Answers, SameSends, SameResults, sending
  <2> QED
    BY <2>2, <2>5
<1> QED
  BY <1>1, <1>2

LEMMA DrainedNumbers ==
    ASSUME TypeOK
    PROVE  /\ OpsOf(Drained, {"receive", "complete"}) = waiting
           /\ OpsOf(Drained, {"complete"}) = waiting
           /\ Alike(OpsOf(Drained, {"receive"}), <<>>)
           /\ Alike(OpsOf(Drained, {"sent"}), <<>>)
           /\ Alike(IdsOf(Drained), <<>>)
<1>1. /\ waiting \in Seq(Call) /\ DOMAIN waiting = 1..Len(waiting)
      /\ DOMAIN Drained = DOMAIN waiting
      /\ \A i \in DOMAIN waiting : waiting[i] \in Call
  BY Sequences, LenProperties DEF Drained
<1>2. ASSUME NEW i \in DOMAIN waiting
      PROVE  /\ Drained[i].kind = "complete" /\ Drained[i].op = waiting[i]
             /\ Drained[i].msg.id = 0
  <2>1. Drained[i] = Consumed(waiting[i], Aborted)
    BY DEF Drained
  <2> QED
    BY <1>1, <2>1, ConsumedNumbers, CompletionTypes DEF Aborted, NoMessage
<1>3. /\ OpsOf(Drained, {"receive", "complete"}) = [i \in DOMAIN waiting |-> waiting[i]]
      /\ OpsOf(Drained, {"complete"}) = [i \in DOMAIN waiting |-> waiting[i]]
  BY <1>1, <1>2 DEF OpsOf
<1>4. waiting = [i \in DOMAIN waiting |-> waiting[i]]
  BY <1>1
<1>5. ASSUME NEW s, DOMAIN s = DOMAIN waiting, \A i \in DOMAIN s : s[i] = 0
      PROVE  Alike(s, <<>>)
  <2>1. Numbers(s) = {} /\ Once(s) /\ InOrder(s)
    BY <1>5 DEF Numbers, ToSet, Once, InOrder
  <2> QED
    BY <2>1, NoNumber DEF Alike
<1>6. Alike(OpsOf(Drained, {"receive"}), <<>>)
  BY <1>1, <1>2, <1>5 DEF OpsOf
<1>7. Alike(OpsOf(Drained, {"sent"}), <<>>)
  BY <1>1, <1>2, <1>5 DEF OpsOf
<1>8. Alike(IdsOf(Drained), <<>>)
  BY <1>1, <1>2, <1>5 DEF IdsOf
<1> QED
  BY <1>3, <1>4, <1>6, <1>7, <1>8

LEMMA CloseEffect ==
    ASSUME TypeOK, CloseQueue, UNCHANGED <<sending, issued, results>>
    PROVE  Drains
<1>1. tasks \in Seq(Task) /\ Drained \in Seq(Task) /\ tasks' = tasks \o Drained
  BY Sequences, DrainedTypes DEF CloseQueue
<1>2. /\ Joined(Asked', Asked, waiting) /\ Joined(Completing', Completing, waiting)
      /\ Joined(Posted', Posted, OpsOf(Drained, {"receive"}))
      /\ Joined(SendsLeft', SendsLeft, OpsOf(Drained, {"sent"}))
      /\ Joined(TaskIds', TaskIds, IdsOf(Drained))
  BY <1>1, PostingAll, DrainedNumbers DEF Asked, Completing, Posted, SendsLeft, TaskIds
<1>3. ASSUME NEW u, NEW s, NEW t, Joined(u, s, t), Alike(t, <<>>)
      PROVE  Alike(u, s)
  BY <1>3, NoNumber DEF Joined, Alike, Below
<1>4. Alike(Posted', Posted) /\ Alike(SendsLeft', SendsLeft) /\ Alike(TaskIds', TaskIds)
  BY <1>2, <1>3, DrainedNumbers
<1> QED
  BY <1>2, <1>4 DEF Drains, SameSends, SameResults, CloseQueue, sending

LEMMA NoEffect ==
    ASSUME UNCHANGED <<sending, queue, tasks, issued, results>>
    PROVE  Otherwise
BY AlikeItself DEF Otherwise, SameSends, SameResults, sending, queue,
                   Asked, Completing, Posted, TaskIds, SendsLeft

Move(n, k) ==
    \/ Asks(n) \/ Parks(n) \/ Takes(n, k) \/ Answers(n, k) \/ Stores(k)
    \/ Reports(n, k) \/ Drains \/ Otherwise

LEMMA OneCall ==
    ASSUME NEW n \in Nat \ {0}
    PROVE  Numbers(<<n>>) = {n} /\ Once(<<n>>) /\ InOrder(<<n>>)
BY SingleNumber

-----------------------------------------------------------------------------
(* Every receive is in one place.                                            *)
OneEach ==
    /\ Once(Done) /\ Once(Asked) /\ Once(waiting)
    /\ Numbers(Done) \cap Numbers(Asked) = {}
    /\ Numbers(Done) \cap Numbers(waiting) = {}
    /\ Numbers(Asked) \cap Numbers(waiting) = {}
    /\ Numbers(Done) \union (Numbers(Asked) \union Numbers(waiting)) = 1..issued

SendsInTurn ==
    /\ InOrder(SendsDone) /\ InOrder(SendsLeft)
    /\ Below(Numbers(SendsDone), Numbers(SendsLeft))
    /\ Numbers(SendsDone) \union Numbers(SendsLeft) = 1..sends

LEMMA OneEachMeans ==
    ASSUME TypeOK
    PROVE  EachHandlerOnce <=> OneEach /\ SendsInTurn
<1>1. /\ Done \in Seq(Nat) /\ Asked \in Seq(Nat) /\ waiting \in Seq(Nat)
      /\ SendsDone \in Seq(Nat) /\ SendsLeft \in Seq(Nat)
  BY Sequences, NumbersAreNumbers DEF Done, Asked, SendsDone, SendsLeft
<1>2. Asked \o waiting \in Seq(Nat) /\ Joined(Asked \o waiting, Asked, waiting)
  BY <1>1, ConcatNumbers
<1>3. Joined(Receives, Done, Asked \o waiting)
  BY <1>1, <1>2, ConcatNumbers DEF Receives, Done, Asked
<1>4. Joined(Sendings, SendsDone, SendsLeft)
  BY <1>1, ConcatNumbers DEF Sendings, SendsDone, SendsLeft
<1>5. Numbers(Receives) = 1..issued /\ Once(Receives) <=> OneEach
  <2> HIDE DEF Receives
  <2> DEFINE aw == Asked \o waiting
  <2>1. Joined(aw, Asked, waiting) /\ Joined(Receives, Done, aw)
    BY <1>2, <1>3
  <2> HIDE DEF aw
  <2> QED
    BY <2>1 DEF Joined, OneEach
<1>6. Numbers(Sendings) = 1..sends /\ InOrder(Sendings) <=> SendsInTurn
  BY <1>4 DEF Joined, SendsInTurn
<1> QED
  BY <1>5, <1>6 DEF EachHandlerOnce

LEMMA OneEachKept ==
    ASSUME TypeOK, OneEach, NEW n \in Nat \ {0}, NEW k, Move(n, k)
    PROVE  OneEach'
<1>1. Numbers(<<n>>) = {n} /\ Once(<<n>>) /\ n \in Nat \ {0} /\ issued \in Nat
  BY OneCall, Sequences
<1>2. CASE Asks(n)
  <2>1. /\ Done' = Done /\ waiting' = waiting /\ n \notin 1..issued
        /\ 1..issued' = (1..issued) \union {n}
    BY <1>1, <1>2 DEF Asks, Done, queue
  <2>2. Joined(Asked', Asked, <<n>>)
    BY <1>2 DEF Asks
  <2> QED
    BY <1>1, <2>1, <2>2 DEF OneEach, Joined
<1>3. CASE Parks(n)
  <2>1. Done' = Done /\ issued' = issued
    BY <1>3 DEF Parks, SameResults, Done
  <2>2. Joined(Asked, <<n>>, Asked') /\ Joined(waiting', waiting, <<n>>)
    BY <1>3 DEF Parks
  <2> QED
    BY <1>1, <2>1, <2>2 DEF OneEach, Joined
<1>4. CASE Takes(n, k)
  <2>1. Done' = Done /\ issued' = issued /\ waiting' = waiting
    BY <1>4 DEF Takes, SameResults, Done
  <2>2. PICK a \in Seq(Nat) : Joined(Asked, <<n>>, a) /\ Joined(Asked', a, <<n>>)
    BY <1>4 DEF Takes
  <2>3. Numbers(Asked') = Numbers(Asked) /\ (Once(Asked) => Once(Asked'))
    BY <1>1, <2>2 DEF Joined
  <2> QED
    BY <2>1, <2>3 DEF OneEach
<1>5. CASE Answers(n, k)
  <2>1. Done' = Done /\ issued' = issued
    BY <1>5 DEF Answers, SameResults, Done
  <2>2. Joined(waiting, <<n>>, waiting') /\ Joined(Asked', Asked, <<n>>)
    BY <1>5 DEF Answers
  <2> QED
    BY <1>1, <2>1, <2>2 DEF OneEach, Joined
<1>6. CASE Stores(k)
  BY <1>6 DEF Stores, SameResults, OneEach, Done, Asked
<1>7. CASE Reports(n, k)
  <2>1. waiting' = waiting /\ issued' = issued
    BY <1>7 DEF Reports, queue
  <2>2. Joined(Asked, <<n>>, Asked') /\ Joined(Done', Done, <<n>>)
    BY <1>7 DEF Reports
  <2> QED
    BY <1>1, <2>1, <2>2 DEF OneEach, Joined
<1>8. CASE Drains
  <2>1. Done' = Done /\ issued' = issued /\ waiting' = <<>>
    BY <1>8 DEF Drains, SameResults, Done
  <2>2. Joined(Asked', Asked, waiting)
    BY <1>8 DEF Drains
  <2>3. Numbers(<<>>) = {} /\ Once(<<>>)
    BY NoNumber
  <2> QED
    BY <2>1, <2>2, <2>3 DEF OneEach, Joined
<1>9. CASE Otherwise
  <2>1. Done' = Done /\ issued' = issued /\ waiting' = waiting /\ Alike(Asked', Asked)
    BY <1>9 DEF Otherwise, SameResults, Done, queue
  <2> QED
    BY <2>1 DEF OneEach, Alike
<1> QED
  BY <1>2, <1>3, <1>4, <1>5, <1>6, <1>7, <1>8, <1>9 DEF Move

LEMMA SendsKept ==
    ASSUME TypeOK, SendsInTurn, NEW n \in Nat \ {0}, NEW k, Move(n, k)
    PROVE  SendsInTurn'
<1>1. CASE SameSends
  BY <1>1 DEF SameSends, SendsInTurn, SendsDone, Alike
<1>2. CASE /\ sends' = sends + 1 /\ sent' = sent
           /\ Joined(SendsLeft', SendsLeft, <<sends'>>)
  <2>1. /\ sends \in Nat /\ sends' \in Nat \ {0} /\ SendsDone' = SendsDone
        /\ 1..sends' = (1..sends) \union {sends'} /\ \A i \in 1..sends : i < sends'
    BY <1>2, Sequences DEF SendsDone
  <2>2. Numbers(<<sends'>>) = {sends'} /\ InOrder(<<sends'>>)
    BY <2>1, SingleNumber
  <2>3. Numbers(SendsLeft) \subseteq 1..sends /\ Numbers(SendsDone) \subseteq 1..sends
    BY DEF SendsInTurn
  <2>4. Below(Numbers(SendsLeft), {sends'}) /\ Below(Numbers(SendsDone), {sends'})
    BY <2>1, <2>3 DEF Below
  <2> HIDE DEF SendsLeft, SendsDone
  <2> QED
    BY <1>2, <2>1, <2>2, <2>4 DEF SendsInTurn, Joined, Below
<1>3. ASSUME NEW m \in 1..MaxSends, Joined(SendsLeft, <<m>>, SendsLeft'),
             Joined(SendsDone', SendsDone, <<m>>), sends' = sends
      PROVE  SendsInTurn'
  <2>1. Numbers(<<m>>) = {m} /\ InOrder(<<m>>)
    BY SingleNumber
  <2> QED
    BY <1>3, <2>1 DEF SendsInTurn, Joined, Below
<1>4. Stores(k) => SameSends
  BY AlikeItself DEF Stores, SameSends, SendsLeft, sending
<1> QED
  BY <1>1, <1>2, <1>3, <1>4
     DEF Move, Asks, Parks, Takes, Answers, Reports, Drains, Otherwise

-----------------------------------------------------------------------------
(* Receives complete in the order of the calls.  Until the transport fails,  *)
(* the completed ones come before those about to complete, these before the  *)
(* waiting ones, and these before the posted ones.                           *)
OneSided == waiting = <<>> \/ data = <<>>
Ordered ==
    /\ InOrder(Done) /\ InOrder(Completing) /\ InOrder(waiting) /\ InOrder(Posted)
    /\ Below(Numbers(Done), Numbers(Completing))
    /\ Below(Numbers(Done), Numbers(waiting))
    /\ Below(Numbers(Done), Numbers(Posted))
    /\ Below(Numbers(Completing), Numbers(waiting))
    /\ Below(Numbers(Completing), Numbers(Posted))
    /\ Below(Numbers(waiting), Numbers(Posted))
    /\ Numbers(Done) \union Numbers(Completing) \subseteq 1..issued
    /\ Numbers(waiting) \union Numbers(Posted) \subseteq 1..issued

LEMMA OrderedMeans ==
    TypeOK /\ (~transportEc => Ordered) => CompletesInCallOrder
<1> SUFFICES ASSUME TypeOK, Ordered PROVE InOrder(Done \o Completing)
  BY DEF CompletesInCallOrder, Done, Completing
<1>1. Done \in Seq(Nat) /\ Completing \in Seq(Nat)
  BY Sequences, NumbersAreNumbers DEF Done, Completing
<1> QED
  BY <1>1, ConcatNumbers DEF Joined, Ordered

LEMMA OneSidedKept ==
    ASSUME OneSided, NEW n, NEW k, Move(n, k)
    PROVE  OneSided'
<1>1. CASE Parks(n)
  BY <1>1 DEF Parks, OneSided
<1>2. CASE Takes(n, k)
  BY <1>2 DEF Takes, OneSided
<1>3. CASE Answers(n, k)
  BY <1>3 DEF Answers, OneSided
<1>4. CASE Stores(k)
  BY <1>4 DEF Stores, OneSided
<1> QED
  BY <1>1, <1>2, <1>3, <1>4 DEF Move, Asks, Reports, Drains, Otherwise, OneSided, queue

LEMMA OrderedKept ==
    ASSUME TypeOK, Ordered, OneSided, ~transportEc,
           NEW n \in Nat \ {0}, NEW k, Move(n, k)
    PROVE  Ordered'
<1>1. Numbers(<<n>>) = {n} /\ InOrder(<<n>>) /\ n \in Nat \ {0} /\ issued \in Nat
  BY OneCall, Sequences
<1>2. CASE Asks(n)
  <2>1. /\ Done' = Done /\ waiting' = waiting /\ issued' = n
        /\ 1..issued' = (1..issued) \union {n} /\ \A i \in 1..issued : i < n
    BY <1>1, <1>2 DEF Asks, Done, queue
  <2>2. Joined(Posted', Posted, <<n>>) /\ Alike(Completing', Completing)
    BY <1>2 DEF Asks
  <2>3. /\ Below(Numbers(Done), {n}) /\ Below(Numbers(Completing), {n})
        /\ Below(Numbers(waiting), {n}) /\ Below(Numbers(Posted), {n})
    BY <2>1 DEF Ordered, Below
  <2> QED
    BY <1>1, <2>1, <2>2, <2>3 DEF Ordered, Joined, Alike, Below
<1>3. CASE Parks(n)
  <2>1. Done' = Done /\ issued' = issued
    BY <1>3 DEF Parks, SameResults, Done
  <2>2. /\ Joined(Posted, <<n>>, Posted') /\ Joined(waiting', waiting, <<n>>)
        /\ Alike(Completing', Completing)
    BY <1>3 DEF Parks
  <2> QED
    BY <1>1, <2>1, <2>2 DEF Ordered, Joined, Alike, Below
<1>4. CASE Takes(n, k)
  <2>1. Done' = Done /\ issued' = issued /\ waiting' = waiting
    BY <1>4 DEF Takes, SameResults, Done
  <2>2. Joined(Posted, <<n>>, Posted') /\ Joined(Completing', Completing, <<n>>)
    BY <1>4 DEF Takes
  <2>3. Numbers(waiting) = {}
    BY <1>4, NoNumber DEF Takes, OneSided
  <2> QED
    BY <1>1, <2>1, <2>2, <2>3 DEF Ordered, Joined, Below
<1>5. CASE Answers(n, k)
  <2>1. Done' = Done /\ issued' = issued
    BY <1>5 DEF Answers, SameResults, Done
  <2>2. /\ Joined(waiting, <<n>>, waiting') /\ Joined(Completing', Completing, <<n>>)
        /\ Alike(Posted', Posted)
    BY <1>5 DEF Answers
  <2> QED
    BY <1>1, <2>1, <2>2 DEF Ordered, Joined, Alike, Below
<1>6. CASE Stores(k)
  BY <1>6 DEF Stores, SameResults, Ordered, Done, Completing, Posted
<1>7. CASE Reports(n, k)
  <2>1. waiting' = waiting /\ issued' = issued
    BY <1>7 DEF Reports, queue
  <2>2. /\ Joined(Completing, <<n>>, Completing') /\ Joined(Done', Done, <<n>>)
        /\ Alike(Posted', Posted)
    BY <1>7 DEF Reports
  <2> QED
    BY <1>1, <2>1, <2>2 DEF Ordered, Joined, Alike, Below
<1>8. CASE Drains
  <2>1. Done' = Done /\ issued' = issued /\ waiting' = <<>>
    BY <1>8 DEF Drains, SameResults, Done
  <2>2. Joined(Completing', Completing, waiting) /\ Alike(Posted', Posted)
    BY <1>8 DEF Drains
  <2>3. Numbers(<<>>) = {} /\ InOrder(<<>>)
    BY NoNumber
  <2> QED
    BY <2>1, <2>2, <2>3 DEF Ordered, Joined, Alike, Below
<1>9. CASE Otherwise
  <2>1. /\ Done' = Done /\ issued' = issued /\ waiting' = waiting
        /\ Alike(Completing', Completing) /\ Alike(Posted', Posted)
    BY <1>9 DEF Otherwise, SameResults, Done, queue
  <2> QED
    BY <2>1 DEF Ordered, Alike
<1> QED
  BY <1>2, <1>3, <1>4, <1>5, <1>6, <1>7, <1>8, <1>9 DEF Move

-----------------------------------------------------------------------------
(* The messages pass through in order.  arrived[i] is message number i, and  *)
(* only the messages that arrived are about.                                 *)
Known == ToSet(arrived) \union {NoMessage}
TasksWith(M) == {x \in Task : x.kind = "complete" => x.msg \in M}
DataWith(M) == {d \in Datum : d.msg \in M}
CarriesKnown ==
    /\ tasks \in Seq(TasksWith(Known)) /\ results \in Seq(TasksWith(Known))
    /\ data \in Seq(DataWith(Known))

InStream ==
    /\ InOrder(DoneIds) /\ InOrder(TaskIds) /\ InOrder(DataIds(data))
    /\ Below(Numbers(DoneIds), Numbers(TaskIds))
    /\ Below(Numbers(DoneIds), Numbers(DataIds(data)))
    /\ Below(Numbers(TaskIds), Numbers(DataIds(data)))
Ids == Numbers(DoneIds) \union (Numbers(TaskIds) \union Numbers(DataIds(data)))
NoGap ==
    /\ Ids \subseteq 1..Len(arrived)
    /\ closes = 0 /\ owner => Ids = 1..Len(arrived)

LEMMA StreamMeans ==
    ASSUME TypeOK, CarriesKnown, InStream, NoGap
    PROVE  StreamInOrder
<1>1. /\ DoneIds \in Seq(Nat) /\ TaskIds \in Seq(Nat) /\ DataIds(data) \in Seq(Nat)
  BY Sequences, NumbersAreNumbers DEF DoneIds, TaskIds
<1> DEFINE td == TaskIds \o DataIds(data)
<1>2. td \in Seq(Nat) /\ Joined(td, TaskIds, DataIds(data))
  BY <1>1, ConcatNumbers
<1>3. Joined(Stream, DoneIds, td)
  BY <1>1, <1>2, ConcatNumbers DEF Stream, DoneIds, TaskIds, DataIds
<1> HIDE DEF td
<1>4. InOrder(Stream)
  BY <1>2, <1>3 DEF Joined, InStream, Below
<1>5. Numbers(Stream) = Ids
  BY <1>2, <1>3 DEF Joined, Ids
<1>6. Carried \subseteq Known
  <2>1. \A i \in DOMAIN results : results[i] \in TasksWith(Known)
    BY DEF CarriesKnown
  <2>2. \A i \in DOMAIN results : results[i] \in Completion
    BY DEF TypeOK
  <2>3. \A i \in DOMAIN results : results[i].msg \in Known
    BY <2>1, <2>2 DEF TasksWith, Completion
  <2>4. \A i \in DOMAIN tasks : tasks[i] \in TasksWith(Known)
    BY DEF CarriesKnown
  <2>5. \A i \in DOMAIN tasks : tasks[i].kind = "complete" => tasks[i].msg \in Known
    BY <2>4 DEF TasksWith
  <2>6. \A i \in DOMAIN data : data[i] \in DataWith(Known)
    BY DEF CarriesKnown
  <2>7. \A i \in DOMAIN data : data[i].msg \in Known
    BY <2>6 DEF DataWith
  <2> QED
    BY <2>3, <2>5, <2>7 DEF Carried
<1> QED
  BY <1>4, <1>5, <1>6 DEF StreamInOrder, NoGap, Known

LEMMA NoData == Numbers(DataIds(<<>>)) = {} /\ InOrder(DataIds(<<>>))
<1>1. DataIds(<<>>) = <<>>
  BY DEF DataIds
<1> QED
  BY <1>1, NoNumber

LEMMA OneId ==
    ASSUME NEW k \in Nat
    PROVE  Numbers(<<k>>) = {k} \ {0} /\ InOrder(<<k>>)
BY SingleNumber

LEMMA StreamMoves ==
    ASSUME TypeOK, InStream, NEW n \in Nat \ {0}, NEW k \in Nat,
           Asks(n) \/ Parks(n) \/ Takes(n, k) \/ Reports(n, k) \/ Otherwise
    PROVE  InStream' /\ Ids' = Ids
<1>1. CASE Asks(n) \/ Parks(n) \/ Otherwise
  <2>1. DoneIds' = DoneIds /\ data' = data /\ Alike(TaskIds', TaskIds)
    BY <1>1 DEF Asks, Parks, Otherwise, SameResults, DoneIds, queue
  <2> QED
    BY <2>1 DEF InStream, Ids, Alike
<1>2. CASE Takes(n, k)
  <2>1. DoneIds' = DoneIds /\ Joined(TaskIds', TaskIds, <<k>>)
    BY <1>2 DEF Takes, SameResults, DoneIds
  <2>2. CASE k = 0 /\ data' = data
    <3>1. Alike(TaskIds', TaskIds)
      BY <2>1, <2>2, JoinedNothing
    <3> QED
      BY <2>1, <2>2, <3>1 DEF InStream, Ids, Alike
  <2>3. CASE Joined(DataIds(data), <<k>>, DataIds(data'))
    <3> DEFINE d == DataIds(data)
               e == DataIds(data')
    <3>1. /\ Joined(d, <<k>>, e) /\ InOrder(d)
          /\ Below(Numbers(DoneIds), Numbers(d)) /\ Below(Numbers(TaskIds), Numbers(d))
          /\ Below(Numbers(DoneIds), Numbers(TaskIds))
          /\ InOrder(DoneIds) /\ InOrder(TaskIds)
      BY <2>3 DEF InStream
    <3>2. InStream' <=> /\ InOrder(DoneIds') /\ InOrder(TaskIds') /\ InOrder(e)
                        /\ Below(Numbers(DoneIds'), Numbers(TaskIds'))
                        /\ Below(Numbers(DoneIds'), Numbers(e))
                        /\ Below(Numbers(TaskIds'), Numbers(e))
      BY DEF InStream
    <3>3. /\ Ids = Numbers(DoneIds) \union (Numbers(TaskIds) \union Numbers(d))
          /\ Ids' = Numbers(DoneIds') \union (Numbers(TaskIds') \union Numbers(e))
      BY DEF Ids
    <3> HIDE DEF d, e
    <3> QED
      BY <2>1, <3>1, <3>2, <3>3, OneId DEF Joined, Below
  <2> QED
    BY <1>2, <2>2, <2>3 DEF Takes
<1>3. CASE Reports(n, k)
  <2>1. /\ data' = data /\ Joined(TaskIds, <<k>>, TaskIds')
        /\ Joined(DoneIds', DoneIds, <<k>>)
    BY <1>3 DEF Reports, queue
  <2> QED
    BY <2>1, OneId DEF InStream, Ids, Joined, Below
<1> QED
  BY <1>1, <1>2, <1>3

LEMMA StreamArrives ==
    ASSUME TypeOK, InStream, OneSided, NEW n \in Nat \ {0}, NEW k \in Nat,
           Answers(n, k) \/ Stores(k), Below(Ids, {k} \ {0})
    PROVE  InStream' /\ Ids' = Ids \union ({k} \ {0})
<1>1. CASE Answers(n, k)
  <2>1. /\ DoneIds' = DoneIds /\ data' = data /\ data = <<>>
        /\ Joined(TaskIds', TaskIds, <<k>>)
    BY <1>1 DEF Answers, SameResults, DoneIds, OneSided
  <2>2. Numbers(DataIds(data)) = {}
    BY <2>1, NoData
  <2> QED
    BY <2>1, <2>2, OneId DEF InStream, Ids, Joined, Below
<1>2. CASE Stores(k)
  <2>1. /\ DoneIds' = DoneIds /\ TaskIds' = TaskIds
        /\ Joined(DataIds(data'), DataIds(data), <<k>>)
    BY <1>2 DEF Stores, SameResults, DoneIds, TaskIds
  <2> DEFINE d == DataIds(data)
             e == DataIds(data')
  <2>2. /\ Joined(e, d, <<k>>) /\ InOrder(d)
        /\ Below(Numbers(DoneIds), Numbers(d)) /\ Below(Numbers(TaskIds), Numbers(d))
        /\ Below(Numbers(DoneIds), Numbers(TaskIds))
        /\ InOrder(DoneIds) /\ InOrder(TaskIds)
    BY <2>1 DEF InStream
  <2>3. InStream' <=> /\ InOrder(DoneIds') /\ InOrder(TaskIds') /\ InOrder(e)
                      /\ Below(Numbers(DoneIds'), Numbers(TaskIds'))
                      /\ Below(Numbers(DoneIds'), Numbers(e))
                      /\ Below(Numbers(TaskIds'), Numbers(e))
    BY DEF InStream
  <2>4. /\ Ids = Numbers(DoneIds) \union (Numbers(TaskIds) \union Numbers(d))
        /\ Ids' = Numbers(DoneIds') \union (Numbers(TaskIds') \union Numbers(e))
    BY DEF Ids
  <2> HIDE DEF d, e
  <2> QED
    BY <2>1, <2>2, <2>3, <2>4, OneId DEF Joined, Below
<1> QED
  BY <1>1, <1>2

LEMMA StreamDrains ==
    ASSUME TypeOK, InStream, Drains
    PROVE  InStream' /\ Ids' \subseteq Ids
<1>1. DoneIds' = DoneIds /\ data' = <<>> /\ Alike(TaskIds', TaskIds)
  BY DEF Drains, SameResults, DoneIds
<1>2. Numbers(DataIds(data')) = {} /\ InOrder(DataIds(data'))
  BY <1>1, NoData
<1> QED
  BY <1>1, <1>2 DEF InStream, Ids, Alike, Below

LEMMA MoreKnown ==
    ASSUME NEW M, NEW N, M \subseteq N
    PROVE  /\ \A s \in Seq(TasksWith(M)) : s \in Seq(TasksWith(N))
           /\ \A s \in Seq(DataWith(M)) : s \in Seq(DataWith(N))
<1>1. TasksWith(M) \subseteq TasksWith(N) /\ DataWith(M) \subseteq DataWith(N)
  BY DEF TasksWith, DataWith
<1> QED
  BY <1>1, SeqMonotonic

LEMMA ProduceKnown ==
    ASSUME TypeOK, NEW M, NEW d \in DataWith(M), Produce(d, tasks),
           tasks \in Seq(TasksWith(M)), data \in Seq(DataWith(M))
    PROVE  tasks' \in Seq(TasksWith(M)) /\ data' \in Seq(DataWith(M))
<1>1. CASE waiting = <<>>
  BY <1>1 DEF Produce
<1>2. CASE waiting # <<>>
  <2> DEFINE y == Consumed(Head(waiting), d)
  <2>1. tasks' = Append(tasks, y) /\ data' = data
    BY <1>2 DEF Produce
  <2>2. Head(waiting) \in Call
    BY <1>2, Sequences, HeadTailProperties
  <2>3. y \in Task /\ y.msg = d.msg /\ d.msg \in M
    BY <2>2, ConsumedNumbers DEF DataWith
  <2> HIDE DEF y
  <2>4. y \in TasksWith(M)
    BY <2>3 DEF TasksWith
  <2> QED
    BY <2>1, <2>4
<1> QED
  BY <1>1, <1>2

LEMMA KnownKept ==
    ASSUME TypeOK, CarriesKnown, [Next]_vars
    PROVE  CarriesKnown'
<1> USE DEF CarriesKnown
<1>0. \A x \in Task : x.kind # "complete" => x \in TasksWith(Known)
  BY DEF TasksWith
<1>1. CASE SetConnectionPtr
  BY <1>1 DEF SetConnectionPtr, Attach, queue, Known
<1>2. CASE AsyncReceive
  <2>1. issued' \in Call
    BY <1>2, Bounds, Sequences DEF AsyncReceive, Call
  <2>2. Receive(issued') \in TasksWith(Known)
    BY <1>0, <2>1, CompletionTypes DEF Receive
  <2> QED
    BY <1>2, <2>2 DEF AsyncReceive, queue, Known
<1>3. CASE AsyncSend
  <2> DEFINE x == [kind |-> "sent", op |-> sends', ok |-> conn = "open"]
  <2>1. x \in Task /\ x.kind = "sent"
    BY <1>3, Bounds DEF AsyncSend, Task, Sent, TypeOK
  <2> HIDE DEF x
  <2>2. x \in TasksWith(Known)
    BY <1>0, <2>1
  <2> QED
    BY <1>3, <2>2 DEF AsyncSend, queue, Known, x
<1>4. CASE RunReceive
  <2> DEFINE n == Head(tasks).op
             q == Tail(tasks)
  <2>1. n \in Call /\ q \in Seq(TasksWith(Known))
    BY <1>4, Requeue DEF RunReceive
  <2> HIDE DEF q, n
  <2>2. CASE transportEc
    <3> DEFINE y == Complete(n, "transport", NoMessage, 0)
    <3>1. y \in Task /\ y.msg = NoMessage
      BY <2>1, CompletionTypes DEF Complete
    <3>2. tasks' = Append(q, y) /\ UNCHANGED <<queue, arrived, results>>
      BY <1>4, <2>2 DEF RunReceive, n, q
    <3> HIDE DEF y
    <3>3. y \in TasksWith(Known)
      BY <3>1 DEF TasksWith, Known
    <3> QED
      BY <2>1, <3>2, <3>3 DEF queue, Known
  <2>3. CASE ~transportEc /\ data = <<>>
    BY <1>4, <2>1, <2>3 DEF RunReceive, Consume, Known, q
  <2>4. CASE ~transportEc /\ data # <<>>
    <3> DEFINE d == Head(data)
               y == Consumed(n, d)
    <3>1. d \in DataWith(Known) /\ d \in Datum /\ Tail(data) \in Seq(DataWith(Known))
      BY <2>4, Sequences
    <3>2. tasks' = Append(q, y) /\ data' = Tail(data) /\ UNCHANGED <<arrived, results>>
      BY <1>4, <2>4 DEF RunReceive, Consume, n, q
    <3>3. y \in Task /\ y.msg = d.msg /\ d.msg \in Known
      BY <2>1, <3>1, ConsumedNumbers DEF DataWith
    <3> HIDE DEF y, d
    <3>4. y \in TasksWith(Known)
      BY <3>3 DEF TasksWith
    <3> QED
      BY <2>1, <3>1, <3>2, <3>4 DEF Known
  <2> QED
    BY <2>2, <2>3, <2>4
<1>5. CASE RunComplete
  BY <1>5 DEF RunComplete, queue, Known
<1>6. CASE RunSent
  BY <1>6 DEF RunSent, queue, Known
<1>7. CASE Close \/ Destroy
  <2>1. /\ tasks' = tasks \o Drained /\ data' = <<>>
        /\ UNCHANGED <<arrived, results>>
    BY <1>7 DEF Close, Destroy, CloseQueue
  <2>2. Drained \in Seq(TasksWith(Known))
    <3>1. \A i \in DOMAIN waiting : waiting[i] \in Call
      BY Sequences
    <3>2. \A i \in DOMAIN waiting : Consumed(waiting[i], Aborted) \in TasksWith(Known)
      BY <3>1, ConsumedNumbers, CompletionTypes DEF TasksWith, Known, Aborted
    <3>3. DOMAIN waiting = 1..Len(waiting) /\ Len(waiting) \in Nat
      BY Sequences, LenProperties
    <3> QED
      BY <3>2, <3>3 DEF Drained
  <2> QED
    BY <2>1, <2>2 DEF Known
<1>8. ASSUME NEW size \in MsgSizes, HandleMessage(size) PROVE CarriesKnown'
  <2> DEFINE msg == [id |-> NextId, size |-> size]
             d == [ec |-> "ok", msg |-> msg]
  <2>1. /\ arrived' = Append(arrived, msg) /\ Produce(d, tasks) /\ results' = results
    BY <1>8 DEF HandleMessage, Deliver
  <2>2. NextId \in 1..MaxMessages
    BY <1>8, Bounds DEF HandleMessage, NextId, TypeOK
  <2>3. msg \in Message /\ d \in Datum /\ d.msg = msg
    BY <2>2 DEF Message, Datum
  <2> HIDE DEF msg, d
  <2>4. Known' = Known \union {msg}
    <3>1. arrived \in Seq(Message)
      BY DEF TypeOK
    <3>2. ToSet(Append(arrived, msg)) = ToSet(arrived) \union {msg}
      <4>1. /\ DOMAIN arrived = 1..Len(arrived) /\ Len(arrived) \in Nat
            /\ DOMAIN Append(arrived, msg) = 1..(Len(arrived) + 1)
            /\ Append(arrived, msg)[Len(arrived) + 1] = msg
            /\ \A i \in 1..Len(arrived) : Append(arrived, msg)[i] = arrived[i]
        BY <2>3, <3>1, AppendProperties, LenProperties
      <4> QED
        BY <4>1 DEF ToSet
    <3> QED
      BY <2>1, <3>2 DEF Known
  <2>5. d \in DataWith(Known')
    BY <2>3, <2>4 DEF DataWith
  <2>6. /\ tasks \in Seq(TasksWith(Known')) /\ data \in Seq(DataWith(Known'))
        /\ results \in Seq(TasksWith(Known'))
    BY <2>4, MoreKnown
  <2> QED
    BY <2>1, <2>5, <2>6, ProduceKnown
<1>9. CASE TransportFails
  BY <1>9 DEF TransportFails, queue, Known
<1>10. CASE Terminate
  <2>1. CloseNotice \in DataWith(Known)
    BY DEF CloseNotice, DataWith, Datum, Known
  <2>2. UNCHANGED <<arrived, results>> /\ Known' = Known
    BY <1>10 DEF Terminate, Known
  <2>3. CASE mPtr /\ Produce(CloseNotice, tasks)
    BY <2>1, <2>2, <2>3, ProduceKnown
  <2>4. CASE UNCHANGED <<queue, tasks>>
    BY <2>2, <2>4 DEF queue
  <2> QED
    BY <1>10, <2>3, <2>4 DEF Terminate
<1>11. CASE UNCHANGED vars
  BY <1>11 DEF vars, Known
<1> QED
  BY <1>1, <1>2, <1>3, <1>4, <1>5, <1>6, <1>7, <1>8, <1>9, <1>10, <1>11
     DEF Next, RunTask

-----------------------------------------------------------------------------
(* The inductive invariant.                                                  *)
Inv ==
    /\ TypeOK /\ OneSided /\ OneEach /\ SendsInTurn /\ (~transportEc => Ordered)
    /\ CarriesKnown /\ InStream /\ NoGap

LEMMA InvInit == Init => Inv
<1> SUFFICES ASSUME Init PROVE Inv
  OBVIOUS
<1>1. TypeOK
  BY TypeInit
<1>2. /\ waiting = <<>> /\ data = <<>> /\ tasks = <<>> /\ results = <<>>
      /\ sent = <<>> /\ arrived = <<>> /\ issued = 0 /\ sends = 0
  BY DEF Init
<1>3. /\ Done = <<>> /\ Asked = <<>> /\ Completing = <<>> /\ Posted = <<>>
      /\ SendsDone = <<>> /\ SendsLeft = <<>> /\ DoneIds = <<>> /\ TaskIds = <<>>
      /\ DataIds(data) = <<>>
  BY <1>2 DEF Done, Asked, Completing, Posted, SendsDone, SendsLeft, DoneIds, TaskIds,
              DataIds, OpsOf, IdsOf
<1>4. /\ 1..issued = {} /\ 1..sends = {} /\ 1..Len(arrived) = {}
  BY <1>2
<1>5. OneSided /\ OneEach /\ SendsInTurn
  BY <1>2, <1>3, <1>4, NoNumber DEF OneSided, OneEach, SendsInTurn, Below
<1>6. Ordered
  BY <1>2, <1>3, NoNumber DEF Ordered, Below
<1>7. CarriesKnown
  BY <1>2 DEF CarriesKnown
<1>8. InStream /\ NoGap
  BY <1>3, <1>4, NoNumber DEF InStream, NoGap, Ids, Below
<1> QED
  BY <1>1, <1>5, <1>6, <1>7, <1>8 DEF Inv

Handlers == OneSided /\ OneEach /\ SendsInTurn /\ (~transportEc => Ordered)

LEMMA HandlersKept ==
    ASSUME TypeOK, Handlers, NEW n \in Nat \ {0}, NEW k, Move(n, k),
           transportEc => transportEc'
    PROVE  Handlers'
<1>1. OneSided' /\ OneEach' /\ SendsInTurn'
  BY OneSidedKept, OneEachKept, SendsKept DEF Handlers
<1>2. ASSUME ~transportEc' PROVE Ordered'
  BY <1>2, OrderedKept DEF Handlers
<1> QED
  BY <1>1, <1>2 DEF Handlers

(* The steps that bring no message and close nothing.                        *)
LEMMA QuietStep ==
    ASSUME Inv, NEW n \in Nat \ {0}, NEW k \in Nat,
           Asks(n) \/ Parks(n) \/ Takes(n, k) \/ Reports(n, k) \/ Otherwise,
           transportEc => transportEc', UNCHANGED <<arrived, closes, owner>>
    PROVE  Handlers' /\ InStream' /\ NoGap'
<1>1. Handlers'
  BY HandlersKept DEF Inv, Handlers, Move
<1>2. InStream' /\ Ids' = Ids
  BY StreamMoves DEF Inv
<1> QED
  BY <1>1, <1>2 DEF Inv, NoGap

LEMMA ArrivalStep ==
    ASSUME Inv, NEW d \in Datum, Produce(d, tasks),
           UNCHANGED <<sending, issued, results, closes, owner, transportEc>>,
           \/ d.msg.id = 0 /\ arrived' = arrived
           \/ d.msg.id = NextId /\ Len(arrived') = NextId
    PROVE  Handlers' /\ InStream' /\ NoGap'
<1> DEFINE k == d.msg.id
<1>0. Len(arrived) \in Nat /\ k \in Nat
  BY TaskNumbers, LenProperties DEF Inv, TypeOK, DatumId
<1>1. PICK n \in Nat \ {0} : Stores(k) \/ Answers(n, k)
  <2>1. 1 \in Nat \ {0} /\ Call \subseteq Nat \ {0}
    BY DEF Call
  <2> QED
    BY <2>1, ProduceEffect DEF Inv
<1> HIDE DEF k
<1>2. Handlers'
  BY <1>1, HandlersKept DEF Inv, Handlers, Move
<1>3. Below(Ids, {k} \ {0})
  BY <1>0 DEF Below, Inv, NoGap, NextId, k
<1>4. InStream' /\ Ids' = Ids \union ({k} \ {0})
  BY <1>0, <1>1, <1>3, StreamArrives DEF Inv
<1>5. /\ Ids \subseteq 1..Len(arrived)
      /\ closes = 0 /\ owner => Ids = 1..Len(arrived)
  BY DEF Inv, NoGap
<1>6. CASE k = 0 /\ arrived' = arrived
  BY <1>2, <1>4, <1>5, <1>6 DEF NoGap
<1>7. CASE k = Len(arrived) + 1 /\ Len(arrived') = Len(arrived) + 1
  <2>1. 1..Len(arrived') = (1..Len(arrived)) \union ({k} \ {0})
    BY <1>0, <1>7
  <2> QED
    BY <1>2, <1>4, <1>5, <2>1 DEF NoGap
<1> QED
  BY <1>6, <1>7 DEF NextId, k

LEMMA CloseStep ==
    ASSUME Inv, Close \/ Destroy
    PROVE  Handlers' /\ InStream' /\ NoGap'
<1>1. /\ UNCHANGED <<sending, issued, results, arrived, transportEc>>
      /\ closes' = closes + 1 \/ owner' = FALSE
      /\ CloseQueue
  BY DEF Close, Destroy
<1>2. Drains
  BY <1>1, CloseEffect DEF Inv
<1>3. 1 \in Nat \ {0} /\ Move(1, 0)
  BY <1>2 DEF Move
<1>4. Handlers'
  BY <1>1, <1>3, HandlersKept DEF Inv, Handlers
<1>5. InStream' /\ Ids' \subseteq Ids
  BY <1>2, StreamDrains DEF Inv
<1>6. ~(closes' = 0 /\ owner')
  BY <1>1 DEF Inv, TypeOK
<1> QED
  BY <1>1, <1>4, <1>5, <1>6 DEF Inv, NoGap

LEMMA InvStep == Inv /\ [Next]_vars => Inv'
<1> SUFFICES ASSUME Inv, [Next]_vars PROVE Inv'
  OBVIOUS
<1>1. TypeOK' /\ CarriesKnown'
  BY TypeStep, KnownKept DEF Inv
<1> SUFFICES Handlers' /\ InStream' /\ NoGap'
  BY <1>1 DEF Inv, Handlers
<1>2. 1 \in Nat \ {0} /\ 0 \in Nat /\ Call \subseteq Nat \ {0} /\ TypeOK
  BY DEF Call, Inv
<1>3. CASE SetConnectionPtr
  BY <1>2, <1>3, NoEffect, QuietStep DEF SetConnectionPtr, Attach, network
<1>4. CASE AsyncReceive
  BY <1>2, <1>4, AskEffect, QuietStep DEF AsyncReceive, network
<1>5. CASE AsyncSend
  BY <1>2, <1>5, PostSendEffect, QuietStep DEF AsyncSend, network
<1>6. CASE RunReceive
  BY <1>2, <1>6, ReceiveEffect, QuietStep DEF RunReceive, network
<1>7. CASE RunComplete
  BY <1>2, <1>7, ReportEffect, QuietStep DEF RunComplete, network
<1>8. CASE RunSent
  BY <1>2, <1>8, SentEffect, QuietStep DEF RunSent, network
<1>9. CASE Close \/ Destroy
  BY <1>9, CloseStep
<1>10. ASSUME NEW size \in MsgSizes, HandleMessage(size)
       PROVE  Handlers' /\ InStream' /\ NoGap'
  <2> DEFINE msg == [id |-> NextId, size |-> size]
             d == [ec |-> "ok", msg |-> msg]
  <2>1. /\ arrived' = Append(arrived, msg) /\ Produce(d, tasks)
        /\ UNCHANGED <<sending, issued, results, closes, owner, transportEc>>
    BY <1>10 DEF HandleMessage, Deliver, network
  <2>2. NextId \in 1..MaxMessages
    BY <1>10, Bounds DEF HandleMessage, NextId, Inv, TypeOK
  <2>3. msg \in Message /\ d \in Datum /\ d.msg.id = NextId
    BY <2>2 DEF Message, Datum
  <2>4. Len(arrived') = NextId
    BY <2>1, <2>3 DEF Inv, TypeOK, NextId
  <2> HIDE DEF d
  <2> QED
    BY <2>1, <2>3, <2>4, ArrivalStep
<1>11. CASE TransportFails
  BY <1>2, <1>11, NoEffect, QuietStep DEF TransportFails
<1>12. CASE Terminate
  <2>1. /\ CloseNotice \in Datum /\ CloseNotice.msg.id = 0
        /\ UNCHANGED <<sending, issued, results, closes, owner, transportEc, arrived>>
    BY <1>12 DEF CloseNotice, Datum, NoMessage, Terminate
  <2>2. CASE Produce(CloseNotice, tasks)
    BY <2>1, <2>2, ArrivalStep
  <2>3. CASE UNCHANGED <<queue, tasks>>
    BY <1>2, <2>1, <2>3, NoEffect, QuietStep
  <2> QED
    BY <1>12, <2>2, <2>3 DEF Terminate
<1>13. CASE UNCHANGED vars
  BY <1>2, <1>13, NoEffect, QuietStep DEF vars, sending, queue
<1> QED
  BY <1>3, <1>4, <1>5, <1>6, <1>7, <1>8, <1>9, <1>10, <1>11, <1>12, <1>13
     DEF Next, RunTask

(* Every receive and send issued is in one place, and is completed once,     *)
(* whatever the user, the peer and the transport do: for any number of       *)
(* receives outstanding, messages and calls of close.                        *)
THEOREM HandlersOnce == Spec => []EachHandlerOnce
<1>1. Inv => EachHandlerOnce
  BY OneEachMeans DEF Inv
<1> QED
  BY InvInit, InvStep, <1>1, PTL DEF Spec

(* The messages reach the receives in order, once, and without a gap until   *)
(* the queue is closed.                                                      *)
THEOREM StreamKeepsOrder == Spec => []StreamInOrder
<1>1. Inv => StreamInOrder
  BY StreamMeans DEF Inv
<1> QED
  BY InvInit, InvStep, <1>1, PTL DEF Spec

(* Receives complete in the order of the calls until the transport fails.    *)
THEOREM CallOrder == Spec => []CompletesInCallOrder
<1>1. Inv => CompletesInCallOrder
  BY OrderedMeans DEF Inv
<1> QED
  BY InvInit, InvStep, <1>1, PTL DEF Spec
=============================================================================
