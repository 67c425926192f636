------------------------- MODULE MMMojoPipesProofs -------------------------
(***************************************************************************)
(* What holds of MMMojoPipes however many append streams the two           *)
(* applications ask for.                                                   *)
(***************************************************************************)
EXTENDS MMMojoPipes, SequenceElements, TLAPS

\* The pipes the code means for a stream: an append stream takes those of the
\* loop's round that is as far from the last one as the stream from the first.
Meant(e) ==
    IF e[2] = Process THEN PipeEnds(e[1], kMMChildProcessReceiverProcessName,
                                          kMMChildProcessHostRemoteProcessName)
    ELSE IF e[2] = Default THEN PipeEnds(e[1], kMMChildProcessReceiverName,
                                               kMMChildProcessHostRemoteName)
    ELSE IF e[2] = DefaultSync THEN PipeEnds(e[1], kMMChildProcessReceiverSyncName,
                                                   kMMChildProcessHostRemoteSyncName)
    ELSE AppendPipe(e[1], add_num_messagepipe[e[1]] - e[2][2])

Given(e) == posted[e] # NoEnds \/ impl[e] # NoEnds

\* The pairs still to be handed out are the first ones the loop made.
PipesInv ==
    \A p \in Side :
        /\ step[p] \in {"pipes", "append"} =>
               /\ Len(message_pipes[p]) <= add_num_messagepipe[p]
               /\ \A k \in 1..Len(message_pipes[p]) : message_pipes[p][k] = AppendPipe(p, k)
        /\ step[p] = "pipes" => Len(message_pipes[p]) = add_num_messagepipe[p]

\* A stream only ever has the pipes that were meant for it.
GivenInv ==
    \A e \in Side \X StreamIds :
        /\ posted[e] # NoEnds => posted[e] = Meant(e)
        /\ impl[e] # NoEnds => impl[e] = Meant(e)
        /\ Given(e) /\ e[2] \in AppendIds => e[2][2] < add_num_messagepipe[e[1]]

\* Who has been given pipes by the time each step is reached.
OrderedAt(p) ==
    /\ step[p] \in {"append", "launch", "done"} =>
           Given(<<p, Default>>) /\ Given(<<p, DefaultSync>>)
    /\ step[p] = "append" =>
           \A j \in 0..(add_num_messagepipe[p] - Len(message_pipes[p]) - 1) :
               Given(<<p, AppendId(j)>>)
    /\ step[p] \in {"launch", "done"} =>
           \A j \in 0..(add_num_messagepipe[p] - 1) : Given(<<p, AppendId(j)>>)
    /\ connected[p] => step[p] \in {"launch", "done"} /\ Given(<<p, Process>>)

OrderInv == \A p \in Side : OrderedAt(p)

IInv == TypeOK /\ PipesInv /\ GivenInv /\ OrderInv
-----------------------------------------------------------------------------
(* Ends and pairs                                                          *)

\* The parts of a stream's name.
LEMMA StreamNames ==
    /\ Process \in StreamIds /\ Default \in StreamIds /\ DefaultSync \in StreamIds
    /\ Process # Default /\ Process # DefaultSync /\ Default # DefaultSync
    /\ \A s \in AppendIds : /\ s \in StreamIds /\ s[2] \in Nat /\ s[2] < MaxPipes
                            /\ s = AppendId(s[2])
                            /\ s # Process /\ s # Default /\ s # DefaultSync
    /\ \A s \in StreamIds : s \in AppendIds \/ s = Process \/ s = Default \/ s = DefaultSync
    /\ \A j \in Nat : j < MaxPipes => AppendId(j) \in AppendIds /\ AppendId(j)[2] = j
    /\ \A i, j \in Nat : AppendId(i) = AppendId(j) => i = j
  BY PipesAssumption DEF StreamIds, AppendIds, AppendId, Process, Default, DefaultSync

\* A pair has two names that are numbers.
LEMMA PairType ==
    /\ \A p \in Side : \A m, n \in Nat : PipeEnds(p, m, n) \in Ends
    /\ \A p \in Side : \A k \in Nat \ {0} : AppendPipe(p, k) \in Ends
<1>1. \A p \in Side : \A m, n \in Nat : PipeEnds(p, m, n) \in Ends
  BY DEF PipeEnds, Ends
<1>2. ASSUME NEW p \in Side, NEW k \in Nat \ {0}
      PROVE  AppendPipe(p, k) \in Ends
  <2> DEFINE m == kMMChildProcessReceiverAndHostRemoteSetSyncName + 2 * (k - 1)
  <2>1. m \in Nat /\ m + 1 \in Nat
    BY DEF kMMChildProcessReceiverAndHostRemoteSetSyncName
  <2>2. AppendPipe(p, k) = PipeEnds(p, m, m + 1)
    BY DEF AppendPipe
  <2> QED
    BY <2>1, <2>2, <1>1
<1> QED
  BY <1>1, <1>2
-----------------------------------------------------------------------------
(* The invariant is inductive                                              *)

\* Nothing is given and nothing is connected at the start.
LEMMA InitIInv == Init => IInv
  BY DEF Init, IInv, TypeOK, PipesInv, GivenInv, OrderInv, OrderedAt, Given

\* The loop that makes the pairs makes the k-th one in its k-th round.
LEMMA GetPipesStep ==
    ASSUME IInv, NEW p \in Side, step[p] = "idle", GetPipes(p)
    PROVE  IInv'
<1> DEFINE n == add_num_messagepipe[p]
           s == [k \in 1..n |-> AppendPipe(p, k)]
<1>1. TypeOK /\ n \in Nat
  BY PipesAssumption DEF IInv, TypeOK
<1>2. s \in Seq(Ends) /\ Len(s) = n /\ \A k \in 1..n : s[k] = AppendPipe(p, k)
  <2>1. \A k \in 1..n : AppendPipe(p, k) \in Ends
    BY <1>1, PairType
  <2> QED
    BY <1>1, <2>1
<1>3. /\ step' = [step EXCEPT ![p] = "pipes"]
      /\ message_pipes' = [message_pipes EXCEPT ![p] = s]
      /\ UNCHANGED <<add_num_messagepipe, posted, impl, connected>>
  BY DEF GetPipes
<1> HIDE DEF s
<1>4. TypeOK'
  BY <1>1, <1>2, <1>3 DEF TypeOK
<1>5. PipesInv'
  BY <1>1, <1>2, <1>3 DEF IInv, PipesInv, TypeOK
<1>6. GivenInv'
  BY <1>3 DEF IInv, GivenInv, Given, Meant, AppendPipe
<1>7. OrderInv'
  BY <1>1, <1>3 DEF IInv, OrderInv, OrderedAt, Given, TypeOK
<1> QED
  BY <1>4, <1>5, <1>6, <1>7 DEF IInv

\* The default streams are given theirs first.
LEMMA DefaultStep ==
    ASSUME IInv, NEW p \in Side, CreateDefaultRemoteAndReceiverStream(p)
    PROVE  IInv'
<1> DEFINE d == <<p, Default>>
           y == <<p, DefaultSync>>
<1>1. /\ d \in Side \X StreamIds /\ y \in Side \X StreamIds /\ d # y
      /\ Default \notin AppendIds /\ DefaultSync \notin AppendIds
  BY StreamNames
<1>2. /\ Meant(d) = PipeEnds(p, kMMChildProcessReceiverName,
                                kMMChildProcessHostRemoteName)
      /\ Meant(y) = PipeEnds(p, kMMChildProcessReceiverSyncName,
                                kMMChildProcessHostRemoteSyncName)
  BY StreamNames DEF Meant
<1>3. Meant(d) \in Ends /\ Meant(y) \in Ends
  BY <1>2, PairType DEF kMMChildProcessReceiverName, kMMChildProcessHostRemoteName,
       kMMChildProcessReceiverSyncName, kMMChildProcessHostRemoteSyncName
<1>4. /\ step[p] = "pipes"
      /\ step' = [step EXCEPT ![p] = "append"]
      /\ posted' = [posted EXCEPT ![d] = Meant(d), ![y] = Meant(y)]
      /\ UNCHANGED <<add_num_messagepipe, message_pipes, impl, connected>>
  BY <1>2 DEF CreateDefaultRemoteAndReceiverStream
<1>5. \A e \in Side \X StreamIds : Meant(e)' = Meant(e)
  BY <1>4 DEF Meant, AppendPipe
<1>6. PICK md, my \in Ends : md = Meant(d) /\ my = Meant(y)
  BY <1>3
<1>7. /\ posted' \in [Side \X StreamIds -> Ends \cup {NoEnds}]
      /\ posted'[d] = md /\ posted'[y] = my
      /\ \A e \in Side \X StreamIds : e # d /\ e # y => posted'[e] = posted[e]
  BY <1>1, <1>4, <1>6 DEF IInv, TypeOK
<1>8. TypeOK'
  BY <1>4, <1>7 DEF IInv, TypeOK
<1>9. PipesInv'
  BY <1>4 DEF IInv, PipesInv, TypeOK, AppendPipe
<1>10. GivenInv'
  BY <1>1, <1>4, <1>5, <1>6, <1>7 DEF IInv, GivenInv, Given
<1>11. \A e \in Side \X StreamIds : Given(e) => Given(e)'
  BY <1>4, <1>6, <1>7, PipesAssumption DEF Given
<1>12. Given(d)' /\ Given(y)'
  BY <1>6, <1>7, PipesAssumption DEF Given
<1>13. ASSUME NEW q \in Side
       PROVE  OrderedAt(q)'
  <2>1. /\ OrderedAt(q)
        /\ \A j \in 0..(add_num_messagepipe[q] - 1) : <<q, AppendId(j)>> \in Side \X StreamIds
        /\ <<q, Process>> \in Side \X StreamIds
        /\ <<q, Default>> \in Side \X StreamIds /\ <<q, DefaultSync>> \in Side \X StreamIds
    BY StreamNames, PipesAssumption DEF IInv, OrderInv, TypeOK
  <2>2. CASE q = p
    <3>1. /\ step'[q] = "append" /\ step[q] = "pipes" /\ ~connected'[q]
          /\ add_num_messagepipe'[q] - Len(message_pipes'[q]) - 1 = -1
      BY <2>1, <2>2, <1>4 DEF IInv, PipesInv, TypeOK, OrderedAt
    <3> QED
      BY <2>2, <3>1, <1>12 DEF OrderedAt
  <2>3. CASE q # p
    <3>1. step'[q] = step[q] /\ connected'[q] = connected[q]
          /\ add_num_messagepipe'[q] = add_num_messagepipe[q]
          /\ message_pipes'[q] = message_pipes[q]
          /\ add_num_messagepipe[q] \in 0..MaxPipes /\ Len(message_pipes[q]) \in Nat
      BY <2>3, <1>4 DEF IInv, TypeOK
    <3> QED
      BY <2>1, <3>1, <1>11, PipesAssumption DEF OrderedAt
  <2> QED
    BY <2>2, <2>3
<1> QED
  BY <1>8, <1>9, <1>10, <1>13 DEF IInv, OrderInv

\* The next append stream is given the last pair that is left.
LEMMA AppendStep ==
    ASSUME IInv, NEW p \in Side, CreateAppendRemoteAndReceiverStream(p)
    PROVE  IInv'
<1> DEFINE n == add_num_messagepipe[p]
           s == message_pipes[p]
<1>1. /\ n \in Nat /\ n <= MaxPipes /\ s \in Seq(Ends) /\ s # <<>> /\ step[p] = "append"
      /\ posted' = [posted EXCEPT ![<<p, NextAppend(p)>>] = Last(s)]
      /\ message_pipes' = [message_pipes EXCEPT ![p] = Front(s)]
      /\ UNCHANGED <<add_num_messagepipe, step, impl, connected>>
  BY PipesAssumption DEF IInv, TypeOK, CreateAppendRemoteAndReceiverStream
<1>2. /\ Len(s) \in Nat \ {0}
      /\ Front(s) \in Seq(Ends) /\ Len(Front(s)) = Len(s) - 1
      /\ \A k \in 1..Len(s) - 1 : Front(s)[k] = s[k]
      /\ Last(s) = s[Len(s)] /\ Last(s) \in Ends
  BY <1>1, FrontLast
<1>3. Len(s) <= n /\ \A k \in 1..Len(s) : s[k] = AppendPipe(p, k)
  BY <1>1 DEF IInv, PipesInv
<1>4. PICK j \in Nat : j = n - Len(s) /\ j < n /\ j < MaxPipes
  <2>1. n - Len(s) \in Nat /\ n - Len(s) < n /\ n - Len(s) < MaxPipes
    BY <1>1, <1>2, <1>3, PipesAssumption
  <2> QED
    BY <2>1
<1>5. PICK d \in Side \X StreamIds :
          /\ d = <<p, NextAppend(p)>> /\ d = <<p, AppendId(j)>>
          /\ d[1] = p /\ d[2] = AppendId(j) /\ d[2][2] = j
          /\ d[2] \in AppendIds
  <2>1. NextAppend(p) = AppendId(j) /\ AppendId(j) \in AppendIds /\ AppendId(j)[2] = j
    BY <1>4, StreamNames DEF NextAppend
  <2>2. AppendId(j) \in StreamIds
    BY <2>1, StreamNames
  <2>3. <<p, AppendId(j)>> \in Side \X StreamIds
    BY <2>2
  <2> QED
    BY <2>1, <2>3
<1>6. Last(s) = Meant(d)
  <2>1. Meant(d) = AppendPipe(p, n - j)
    BY <1>5, StreamNames DEF Meant
  <2>2. n - j = Len(s)
    BY <1>1, <1>2, <1>4
  <2> QED
    BY <2>1, <2>2, <1>2, <1>3
<1>7. PICK m \in Ends : m = Last(s)
  BY <1>2
<1>8. PICK rest \in Seq(Ends) : rest = Front(s)
  BY <1>2
<1> HIDE DEF s
<1>9. /\ posted' \in [Side \X StreamIds -> Ends \cup {NoEnds}]
      /\ posted'[d] = m
      /\ \A e \in Side \X StreamIds : e # d => posted'[e] = posted[e]
  BY <1>1, <1>5, <1>7 DEF IInv, TypeOK
<1>10. /\ message_pipes' \in [Side -> Seq(Ends)]
       /\ message_pipes'[p] = rest
       /\ \A q \in Side : q # p => message_pipes'[q] = message_pipes[q]
  BY <1>1, <1>8 DEF IInv, TypeOK
<1>11. TypeOK'
  BY <1>1, <1>9, <1>10 DEF IInv, TypeOK
<1>12. PipesInv'
  <2> SUFFICES ASSUME NEW q \in Side
               PROVE  /\ step'[q] \in {"pipes", "append"} =>
                             /\ Len(message_pipes'[q]) <= add_num_messagepipe'[q]
                             /\ \A k \in 1..Len(message_pipes'[q]) :
                                   message_pipes'[q][k] = AppendPipe(q, k)'
                      /\ step'[q] = "pipes" =>
                             Len(message_pipes'[q]) = add_num_messagepipe'[q]
    BY DEF PipesInv
  <2>1. CASE q = p
    BY <2>1, <1>1, <1>2, <1>3, <1>8, <1>10 DEF AppendPipe
  <2>2. CASE q # p
    BY <2>2, <1>1, <1>10 DEF IInv, PipesInv, AppendPipe
  <2> QED
    BY <2>1, <2>2
<1>13. \A e \in Side \X StreamIds : Meant(e)' = Meant(e)
  BY <1>1 DEF Meant, AppendPipe
<1>14. GivenInv'
  <2> SUFFICES ASSUME NEW e \in Side \X StreamIds
               PROVE  /\ posted'[e] # NoEnds => posted'[e] = Meant(e)'
                      /\ impl'[e] # NoEnds => impl'[e] = Meant(e)'
                      /\ Given(e)' /\ e[2] \in AppendIds =>
                             e[2][2] < add_num_messagepipe'[e[1]]
    BY DEF GivenInv
  <2>1. CASE e = d
    <3>1. d[1] = p /\ add_num_messagepipe'[d[1]] = n
      BY <1>1, <1>5
    <3>2. impl'[d] # NoEnds => impl'[d] = Meant(d)'
      BY <1>1, <1>5, <1>13 DEF IInv, GivenInv
    <3> QED
      BY <2>1, <3>1, <3>2, <1>4, <1>5, <1>6, <1>7, <1>9, <1>13
  <2>2. CASE e # d
    BY <2>2, <1>1, <1>9, <1>13 DEF IInv, GivenInv, Given
  <2> QED
    BY <2>1, <2>2
<1>15. \A e \in Side \X StreamIds : Given(e) => Given(e)'
  BY <1>1, <1>7, <1>9, PipesAssumption DEF Given
<1>16. Given(d)'
  BY <1>7, <1>9, PipesAssumption DEF Given
<1>17. ASSUME NEW q \in Side
       PROVE  OrderedAt(q)'
  <2>1. /\ OrderedAt(q)
        /\ \A i \in 0..(add_num_messagepipe[q] - 1) : <<q, AppendId(i)>> \in Side \X StreamIds
        /\ <<q, Process>> \in Side \X StreamIds
        /\ <<q, Default>> \in Side \X StreamIds /\ <<q, DefaultSync>> \in Side \X StreamIds
        /\ add_num_messagepipe[q] \in Nat /\ Len(message_pipes[q]) \in Nat
    BY StreamNames, PipesAssumption DEF IInv, OrderInv, TypeOK
  <2>2. CASE q = p
    <3>1. /\ step[p] = "append" /\ step'[p] = "append" /\ ~connected'[p]
          /\ add_num_messagepipe'[p] - Len(message_pipes'[p]) - 1 = j
          /\ add_num_messagepipe[p] - Len(message_pipes[p]) - 1 = j - 1
          /\ j \in 0..(n - 1)
      BY <2>1, <2>2, <1>1, <1>2, <1>4, <1>8, <1>10 DEF OrderedAt, s
    <3>2. ASSUME NEW i \in 0..j
          PROVE  Given(<<p, AppendId(i)>>)'
      <4>1. CASE i = j
        BY <4>1, <1>5, <1>16
      <4>2. CASE i # j
        <5>1. i \in 0..(j - 1) /\ i \in 0..(n - 1)
          BY <4>2, <1>1, <1>4
        <5>2. \A k \in 0..(j - 1) : Given(<<p, AppendId(k)>>)
          <6>1. \A k \in 0..(add_num_messagepipe[p] - Len(message_pipes[p]) - 1) :
                    Given(<<p, AppendId(k)>>)
            BY <2>1, <2>2, <1>1 DEF OrderedAt
          <6> QED
            BY <6>1, <3>1
        <5>3. <<p, AppendId(i)>> \in Side \X StreamIds
          BY <5>1, <2>1, <2>2
        <5> QED
          BY <5>1, <5>2, <5>3, <1>15
      <4> QED
        BY <4>1, <4>2
    <3>3. Given(<<p, Default>>)' /\ Given(<<p, DefaultSync>>)'
      BY <2>1, <2>2, <3>1, <1>15 DEF OrderedAt
    <3> QED
      BY <2>2, <3>1, <3>2, <3>3 DEF OrderedAt
  <2>3. CASE q # p
    <3>1. step'[q] = step[q] /\ connected'[q] = connected[q]
          /\ add_num_messagepipe'[q] = add_num_messagepipe[q]
          /\ message_pipes'[q] = message_pipes[q]
      BY <2>3, <1>1, <1>10
    <3> QED
      BY <2>1, <3>1, <1>15 DEF OrderedAt
  <2> QED
    BY <2>2, <2>3
<1> QED
  BY <1>11, <1>12, <1>14, <1>17 DEF IInv, OrderInv

\* The stream to the child process is bound last, and only then connected.
LEMMA ProcessStep ==
    ASSUME IInv, NEW p \in Side, CreateChildProcessRemoteAndReceiverStream(p)
    PROVE  IInv'
<1>1. PICK d \in Side \X StreamIds : d = <<p, Process>>
  BY StreamNames
<1>2. PICK m \in Ends : m = Meant(d)
  BY <1>1, PairType DEF Meant, kMMChildProcessReceiverProcessName,
       kMMChildProcessHostRemoteProcessName
<1>3. m = PipeEnds(p, kMMChildProcessReceiverProcessName,
                      kMMChildProcessHostRemoteProcessName)
  BY <1>1, <1>2 DEF Meant
<1>4. /\ step[p] = "append" /\ message_pipes[p] = <<>>
      /\ step' = [step EXCEPT ![p] = IF p = Host THEN "launch" ELSE "done"]
      /\ impl' = [impl EXCEPT ![d] = m]
      /\ connected' = [connected EXCEPT ![p] = TRUE]
      /\ UNCHANGED <<add_num_messagepipe, message_pipes, posted>>
  BY <1>1, <1>3 DEF CreateChildProcessRemoteAndReceiverStream
<1>5. /\ impl' \in [Side \X StreamIds -> Ends \cup {NoEnds}]
      /\ impl'[d] = m
      /\ \A e \in Side \X StreamIds : e # d => impl'[e] = impl[e]
  BY <1>4 DEF IInv, TypeOK
<1>6. TypeOK'
  BY <1>4, <1>5 DEF IInv, TypeOK
<1>7. PipesInv'
  BY <1>4 DEF IInv, PipesInv, TypeOK, AppendPipe
<1>8. \A e \in Side \X StreamIds : Meant(e)' = Meant(e)
  BY <1>4 DEF Meant, AppendPipe
<1>9. d[2] \notin AppendIds
  BY <1>1, StreamNames
<1>10. GivenInv'
  BY <1>2, <1>4, <1>5, <1>8, <1>9 DEF IInv, GivenInv, Given
<1>11. \A e \in Side \X StreamIds : Given(e) => Given(e)'
  BY <1>4, <1>5, PipesAssumption DEF Given
<1>12. Given(d)'
  BY <1>5, PipesAssumption DEF Given
<1>13. ASSUME NEW q \in Side
       PROVE  OrderedAt(q)'
  <2>1. /\ OrderedAt(q)
        /\ \A i \in 0..(add_num_messagepipe[q] - 1) : <<q, AppendId(i)>> \in Side \X StreamIds
        /\ <<q, Process>> \in Side \X StreamIds
        /\ <<q, Default>> \in Side \X StreamIds /\ <<q, DefaultSync>> \in Side \X StreamIds
        /\ add_num_messagepipe[q] \in Nat
    BY StreamNames, PipesAssumption DEF IInv, OrderInv, TypeOK
  <2>2. CASE q = p
    <3>1. step'[p] \in {"launch", "done"} /\ add_num_messagepipe' = add_num_messagepipe
      BY <1>4 DEF IInv, TypeOK
    <3>2. add_num_messagepipe[p] - Len(message_pipes[p]) - 1 = add_num_messagepipe[p] - 1
      BY <1>4, <2>1, <2>2
    <3>3. \A i \in 0..(add_num_messagepipe[p] - 1) : Given(<<p, AppendId(i)>>)
      BY <1>4, <2>1, <2>2, <3>2 DEF OrderedAt
    <3>4. \A i \in 0..(add_num_messagepipe[p] - 1) : Given(<<p, AppendId(i)>>)'
      BY <3>3, <2>1, <2>2, <1>11
    <3>5. Given(<<p, Default>>)' /\ Given(<<p, DefaultSync>>)'
      BY <1>4, <2>1, <2>2, <1>11 DEF OrderedAt
    <3> QED
      BY <2>2, <3>1, <3>4, <3>5, <1>1, <1>12 DEF OrderedAt
  <2>3. CASE q # p
    <3>1. step'[q] = step[q] /\ connected'[q] = connected[q]
          /\ add_num_messagepipe'[q] = add_num_messagepipe[q]
          /\ message_pipes'[q] = message_pipes[q]
          /\ Len(message_pipes[q]) \in Nat
      BY <2>3, <1>4 DEF IInv, TypeOK
    <3> QED
      BY <2>1, <3>1, <1>11 DEF OrderedAt
  <2> QED
    BY <2>2, <2>3
<1> QED
  BY <1>6, <1>7, <1>10, <1>13 DEF IInv, OrderInv

\* The launch changes nothing but the step.
LEMMA LaunchStep ==
    ASSUME IInv, LaunchSubProcess
    PROVE  IInv'
<1>1. /\ step[Host] = "launch" /\ step' = [step EXCEPT ![Host] = "done"]
      /\ UNCHANGED <<add_num_messagepipe, message_pipes, posted, impl, connected>>
  BY DEF LaunchSubProcess
<1>2. TypeOK'
  BY <1>1 DEF IInv, TypeOK
<1>3. PipesInv'
  BY <1>1 DEF IInv, PipesInv, TypeOK, AppendPipe
<1>4. GivenInv'
  BY <1>1 DEF IInv, GivenInv, Given, Meant, AppendPipe
<1>5. OrderInv'
  BY <1>1 DEF IInv, OrderInv, OrderedAt, Given, TypeOK, Side
<1> QED
  BY <1>2, <1>3, <1>4, <1>5 DEF IInv

\* A stream binds the pipes it was given.
LEMMA BindStep ==
    ASSUME IInv, NEW d \in Side \X StreamIds, CreateRemoteAndReceiverStream(d)
    PROVE  IInv'
<1>1. PICK m \in Ends : m = posted[d]
  BY DEF IInv, TypeOK, CreateRemoteAndReceiverStream
<1>2. /\ impl' = [impl EXCEPT ![d] = m]
      /\ posted' = [posted EXCEPT ![d] = NoEnds]
      /\ posted[d] # NoEnds
      /\ UNCHANGED <<add_num_messagepipe, step, message_pipes, connected>>
  BY <1>1 DEF CreateRemoteAndReceiverStream
<1>3. /\ impl' \in [Side \X StreamIds -> Ends \cup {NoEnds}]
      /\ posted' \in [Side \X StreamIds -> Ends \cup {NoEnds}]
      /\ impl'[d] = m /\ posted'[d] = NoEnds
      /\ \A e \in Side \X StreamIds :
            e # d => impl'[e] = impl[e] /\ posted'[e] = posted[e]
  BY <1>2 DEF IInv, TypeOK
<1>4. TypeOK'
  BY <1>2, <1>3 DEF IInv, TypeOK
<1>5. PipesInv'
  BY <1>2 DEF IInv, PipesInv, AppendPipe
<1>6. \A e \in Side \X StreamIds : Meant(e)' = Meant(e)
  BY <1>2 DEF Meant, AppendPipe
<1>7. GivenInv'
  BY <1>1, <1>2, <1>3, <1>6 DEF IInv, GivenInv, Given
<1>8. \A e \in Side \X StreamIds : Given(e) => Given(e)'
  BY <1>2, <1>3, PipesAssumption DEF Given
<1>9. ASSUME NEW q \in Side
      PROVE  OrderedAt(q)'
  <2>1. /\ OrderedAt(q)
        /\ \A i \in 0..(add_num_messagepipe[q] - 1) : <<q, AppendId(i)>> \in Side \X StreamIds
        /\ <<q, Process>> \in Side \X StreamIds
        /\ <<q, Default>> \in Side \X StreamIds /\ <<q, DefaultSync>> \in Side \X StreamIds
        /\ add_num_messagepipe[q] \in Nat /\ Len(message_pipes[q]) \in Nat
    BY StreamNames, PipesAssumption DEF IInv, OrderInv, TypeOK
  <2> QED
    BY <2>1, <1>2, <1>8 DEF OrderedAt
<1> QED
  BY <1>4, <1>5, <1>7, <1>9 DEF IInv, OrderInv

\* IInv is inductive.
LEMMA StepIInv == IInv /\ [Next]_vars => IInv'
<1> SUFFICES ASSUME IInv, [Next]_vars
             PROVE  IInv'
  OBVIOUS
<1>1. CASE AttachAndLaunchSubProcess
  BY <1>1, GetPipesStep DEF AttachAndLaunchSubProcess, Side
<1>2. CASE ExtractSubProcess
  BY <1>2, GetPipesStep DEF ExtractSubProcess, Side
<1>3. CASE LaunchSubProcess
  BY <1>3, LaunchStep
<1>4. CASE \E p \in Side : StartStep(p)
  BY <1>4, DefaultStep, AppendStep, ProcessStep DEF StartStep
<1>5. CASE \E e \in Side \X StreamIds : CreateRemoteAndReceiverStream(e)
  BY <1>5, BindStep
<1>6. CASE UNCHANGED vars
  BY <1>6 DEF vars, IInv, TypeOK, PipesInv, GivenInv, OrderInv, OrderedAt, Given,
       Meant, AppendPipe
<1> QED
  BY <1>1, <1>2, <1>3, <1>4, <1>5, <1>6 DEF Next

\* IInv holds in every state.
LEMMA AlwaysIInv == Spec => []IInv
  BY InitIInv, StepIInv, PTL DEF Spec

\* The ends a stream is given or bound to are pairs of pipes, and the lists of
\* append_message_pipes are made of them.
THEOREM TypeCorrect == Spec => []TypeOK
<1>1. IInv => TypeOK
  BY DEF IInv
<1> QED
  BY <1>1, AlwaysIInv, PTL
-----------------------------------------------------------------------------
(* The properties                                                          *)

\* The two names of a stream's pipes, for a number n of append streams.
NameOf(n, s) ==
    IF s = Process THEN 0 ELSE IF s = Default THEN 2 ELSE IF s = DefaultSync THEN 4
    ELSE kMMChildProcessReceiverAndHostRemoteSetSyncName + 2 * (n - s[2] - 1)

\* A bound stream has an even name and the next odd one, in the order of its side.
LEMMA BoundPair ==
    ASSUME IInv, NEW e \in Side \X StreamIds, Bound(e)
    PROVE  /\ impl[e] = PipeEnds(e[1], NameOf(add_num_messagepipe[e[1]], e[2]),
                                 NameOf(add_num_messagepipe[e[1]], e[2]) + 1)
           /\ NameOf(add_num_messagepipe[e[1]], e[2]) \in Nat
           /\ e[2] \in AppendIds => e[2][2] < add_num_messagepipe[e[1]]
           /\ e[1] \in Side /\ e[2] \in StreamIds
           /\ add_num_messagepipe[e[1]] \in Nat
<1>1. /\ impl[e] = Meant(e) /\ e[1] \in Side /\ e[2] \in StreamIds
      /\ add_num_messagepipe[e[1]] \in Nat
      /\ e[2] \in AppendIds => e[2][2] < add_num_messagepipe[e[1]]
  <2>1. e[1] \in Side /\ e[2] \in StreamIds
    OBVIOUS
  <2>2. impl[e] = Meant(e) /\ (e[2] \in AppendIds => e[2][2] < add_num_messagepipe[e[1]])
    BY DEF IInv, GivenInv, Given, Bound
  <2>3. add_num_messagepipe[e[1]] \in 0..MaxPipes
    BY <2>1 DEF IInv, TypeOK
  <2> QED
    BY <2>1, <2>2, <2>3, PipesAssumption
<1> DEFINE n == add_num_messagepipe[e[1]]
<1>2. CASE e[2] \in {Process, Default, DefaultSync}
  BY <1>1, <1>2, StreamNames DEF Meant, NameOf, kMMChildProcessReceiverProcessName,
     kMMChildProcessHostRemoteProcessName, kMMChildProcessReceiverName,
     kMMChildProcessHostRemoteName, kMMChildProcessReceiverSyncName,
     kMMChildProcessHostRemoteSyncName
<1>3. CASE e[2] \in AppendIds
  <2>1. e[2][2] \in Nat /\ e[2][2] < n /\ n \in Nat
    BY <1>1, <1>3, StreamNames
  <2>2. impl[e] = AppendPipe(e[1], n - e[2][2])
    BY <1>1, <1>3, StreamNames DEF Meant
  <2>3. NameOf(n, e[2]) = kMMChildProcessReceiverAndHostRemoteSetSyncName
                            + 2 * (n - e[2][2] - 1)
    BY <1>3, StreamNames DEF NameOf
  <2> QED
    BY <1>1, <2>1, <2>2, <2>3
       DEF AppendPipe, kMMChildProcessReceiverAndHostRemoteSetSyncName
<1> QED
  BY <1>1, <1>2, <1>3, StreamNames

\* Names are even, and tell the streams of one process apart.
LEMMA NamesApart ==
    ASSUME NEW n \in Nat, NEW l \in Nat, NEW s \in StreamIds, NEW t \in StreamIds,
           s \in AppendIds => s[2] < n, t \in AppendIds => t[2] < l
    PROVE  /\ n = l /\ NameOf(n, s) = NameOf(l, t) => s = t
           /\ NameOf(n, s) # NameOf(l, t) + 1
<1> USE DEF NameOf, kMMChildProcessReceiverAndHostRemoteSetSyncName
<1>1. CASE s \in AppendIds /\ t \in AppendIds
  <2>1. /\ s[2] \in Nat /\ t[2] \in Nat
        /\ s = AppendId(s[2]) /\ t = AppendId(t[2])
        /\ NameOf(n, s) = 1000 + 2 * (n - s[2] - 1)
        /\ NameOf(l, t) = 1000 + 2 * (l - t[2] - 1)
    BY <1>1, StreamNames
  <2> HIDE DEF NameOf
  <2>2. n = l /\ 1000 + 2 * (n - s[2] - 1) = 1000 + 2 * (l - t[2] - 1) => s[2] = t[2]
    BY <2>1
  <2>3. 1000 + 2 * (n - s[2] - 1) # 1000 + 2 * (l - t[2] - 1) + 1
    BY <2>1
  <2> QED
    BY <2>1, <2>2, <2>3
<1>2. CASE s \in AppendIds /\ t \notin AppendIds
  <2>1. s[2] \in Nat /\ s[2] < n /\ NameOf(n, s) = 1000 + 2 * (n - s[2] - 1)
    BY <1>2, StreamNames
  <2>2. NameOf(l, t) \in {0, 2, 4}
    BY <1>2, StreamNames
  <2> HIDE DEF NameOf
  <2> QED
    BY <1>2, <2>1, <2>2
<1>3. CASE s \notin AppendIds /\ t \in AppendIds
  <2>1. t[2] \in Nat /\ t[2] < l /\ NameOf(l, t) = 1000 + 2 * (l - t[2] - 1)
    BY <1>3, StreamNames
  <2>2. NameOf(n, s) \in {0, 2, 4}
    BY <1>3, StreamNames
  <2> HIDE DEF NameOf
  <2> QED
    BY <1>3, <2>1, <2>2
<1>4. CASE s \notin AppendIds /\ t \notin AppendIds
  BY <1>4, StreamNames
<1> QED
  BY <1>1, <1>2, <1>3, <1>4

\* The append streams of two processes are joined if and only if they are as
\* far from the last one of their own process.
LEMMA JoinedNames ==
    ASSUME IInv, NEW d \in Side \X StreamIds, NEW e \in Side \X StreamIds,
           Bound(d), Bound(e), d[1] = Host, e[1] = Child
    PROVE  Joined(d, e) <=> NameOf(add_num_messagepipe[Host], d[2])
                              = NameOf(add_num_messagepipe[Child], e[2])
<1>1. PICK m \in Nat : m = NameOf(add_num_messagepipe[Host], d[2])
  BY BoundPair
<1>2. PICK k \in Nat : k = NameOf(add_num_messagepipe[Child], e[2])
  BY BoundPair
<1>3. impl[d] = PipeEnds(Host, m, m + 1) /\ impl[e] = PipeEnds(Child, k, k + 1)
  BY <1>1, <1>2, BoundPair
<1>4. /\ impl[d] = [remote |-> m, receiver |-> m + 1]
      /\ impl[e] = [remote |-> k + 1, receiver |-> k]
  BY <1>3, PipesAssumption DEF PipeEnds
<1>5. Joined(d, e) <=> m = k
  BY <1>4 DEF Joined
<1> QED
  BY <1>1, <1>2, <1>5

\* The same streams of both processes are joined.
LEMMA IInvPaired == IInv => Paired
<1> SUFFICES ASSUME IInv, NEW s \in StreamIds,
                    Bound(<<Host, s>>), Bound(<<Child, s>>),
                    s \in AppendIds => add_num_messagepipe[Host] = add_num_messagepipe[Child]
             PROVE  Joined(<<Host, s>>, <<Child, s>>)
  BY DEF Paired
<1>1. NameOf(add_num_messagepipe[Host], s) = NameOf(add_num_messagepipe[Child], s)
  BY StreamNames DEF NameOf
<1>2. <<Host, s>> \in Side \X StreamIds /\ <<Child, s>> \in Side \X StreamIds
  BY DEF Side
<1> QED
  BY <1>1, <1>2, JoinedNames

\* Append streams are counted from the last one.
LEMMA IInvFromEnd == IInv => AppendJoinedFromEnd
<1> SUFFICES ASSUME IInv, NEW i \in 0..MaxPipes - 1, NEW j \in 0..MaxPipes - 1,
                    Bound(<<Host, AppendId(i)>>), Bound(<<Child, AppendId(j)>>)
             PROVE  Joined(<<Host, AppendId(i)>>, <<Child, AppendId(j)>>) <=>
                        add_num_messagepipe[Host] - i = add_num_messagepipe[Child] - j
  BY DEF AppendJoinedFromEnd
<1>1. /\ <<Host, AppendId(i)>> \in Side \X StreamIds
      /\ <<Child, AppendId(j)>> \in Side \X StreamIds
      /\ AppendId(i) \in AppendIds /\ AppendId(j) \in AppendIds
      /\ AppendId(i)[2] = i /\ AppendId(j)[2] = j
  BY PipesAssumption, StreamNames DEF Side
<1>2. PICK m \in Nat, n \in Nat :
          m = add_num_messagepipe[Host] /\ n = add_num_messagepipe[Child]
  BY PipesAssumption DEF IInv, TypeOK, Side
<1>3. /\ NameOf(m, AppendId(i)) = 1000 + 2 * (m - i - 1)
      /\ NameOf(n, AppendId(j)) = 1000 + 2 * (n - j - 1)
  BY <1>1, StreamNames DEF NameOf, kMMChildProcessReceiverAndHostRemoteSetSyncName
<1>4. 1000 + 2 * (m - i - 1) = 1000 + 2 * (n - j - 1) <=> m - i = n - j
  BY PipesAssumption
<1> QED
  BY <1>1, <1>2, <1>3, <1>4, JoinedNames

\* No end is used for two things.
LEMMA IInvNoSharedEnd == IInv => NoSharedEnd
<1> SUFFICES ASSUME IInv, NEW d \in Side \X StreamIds, NEW e \in Side \X StreamIds,
                    Bound(d), Bound(e)
             PROVE  /\ impl[d].remote = impl[e].remote => d = e
                    /\ impl[d].receiver = impl[e].receiver => d = e
                    /\ impl[d].remote = impl[e].receiver => d[1] # e[1]
  BY DEF NoSharedEnd
<1>1. PICK m \in Nat, k \in Nat :
          /\ m = NameOf(add_num_messagepipe[d[1]], d[2])
          /\ k = NameOf(add_num_messagepipe[e[1]], e[2])
  BY BoundPair
<1>2. impl[d] = PipeEnds(d[1], m, m + 1) /\ impl[e] = PipeEnds(e[1], k, k + 1)
  BY <1>1, BoundPair
<1>3. m # k + 1 /\ k # m + 1 /\ (d[1] = e[1] /\ m = k => d = e)
  <2>1. /\ add_num_messagepipe[d[1]] \in Nat /\ add_num_messagepipe[e[1]] \in Nat
        /\ d[2] \in AppendIds => d[2][2] < add_num_messagepipe[d[1]]
        /\ e[2] \in AppendIds => e[2][2] < add_num_messagepipe[e[1]]
        /\ d[2] \in StreamIds /\ e[2] \in StreamIds
        /\ d = <<d[1], d[2]>> /\ e = <<e[1], e[2]>>
    BY BoundPair
  <2>2. m # k + 1 /\ k # m + 1
    BY <1>1, <2>1, NamesApart
  <2>3. d[1] = e[1] /\ m = k => d[2] = e[2]
    BY <1>1, <2>1, NamesApart
  <2> QED
    BY <2>1, <2>2, <2>3
<1> QED
  BY <1>2, <1>3, PipesAssumption DEF PipeEnds, Side

\* Every stream has its pipes when the application hears of the connection.
LEMMA IInvConnectLast == IInv => ConnectLast
<1> SUFFICES ASSUME IInv, NEW p \in Side, connected[p],
                    NEW s \in {Process, Default, DefaultSync}
                                \cup {AppendId(j) : j \in 0..add_num_messagepipe[p] - 1}
             PROVE  Given(<<p, s>>)
  BY DEF ConnectLast, Given, Bound
<1>1. OrderedAt(p)
  BY DEF IInv, OrderInv
<1> QED
  BY <1>1 DEF OrderedAt

\* Whatever the applications ask for, what one side writes to a stream is read
\* by the same stream of the other side, if both have as many append streams.
THEOREM StreamsPaired == Spec => []Paired
  BY AlwaysIInv, IInvPaired, PTL

\* Which append streams are joined if they do not have as many.
THEOREM AppendStreamsPaired == Spec => []AppendJoinedFromEnd
  BY AlwaysIInv, IInvFromEnd, PTL

\* Two receivers never wait on one pipe, nor do two remotes write to one.
THEOREM EndsUsedOnce == Spec => []NoSharedEnd
  BY AlwaysIInv, IInvNoSharedEnd, PTL

\* remote_on_connect comes after the pipes of every stream.
THEOREM ConnectedLast == Spec => []ConnectLast
  BY AlwaysIInv, IInvConnectLast, PTL
=============================================================================
