-------------------------- MODULE RawClientProofs --------------------------
(***************************************************************************)
(* For any number of callers and calls: what RawClient keeps in order.     *)
(* Packets and replies move through one pipeline; the callers that wait    *)
(* stand in the order of their calls; and, as long as no packet is sealed  *)
(* while another waits to be sent, the two ends agree on the nonces.       *)
(***************************************************************************)
EXTENDS RawClient, SequenceTheorems, TLAPS

(* The types of all but the two lines of callers: what a caller that gives *)
(* up leaves of them matters to nothing that is proved here.               *)
PipeTypes ==
    /\ made \in 0 .. MaxCalls
    /\ tasks \in Seq(Calls) /\ flying \in Seq(Calls) /\ stream \in Seq(Calls)
    /\ job \in Seq(Calls) /\ answers \in Seq(Calls) /\ input \in Seq(Calls)
    /\ returned \in Seq((0 .. MaxCalls) \X Calls)
    /\ at \in [Callers -> {"idle", "receiving"}]
    /\ call \in [Callers -> 0 .. MaxCalls]
    /\ sealed \in [Calls -> Nat]
    /\ txNonce \in Nat /\ rxNonce \in Nat
    /\ crowded \in BOOLEAN /\ jumped \in BOOLEAN /\ expired \in BOOLEAN

FirstN(n) == [i \in 1 .. n |-> i]

(* While the connection has not failed, what is under way follows, in the  *)
(* order of the calls, what was handed to callers; once it has, what had   *)
(* been handed to them stays in order.                                     *)
Handed == Taken \o input
Front == Handed \o answers \o job \o stream
Whole == Front \o flying \o tasks

InOrder ==
    IF link = "dead" THEN flying = <<>> /\ Handed = FirstN(Len(Handed)) ELSE Whole = FirstN(made)

(* A packet that is alone is sealed with the nonce it will be checked with.*)
Counted ==
    /\ txNonce = rxNonce + Len(stream)
    /\ Len(flying) <= 1
    /\ ~crowded =>
         /\ \A k \in 1 .. Len(stream) : sealed[stream[k]] = rxNonce + k - 1
         /\ \A i \in 1 .. Len(flying) : sealed[flying[i]] = txNonce
         /\ \A i \in 1 .. Len(tasks) : sealed[tasks[i]] = txNonce
         /\ Len(flying) + Len(tasks) <= 1
         /\ refusals = {}

Posted ==
    /\ \A i \in 1 .. Len(tasks) : tasks[i] <= made
    /\ \A i \in 1 .. Len(flying) : flying[i] <= made
    /\ \A i \in 1 .. Len(stream) : stream[i] <= made

(* The callers that wait, the woken ones first, are at the calls that have *)
(* not returned, in order, and there is a reply for each woken one.        *)
Turns ==
    ~expired /\ ~jumped =>
        /\ woken \in Seq(Callers) /\ getters \in Seq(Callers)
        /\ Len(woken) <= Len(input)
        /\ Len(returned) + Len(woken) + Len(getters) = made
        /\ \A j \in 1 .. Len(woken) :
             at[woken[j]] = "receiving" /\ call[woken[j]] = Len(returned) + j
        /\ \A j \in 1 .. Len(getters) :
             at[getters[j]] = "receiving" /\ call[getters[j]] = Len(returned) + Len(woken) + j
        /\ \A k \in 1 .. Len(returned) : returned[k][1] = k

-----------------------------------------------------------------------------
(* Moving an element, or all, from one part of a pipeline to the next.     *)

LEMMA Split ==
    ASSUME NEW S, NEW c \in Seq(S), c # <<>>
    PROVE  /\ Head(c) \in S /\ <<Head(c)>> \in Seq(S) /\ Tail(c) \in Seq(S)
           /\ c = <<Head(c)>> \o Tail(c)
           /\ Len(c) \in Nat \ {0} /\ Len(Tail(c)) = Len(c) - 1
           /\ c[1] = Head(c) /\ \A i \in 1 .. Len(c) - 1 : Tail(c)[i] = c[i + 1]
<1>1. /\ Head(c) \in S /\ Tail(c) \in Seq(S) /\ <<Head(c)>> \in Seq(S)
      /\ Len(c) \in Nat \ {0} /\ Len(Tail(c)) = Len(c) - 1 /\ c[1] = Head(c)
      /\ \A i \in 1 .. Len(c) - 1 : Tail(c)[i] = c[i + 1]
  OBVIOUS
<1>2. /\ <<Head(c)>> \o Tail(c) \in Seq(S)
      /\ Len(<<Head(c)>> \o Tail(c)) = Len(c)
      /\ \A i \in 1 .. Len(c) : (<<Head(c)>> \o Tail(c))[i] = c[i]
  BY <1>1
<1>3. c = <<Head(c)>> \o Tail(c)
  BY <1>2, SeqEqual
<1> QED
  BY <1>1, <1>3

LEMMA Pass ==
    ASSUME NEW S, NEW b \in Seq(S), NEW c \in Seq(S), c # <<>>
    PROVE  /\ Append(b, Head(c)) \in Seq(S)
           /\ Append(b, Head(c)) \o Tail(c) = b \o c
<1>1. PICK h, t : h = Head(c) /\ t = Tail(c)
  OBVIOUS
<1>2. h \in S /\ <<h>> \in Seq(S) /\ t \in Seq(S) /\ c = <<h>> \o t
  BY <1>1, Split
<1>3. Append(b, h) = b \o <<h>> /\ Append(b, h) \in Seq(S)
  BY <1>2, AppendIsConcat, AppendProperties
<1>4. (b \o <<h>>) \o t = b \o (<<h>> \o t)
  BY <1>2, ConcatAssociative
<1> QED
  BY <1>1, <1>2, <1>3, <1>4

LEMMA Shift ==
    \A x, b, c \in Seq(Calls) :
        c # <<>> => (x \o Append(b, Head(c))) \o Tail(c) = (x \o b) \o c
<1> SUFFICES ASSUME NEW x \in Seq(Calls), NEW b \in Seq(Calls), NEW c \in Seq(Calls), c # <<>>
             PROVE  (x \o Append(b, Head(c))) \o Tail(c) = (x \o b) \o c
  OBVIOUS
<1>1. PICK a, t : a = Append(b, Head(c)) /\ t = Tail(c)
  OBVIOUS
<1>2. a \in Seq(Calls) /\ t \in Seq(Calls)
  BY <1>1, Pass, Split
<1>3. (x \o a) \o t = x \o (a \o t)
  BY <1>2, ConcatAssociative
<1>4. (x \o b) \o c = x \o (b \o c)
  BY ConcatAssociative
<1>5. a \o t = b \o c
  BY <1>1, Pass
<1> QED
  BY <1>1, <1>3, <1>4, <1>5

LEMMA Join == \A x, b, c \in Seq(Calls) : x \o (b \o c) = (x \o b) \o c
  BY ConcatAssociative

LEMMA Start ==
    ASSUME NEW x \in Seq(Calls), NEW c \in Seq(Calls), c # <<>>
    PROVE  (x \o <<Head(c)>>) \o Tail(c) = (x \o <<>>) \o c
<1>1. <<>> \in Seq(Calls) /\ Append(<<>>, Head(c)) = <<Head(c)>>
  BY Split
<1>2. (x \o Append(<<>>, Head(c))) \o Tail(c) = (x \o <<>>) \o c
  BY <1>1, Shift, Zenon
<1> QED
  BY <1>1, <1>2

LEMMA Pour ==
    ASSUME NEW S, NEW x \in Seq(S), NEW b \in Seq(S), NEW c \in Seq(S)
    PROVE  (x \o (b \o c)) \o <<>> = (x \o b) \o c
<1>1. b \o c \in Seq(S)
  BY ConcatProperties
<1>2. x \o (b \o c) \in Seq(S)
  BY <1>1, ConcatProperties
<1>3. (x \o (b \o c)) \o <<>> = x \o (b \o c)
  BY <1>2, ConcatEmptySeq
<1> QED
  BY <1>3, ConcatAssociative

(* A part of the calls in order, from the first, is in order.              *)
LEMMA FirstPart ==
    ASSUME NEW S, NEW a \in Seq(S), NEW b \in Seq(S), NEW n \in Nat, a \o b = FirstN(n)
    PROVE  a = FirstN(Len(a))
<1>1. /\ Len(a) \in Nat /\ Len(b) \in Nat /\ Len(a \o b) = Len(a) + Len(b)
      /\ \A i \in 1 .. Len(a) + Len(b) : (a \o b)[i] = IF i <= Len(a) THEN a[i] ELSE b[i - Len(a)]
  BY ConcatProperties
<1>2. FirstN(n) \in Seq(Nat) /\ Len(FirstN(n)) = n /\ \A i \in 1 .. n : FirstN(n)[i] = i
  BY DEF FirstN
<1>3. n = Len(a) + Len(b)
  BY <1>1, <1>2
<1>4. \A i \in 1 .. Len(a) : a[i] = i
  BY <1>1, <1>2, <1>3
<1>5. a = [i \in 1 .. Len(a) |-> a[i]]
  OBVIOUS
<1> QED
  BY <1>4, <1>5 DEF FirstN

LEMMA OneMore ==
    ASSUME NEW n \in Nat
    PROVE  Append(FirstN(n), n + 1) = FirstN(n + 1)
<1>1. FirstN(n) \in Seq(Nat) /\ FirstN(n + 1) \in Seq(Nat) /\ Len(FirstN(n)) = n /\ Len(FirstN(n + 1)) = n + 1
  BY DEF FirstN
<1>2. /\ Append(FirstN(n), n + 1) \in Seq(Nat)
      /\ Len(Append(FirstN(n), n + 1)) = n + 1
      /\ \A i \in 1 .. n : Append(FirstN(n), n + 1)[i] = FirstN(n)[i]
      /\ Append(FirstN(n), n + 1)[n + 1] = n + 1
  BY <1>1, AppendProperties
<1>3. \A i \in 1 .. n + 1 : Append(FirstN(n), n + 1)[i] = FirstN(n + 1)[i]
  <2> SUFFICES ASSUME NEW i \in 1 .. n + 1 PROVE Append(FirstN(n), n + 1)[i] = FirstN(n + 1)[i]
    OBVIOUS
  <2>1. CASE i = n + 1
    BY <1>2, <2>1 DEF FirstN
  <2>2. CASE i # n + 1
    <3>1. i \in 1 .. n
      BY <2>2
    <3> QED
      BY <1>2, <3>1 DEF FirstN
  <2> QED
    BY <2>1, <2>2
<1> QED
  BY <1>1, <1>2, <1>3, SeqEqual

-----------------------------------------------------------------------------
(* Types.                                                                  *)

LEMMA CallsAre == Calls \subseteq Nat \ {0} /\ \A i \in Calls : i <= MaxCalls
  BY CallsAssumption DEF Calls

LEMMA Returns ==
    ASSUME PipeTypes, NEW c \in Callers, NEW i \in 0 .. MaxCalls, input # <<>>, Return(c, i)
    PROVE  /\ returned' \in Seq((0 .. MaxCalls) \X Calls)
           /\ input' \in Seq(Calls)
           /\ at' \in [Callers -> {"idle", "receiving"}]
           /\ Head(input) \in Calls
<1>1. input \in Seq(Calls) /\ returned \in Seq((0 .. MaxCalls) \X Calls)
  BY DEF PipeTypes
<1>2. Head(input) \in Calls /\ Tail(input) \in Seq(Calls)
  BY <1>1, Split
<1>3. <<i, Head(input)>> \in (0 .. MaxCalls) \X Calls
  BY <1>2
<1>4. Append(returned, <<i, Head(input)>>) \in Seq((0 .. MaxCalls) \X Calls)
  BY <1>1, <1>3, AppendProperties
<1> QED
  BY <1>2, <1>4 DEF Return, PipeTypes

LEMMA RequestTypes ==
    ASSUME PipeTypes, NEW c \in Callers, Request(c)
    PROVE  PipeTypes' /\ made' = made + 1 /\ made' \in Calls
<1>1. made' = made + 1 /\ made' \in Calls /\ made' \in 0 .. MaxCalls
  BY CallsAssumption DEF Request, PipeTypes, Calls
<1>2. tasks' \in Seq(Calls) /\ sealed' \in [Calls -> Nat] /\ crowded' \in BOOLEAN
  BY <1>1 DEF Request, Seal, PipeTypes
<1>3. call' \in [Callers -> 0 .. MaxCalls] /\ jumped' \in BOOLEAN
  BY <1>1 DEF Request, PipeTypes
<1>4. /\ returned' \in Seq((0 .. MaxCalls) \X Calls)
      /\ input' \in Seq(Calls)
      /\ at' \in [Callers -> {"idle", "receiving"}]
  <2>1. CASE input # <<>>
    BY <1>1, <2>1, Returns DEF Request
  <2>2. CASE input = <<>>
    BY <2>2 DEF Request, Queue, PipeTypes
  <2> QED
    BY <2>1, <2>2
<1> QED
  BY <1>1, <1>2, <1>3, <1>4 DEF Request, Seal, PipeTypes, serverVars

LEMMA ResumeTypes ==
    ASSUME PipeTypes, NEW c \in Callers, Resume(c)
    PROVE  PipeTypes'
<1>1. /\ returned' \in Seq((0 .. MaxCalls) \X Calls)
      /\ input' \in Seq(Calls)
      /\ at' \in [Callers -> {"idle", "receiving"}]
  <2>1. CASE input # <<>>
    BY <2>1, Returns DEF Resume, PipeTypes
  <2>2. CASE input = <<>>
    BY <2>2 DEF Resume, Queue, PipeTypes
  <2> QED
    BY <2>1, <2>2
<1> QED
  BY <1>1 DEF Resume, PipeTypes, sendVars, serverVars

LEMMA PipeTypesStep == PipeTypes /\ [ClientNext]_clientVars => PipeTypes'
<1> SUFFICES ASSUME PipeTypes, [ClientNext]_clientVars PROVE PipeTypes'
  OBVIOUS
<1> USE DEF callerVars, sendVars, serverVars, clientVars
<1>1. ASSUME NEW c \in Callers, TimeOut(c) PROVE PipeTypes'
  BY <1>1 DEF TimeOut, PipeTypes
<1>2. CASE Close \/ GoAway \/ UNCHANGED clientVars
  BY <1>2 DEF Close, GoAway, PipeTypes
<1>3. CASE TakeTask
  BY <1>3 DEF TakeTask, PipeTypes
<1>4. CASE Sent
  BY <1>4, ConcatProperties DEF Sent, PipeTypes
<1>5. CASE SendRaises
  BY <1>5 DEF SendRaises, PipeTypes
<1>6. CASE Receive \/ ReceiveRaises
  <2>1. CASE Receive
    BY <2>1 DEF Receive, PipeTypes
  <2>2. CASE ReceiveRaises
    <3>1. flying' \in Seq(Calls)
      BY <2>2, EmptySeq DEF ReceiveRaises
    <3>2. answers' \in Seq(Calls)
      BY <2>2 DEF ReceiveRaises, PipeTypes
    <3> QED
      BY <2>2, <3>1, <3>2 DEF ReceiveRaises, PipeTypes
  <2> QED
    BY <1>6, <2>1, <2>2
<1>7. CASE Verify
  BY <1>7 DEF Verify, PipeTypes
<1>8. CASE Refuse
  BY <1>8 DEF Refuse, PipeTypes
<1>9. CASE Answer
  BY <1>9, ConcatProperties DEF Answer, PipeTypes
<1>10. CASE ClientNext
  BY <1>1, <1>2, <1>3, <1>4, <1>5, <1>6, <1>7, <1>8, <1>9, <1>10, RequestTypes, ResumeTypes
  DEF ClientNext
<1> QED
  BY <1>2, <1>10

-----------------------------------------------------------------------------
(* The pipeline.                                                           *)

LEMMA TakenIs ==
    ASSUME PipeTypes
    PROVE  /\ Taken \in Seq(Calls) /\ Len(Taken) = Len(returned)
           /\ \A k \in 1 .. Len(returned) : Taken[k] = returned[k][2]
<1>1. Len(returned) \in Nat /\ \A k \in 1 .. Len(returned) : returned[k][2] \in Calls
  BY DEF PipeTypes
<1> QED
  BY <1>1 DEF Taken

LEMMA TakenSame == returned' = returned => Taken' = Taken
  BY DEF Taken

LEMMA TakenGrows ==
    ASSUME PipeTypes, NEW c \in Callers, NEW i \in 0 .. MaxCalls, input # <<>>, Return(c, i)
    PROVE  Taken' = Append(Taken, Head(input))
<1>1. /\ input \in Seq(Calls) /\ returned \in Seq((0 .. MaxCalls) \X Calls)
      /\ Head(input) \in Calls /\ returned' = Append(returned, <<i, Head(input)>>)
  BY Returns DEF PipeTypes, Return
<1>2. PICK n, h : n = Len(returned) /\ h = Head(input)
  OBVIOUS
<1>3. <<i, h>> \in (0 .. MaxCalls) \X Calls
  BY <1>1, <1>2
<1>4. /\ n \in Nat /\ Len(returned') = n + 1
      /\ \A k \in 1 .. n : returned'[k] = returned[k]
      /\ returned'[n + 1] = <<i, h>>
  BY <1>1, <1>2, <1>3, AppendProperties
<1>5. Taken' = [k \in 1 .. n + 1 |-> IF k = n + 1 THEN h ELSE returned[k][2]]
  <2>1. Taken' = [k \in 1 .. n + 1 |-> returned'[k][2]]
    BY <1>4 DEF Taken
  <2>2. \A k \in 1 .. n + 1 : returned'[k][2] = IF k = n + 1 THEN h ELSE returned[k][2]
    <3> SUFFICES ASSUME NEW k \in 1 .. n + 1
                 PROVE  returned'[k][2] = IF k = n + 1 THEN h ELSE returned[k][2]
      OBVIOUS
    <3>1. CASE k = n + 1
      BY <1>4, <3>1
    <3>2. CASE k # n + 1
      <4>1. k \in 1 .. n
        BY <1>4, <3>2
      <4> QED
        BY <1>4, <3>2, <4>1
    <3> QED
      BY <3>1, <3>2
  <2> QED
    BY <2>1, <2>2
<1>6. /\ Taken \in Seq(Calls) /\ Len(Taken) = n /\ h \in Calls
      /\ \A k \in 1 .. n : Taken[k] = returned[k][2]
  BY <1>1, <1>2, TakenIs
<1>7. /\ Append(Taken, h) \in Seq(Calls) /\ Len(Append(Taken, h)) = n + 1
      /\ \A k \in 1 .. n : Append(Taken, h)[k] = returned[k][2]
      /\ Append(Taken, h)[n + 1] = h
  BY <1>6, AppendProperties
<1>8. Append(Taken, h) = [k \in 1 .. n + 1 |-> Append(Taken, h)[k]]
  <2>1. PICK a : a = Append(Taken, h)
    OBVIOUS
  <2>2. a \in Seq(Calls) /\ Len(a) = n + 1
    BY <1>7, <2>1
  <2>3. a = [k \in 1 .. n + 1 |-> a[k]]
    BY <2>2
  <2> QED
    BY <2>1, <2>3
<1>9. \A k \in 1 .. n + 1 : Append(Taken, h)[k] = IF k = n + 1 THEN h ELSE returned[k][2]
  <2> SUFFICES ASSUME NEW k \in 1 .. n + 1
               PROVE  Append(Taken, h)[k] = IF k = n + 1 THEN h ELSE returned[k][2]
    OBVIOUS
  <2>1. CASE k = n + 1
    BY <1>7, <2>1
  <2>2. CASE k # n + 1
    <3>1. k \in 1 .. n
      BY <1>4, <2>2
    <3> QED
      BY <1>7, <2>2, <3>1
  <2> QED
    BY <2>1, <2>2
<1>10. Taken' = Append(Taken, h)
  BY <1>5, <1>8, <1>9
<1> QED
  BY <1>2, <1>10

LEMMA Parts ==
    ASSUME PipeTypes
    PROVE  /\ Taken \in Seq(Calls) /\ Handed \in Seq(Calls)
           /\ Handed \o answers \in Seq(Calls)
           /\ (Handed \o answers) \o job \in Seq(Calls)
           /\ Front \in Seq(Calls) /\ Front \o flying \in Seq(Calls) /\ Whole \in Seq(Calls)
<1>1. /\ tasks \in Seq(Calls) /\ flying \in Seq(Calls) /\ stream \in Seq(Calls)
      /\ job \in Seq(Calls) /\ answers \in Seq(Calls) /\ input \in Seq(Calls)
  BY DEF PipeTypes
<1>2. Taken \in Seq(Calls)
  BY TakenIs
<1>3. Handed \in Seq(Calls)
  BY <1>1, <1>2, ConcatProperties DEF Handed
<1>4. Handed \o answers \in Seq(Calls)
  BY <1>1, <1>3, ConcatProperties
<1>5. (Handed \o answers) \o job \in Seq(Calls)
  BY <1>1, <1>4, ConcatProperties
<1>6. Front \in Seq(Calls)
  BY <1>1, <1>5, ConcatProperties DEF Front
<1>7. Front \o flying \in Seq(Calls)
  BY <1>1, <1>6, ConcatProperties
<1>8. Whole \in Seq(Calls)
  BY <1>1, <1>7, ConcatProperties DEF Whole
<1> QED
  BY <1>2, <1>3, <1>4, <1>5, <1>6, <1>7, <1>8

LEMMA HandedInOrder ==
    ASSUME PipeTypes, InOrder
    PROVE  Handed = FirstN(Len(Handed))
<1>1. CASE link = "dead"
  BY <1>1 DEF InOrder
<1>2. CASE link # "dead"
  <2>1. /\ tasks \in Seq(Calls) /\ flying \in Seq(Calls) /\ stream \in Seq(Calls)
        /\ job \in Seq(Calls) /\ answers \in Seq(Calls) /\ made \in Nat
    BY CallsAssumption DEF PipeTypes
  <2>2. PICK a : a = Handed \o answers
    OBVIOUS
  <2>3. PICK b : b = a \o job
    OBVIOUS
  <2>4. PICK d : d = Front \o flying
    OBVIOUS
  <2>5. /\ a \in Seq(Calls) /\ b \in Seq(Calls) /\ d \in Seq(Calls)
        /\ Handed \in Seq(Calls) /\ Front \in Seq(Calls)
        /\ Len(a) \in Nat /\ Len(b) \in Nat /\ Len(d) \in Nat /\ Len(Front) \in Nat
    BY <2>2, <2>3, <2>4, Parts, LenProperties
  <2>6. d \o tasks = FirstN(made)
    BY <1>2, <2>4 DEF InOrder, Whole
  <2>7. d = FirstN(Len(d))
    BY <2>1, <2>5, <2>6, FirstPart
  <2>8. Front = FirstN(Len(Front))
    BY <2>1, <2>4, <2>5, <2>7, FirstPart
  <2>9. b \o stream = FirstN(Len(Front))
    BY <2>2, <2>3, <2>8 DEF Front
  <2>10. b = FirstN(Len(b))
    BY <2>1, <2>5, <2>9, FirstPart
  <2>11. a = FirstN(Len(a))
    BY <2>1, <2>3, <2>5, <2>10, FirstPart
  <2> QED
    BY <2>1, <2>2, <2>5, <2>11, FirstPart
<1> QED
  BY <1>1, <1>2

(* Steps up to the stream leave what is in front as a whole.               *)
LEMMA TakenFront ==
    ASSUME PipeTypes, NEW c \in Callers, NEW i \in 0 .. MaxCalls, input # <<>>, Return(c, i),
           UNCHANGED <<answers, job, stream>>
    PROVE  Front' = Front /\ Handed' = Handed
<1>1. Taken' = Append(Taken, Head(input)) /\ input' = Tail(input)
  BY TakenGrows DEF Return
<1>2. Taken \in Seq(Calls) /\ input \in Seq(Calls)
  BY Parts DEF PipeTypes
<1>3. Append(Taken, Head(input)) \o Tail(input) = Taken \o input
  BY <1>2, Pass
<1>4. Taken' \o input' = Taken \o input
  BY <1>1, <1>3
<1> QED
  BY <1>4 DEF Front, Handed

LEMMA CallerFront ==
    ASSUME PipeTypes, NEW c \in Callers, Request(c) \/ Resume(c)
    PROVE  Front' = Front /\ Handed' = Handed
<1> USE DEF callerVars, sendVars, serverVars
<1>1. UNCHANGED <<answers, job, stream>>
  BY DEF Request, Resume
<1>2. CASE input = <<>>
  <2>1. returned' = returned /\ input' = input
    BY <1>2 DEF Request, Resume, Queue
  <2> QED
    BY <1>1, <2>1, TakenSame DEF Front, Handed
<1>3. CASE input # <<>>
  <2>1. PICK i \in 0 .. MaxCalls : Return(c, i)
    <3>1. CASE Request(c)
      BY <1>3, <3>1, RequestTypes DEF Request, PipeTypes
    <3>2. CASE Resume(c)
      BY <1>3, <3>2 DEF Resume, PipeTypes
    <3> QED
      BY <3>1, <3>2
  <2> QED
    BY <1>1, <1>3, <2>1, TakenFront
<1> QED
  BY <1>2, <1>3

LEMMA ReceiveFront ==
    ASSUME PipeTypes, Receive
    PROVE  Front' = Front
<1>1. /\ Taken' = Taken /\ input' = Append(input, Head(answers)) /\ answers' = Tail(answers)
      /\ answers # <<>> /\ UNCHANGED <<job, stream>>
  BY TakenSame DEF Receive, serverVars
<1>2. Taken \in Seq(Calls) /\ input \in Seq(Calls) /\ answers \in Seq(Calls) /\ answers # <<>>
  BY Parts DEF PipeTypes, Receive
<1>3. (Taken \o Append(input, Head(answers))) \o Tail(answers) = (Taken \o input) \o answers
  BY <1>2, Shift, Zenon
<1>4. (Taken' \o input') \o answers' = (Taken \o input) \o answers
  BY <1>1, <1>3
<1> QED
  BY <1>1, <1>4 DEF Front, Handed

LEMMA ServerFront ==
    ASSUME PipeTypes, Verify \/ Refuse \/ Answer
    PROVE  Front' = Front
<1> DEFINE x == Taken \o input
<1>1. /\ x \in Seq(Calls) /\ x \o answers \in Seq(Calls) /\ stream \in Seq(Calls)
      /\ answers \in Seq(Calls) /\ job \in Seq(Calls)
  BY Parts DEF PipeTypes, Handed
<1>2. Taken' = Taken /\ input' = input
  BY TakenSame DEF Verify, Refuse, Answer, callerVars
<1>3. x' = x
  BY <1>2
<1> HIDE DEF x
<1>4. CASE Verify
  <2>1. /\ stream # <<>> /\ job = <<>> /\ job' = <<Head(stream)>> /\ stream' = Tail(stream)
        /\ answers' = answers
    BY <1>4 DEF Verify
  <2>2. PICK y : y = x \o answers
    OBVIOUS
  <2>3. y \in Seq(Calls)
    BY <1>1, <2>2
  <2>4. (y \o <<Head(stream)>>) \o Tail(stream) = (y \o <<>>) \o stream
    BY <1>1, <2>1, <2>3, Start
  <2>5. ((x' \o answers') \o job') \o stream' = ((x \o answers) \o job) \o stream
    BY <1>3, <2>1, <2>2, <2>4
  <2> QED
    BY <2>5 DEF Front, Handed, x
<1>5. CASE Answer
  <2>1. job' = <<>> /\ stream' = stream /\ answers' = answers \o job
    BY <1>5 DEF Answer
  <2>2. (x \o (answers \o job)) \o <<>> = (x \o answers) \o job
    BY <1>1, Pour
  <2>3. (x' \o answers') \o job' = (x \o answers) \o job
    BY <1>3, <2>1, <2>2
  <2> QED
    BY <2>1, <2>3 DEF Front, Handed, x
<1>6. CASE Refuse
  <2>1. /\ stream # <<>> /\ job = <<>> /\ job' = job /\ stream' = Tail(stream)
        /\ answers' = Append(answers, Head(stream))
    BY <1>6 DEF Refuse
  <2>2. (x \o Append(answers, Head(stream))) \o Tail(stream) = (x \o answers) \o stream
    <3>1. stream # <<>>
      BY <2>1
    <3> QED
      BY <1>1, <3>1, Shift, Zenon
  <2>3. PICK a : a = Append(answers, Head(stream))
    OBVIOUS
  <2>4. a \in Seq(Calls)
    BY <1>1, <2>1, <2>3, Pass
  <2>5. x \o a \in Seq(Calls)
    BY <1>1, <2>4, ConcatProperties
  <2>6. (x \o a) \o <<>> = x \o a
    BY <2>5, ConcatEmptySeq
  <2>7. (x \o answers) \o <<>> = x \o answers
    BY <1>1, ConcatEmptySeq
  <2>8. ((x' \o answers') \o job') \o stream' = ((x \o answers) \o job) \o stream
    BY <1>3, <2>1, <2>2, <2>3, <2>6, <2>7
  <2> QED
    BY <2>8 DEF Front, Handed, x
<1> QED
  BY <1>4, <1>5, <1>6

LEMMA InOrderStep ==
    ASSUME PipeTypes, InOrder, [ClientNext]_clientVars
    PROVE  InOrder'
<1> USE DEF callerVars, sendVars, serverVars, clientVars
<1>0. made \in Nat /\ Front \in Seq(Calls) /\ flying \in Seq(Calls) /\ tasks \in Seq(Calls)
  BY Parts, CallsAssumption DEF PipeTypes
<1>h. Handed = FirstN(Len(Handed))
  BY HandedInOrder
<1>1. ASSUME Front' = Front, link = "dead" => Handed' = Handed, 
             UNCHANGED <<flying, tasks, made>>, link' = link \/ (link = "up" /\ link' = "closed")
      PROVE  InOrder'
  <2>1. Whole' = Whole
    BY <1>1 DEF Whole
  <2> QED
    BY <1>1, <2>1 DEF InOrder
<1>2. CASE UNCHANGED <<returned, input, answers, job, stream, flying, tasks, made>>
           /\ (link' = link \/ (link = "up" /\ link' = "closed"))
  <2>1. Front' = Front /\ Handed' = Handed
    BY <1>2, TakenSame DEF Front, Handed
  <2> QED
    BY <1>1, <1>2, <2>1
<1>3. ASSUME NEW c \in Callers, TimeOut(c) PROVE InOrder'
  BY <1>2, <1>3 DEF TimeOut
<1>4. CASE Close \/ GoAway \/ UNCHANGED clientVars
  BY <1>2, <1>4 DEF Close, GoAway
<1>5. ASSUME NEW c \in Callers, Resume(c) PROVE InOrder'
  BY <1>1, <1>5, CallerFront DEF Resume
<1>6. CASE Receive
  BY <1>1, <1>6, ReceiveFront DEF Receive
<1>7. CASE Verify \/ Refuse \/ Answer
  <2>1. Handed' = Handed
    BY <1>7, TakenSame DEF Verify, Refuse, Answer, Handed
  <2> QED
    BY <1>1, <1>7, <2>1, ServerFront DEF Verify, Refuse, Answer
<1>8. ASSUME NEW c \in Callers, Request(c) PROVE InOrder'
  <2>1. Front' = Front /\ Handed' = Handed /\ flying' = flying /\ link' = link /\ made' = made + 1 /\ made + 1 \in Calls
        /\ tasks' = Append(tasks, made + 1)
    BY <1>8, CallerFront, RequestTypes DEF Request, Seal
  <2>2. CASE link = "dead"
    BY <2>1, <2>2 DEF InOrder
  <2>3. CASE link # "dead"
    <3>1. PICK y : y = Front \o flying
      OBVIOUS
    <3>2. y \in Seq(Calls)
      BY <3>1, Parts
    <3>3. PICK e : e = made + 1
      OBVIOUS
    <3>4. e \in Calls /\ <<e>> \in Seq(Calls)
      BY <2>1, <3>3
    <3>5. Append(tasks, e) = tasks \o <<e>>
      BY <1>0, <3>4, AppendIsConcat
    <3>6. y \o (tasks \o <<e>>) = (y \o tasks) \o <<e>>
      BY <1>0, <3>2, <3>4, ConcatAssociative
    <3>7. PICK w : w = y \o tasks
      OBVIOUS
    <3>8. w \in Seq(Calls) /\ w = FirstN(made)
      BY <2>3, <3>1, <3>7, Parts DEF Whole, InOrder
    <3>9. Append(w, e) = w \o <<e>>
      BY <3>4, <3>8, AppendIsConcat
    <3>10. Append(w, e) = FirstN(made + 1)
      BY <1>0, <3>3, <3>8, OneMore
    <3>11. Whole' = (Front' \o flying') \o tasks'
      BY DEF Whole
    <3>12. Whole' = FirstN(made')
      BY <2>1, <3>1, <3>3, <3>5, <3>6, <3>7, <3>9, <3>10, <3>11
    <3> QED
      BY <2>1, <2>3, <3>12 DEF InOrder
  <2> QED
    BY <2>2, <2>3
<1>9. CASE TakeTask
  <2>1. /\ link = "up" /\ tasks # <<>> /\ flying = <<>> /\ flying' = <<Head(tasks)>> /\ tasks' = Tail(tasks)
        /\ UNCHANGED <<made, link>>
    BY <1>9 DEF TakeTask
  <2>2. Front' = Front
    BY <1>9, TakenSame DEF TakeTask, Front, Handed
  <2>3. (Front \o <<Head(tasks)>>) \o Tail(tasks) = (Front \o <<>>) \o tasks
    BY <1>0, <2>1, Start
  <2>4. Whole' = (Front' \o flying') \o tasks'
    BY DEF Whole
  <2>5. Whole' = Whole
    BY <2>1, <2>2, <2>3, <2>4 DEF Whole
  <2> QED
    BY <2>1, <2>2, <2>5 DEF InOrder
<1>10. CASE Sent
  <2>1. /\ flying # <<>> /\ flying' = <<>> /\ stream' = stream \o flying
        /\ UNCHANGED <<tasks, made, returned, input, answers, job>>
        /\ link' = link \/ link' = "dead"
    BY <1>10 DEF Sent
  <2>2. PICK y : y = (Handed \o answers) \o job
    OBVIOUS
  <2>3. y \in Seq(Calls) /\ Handed' = Handed /\ stream \in Seq(Calls)
    BY <2>1, <2>2, Parts, TakenSame DEF PipeTypes, Handed
  <2>4. Front' = y \o (stream \o flying)
    BY <2>1, <2>2, <2>3 DEF Front
  <2>5. Front = y \o stream
    BY <2>2 DEF Front
  <2>6. y \o (stream \o flying) = (y \o stream) \o flying
    <3>1. y \in Seq(Calls) /\ stream \in Seq(Calls) /\ flying \in Seq(Calls)
      BY <1>0, <2>3
    <3> QED
      BY <3>1, Join, Zenon
  <2>7. Front' = Front \o flying
    BY <2>4, <2>5, <2>6
  <2>8. PICK f : f = Front \o flying
    OBVIOUS
  <2>9. f \in Seq(Calls)
    BY <2>8, Parts
  <2>10. f \o <<>> = f
    BY <2>9, ConcatEmptySeq
  <2>11. Whole' = (Front' \o flying') \o tasks'
    BY DEF Whole
  <2>12. Whole' = Whole
    BY <2>1, <2>7, <2>8, <2>10, <2>11 DEF Whole
  <2> QED
    BY <1>h, <2>1, <2>3, <2>12 DEF InOrder
<1>11. CASE SendRaises \/ ReceiveRaises
  <2>1. Handed' = Handed /\ link' = "dead" /\ flying' = <<>>
    BY <1>11, TakenSame DEF SendRaises, ReceiveRaises, Handed
  <2> QED
    BY <1>h, <2>1 DEF InOrder
<1>12. CASE ClientNext
  BY <1>3, <1>4, <1>5, <1>6, <1>7, <1>8, <1>9, <1>10, <1>11, <1>12 DEF ClientNext
<1> QED
  BY <1>4, <1>12

-----------------------------------------------------------------------------
(* Nonces.  The packets under way are those of calls that were made, so    *)
(* that sealing a new one leaves their nonces.                             *)

LEMMA ConcatIs ==
    ASSUME NEW a \in Seq(Calls), NEW b \in Seq(Calls)
    PROVE  /\ Len(a) \in Nat /\ Len(b) \in Nat /\ Len(a \o b) = Len(a) + Len(b)
           /\ \A i \in 1 .. Len(a) : (a \o b)[i] = a[i]
           /\ \A i \in 1 .. Len(b) : (a \o b)[Len(a) + i] = b[i]
  OBVIOUS

LEMMA PostedStep ==
    ASSUME PipeTypes, Posted, [ClientNext]_clientVars
    PROVE  Posted'
<1> USE DEF callerVars, sendVars, serverVars, clientVars
<1>0. /\ tasks \in Seq(Calls) /\ flying \in Seq(Calls) /\ stream \in Seq(Calls)
      /\ made \in Nat
  BY CallsAssumption DEF PipeTypes
<1>1. ASSUME UNCHANGED <<tasks, flying, stream, made>> PROVE Posted'
  BY <1>1 DEF Posted
<1>2. ASSUME NEW c \in Callers, Request(c) PROVE Posted'
  <2>1. made' = made + 1 /\ made + 1 \in Calls /\ UNCHANGED <<flying, stream>> /\ tasks' = Append(tasks, made + 1)
    BY <1>2, RequestTypes DEF Request, Seal
  <2>2. /\ Len(tasks') = Len(tasks) + 1 /\ tasks'[Len(tasks) + 1] = made + 1
        /\ \A i \in 1 .. Len(tasks) : tasks'[i] = tasks[i]
    BY <1>0, <2>1, AppendProperties
  <2>3. \A i \in 1 .. Len(tasks) + 1 : i \in 1 .. Len(tasks) \/ i = Len(tasks) + 1
    BY <1>0
  <2>4. \A k \in Calls : k <= made => k <= made'
    BY <1>0, <2>1, CallsAre
  <2>5. \A i \in 1 .. Len(tasks') : tasks'[i] <= made'
    BY <1>0, <2>1, <2>2, <2>3, <2>4 DEF Posted
  <2>6. \A i \in 1 .. Len(flying') : flying'[i] <= made'
    BY <1>0, <2>1, <2>4 DEF Posted
  <2>7. \A i \in 1 .. Len(stream') : stream'[i] <= made'
    BY <1>0, <2>1, <2>4 DEF Posted
  <2> QED
    BY <2>5, <2>6, <2>7 DEF Posted
<1>3. CASE TakeTask
  <2>1. /\ tasks # <<>> /\ flying' = <<Head(tasks)>> /\ tasks' = Tail(tasks)
        /\ UNCHANGED <<made, stream>>
    BY <1>3 DEF TakeTask
  <2>2. /\ Len(tasks) \in Nat \ {0} /\ Len(tasks') = Len(tasks) - 1 /\ tasks[1] = Head(tasks)
        /\ \A i \in 1 .. Len(tasks) - 1 : tasks'[i] = tasks[i + 1]
    BY <1>0, <2>1, Split
  <2>3. Len(flying') = 1 /\ flying'[1] = tasks[1]
    BY <2>1, <2>2
  <2>4. \A i \in 1 .. Len(tasks') : tasks'[i] <= made
    BY <2>2 DEF Posted
  <2>5. \A i \in 1 .. Len(flying') : flying'[i] <= made
    BY <2>2, <2>3 DEF Posted
  <2> QED
    BY <2>1, <2>4, <2>5 DEF Posted
<1>4. CASE Sent
  <2>1. stream' = stream \o flying /\ flying' = <<>> /\ UNCHANGED <<tasks, made>>
    BY <1>4 DEF Sent
  <2>2. /\ Len(stream) \in Nat /\ Len(flying) \in Nat /\ Len(stream') = Len(stream) + Len(flying)
        /\ \A i \in 1 .. Len(stream) : stream'[i] = stream[i]
        /\ \A i \in 1 .. Len(flying) : stream'[Len(stream) + i] = flying[i]
    BY <1>0, <2>1, ConcatIs
  <2>3. ASSUME NEW i \in 1 .. Len(stream') PROVE stream'[i] <= made
    <3>1. CASE i \in 1 .. Len(stream)
      BY <2>2, <3>1 DEF Posted
    <3>2. CASE i \notin 1 .. Len(stream)
      <4>1. i - Len(stream) \in 1 .. Len(flying) /\ Len(stream) + (i - Len(stream)) = i
        BY <2>2, <3>2
      <4> QED
        BY <2>2, <4>1 DEF Posted
    <3> QED
      BY <3>1, <3>2
  <2> QED
    BY <2>1, <2>3 DEF Posted
<1>5. CASE Verify \/ Refuse
  <2>1. stream # <<>> /\ stream' = Tail(stream) /\ UNCHANGED <<tasks, flying, made>>
    BY <1>5 DEF Verify, Refuse
  <2>2. /\ Len(stream) \in Nat \ {0} /\ Len(stream') = Len(stream) - 1
        /\ \A i \in 1 .. Len(stream) - 1 : stream'[i] = stream[i + 1]
    BY <1>0, <2>1, Split
  <2>3. ASSUME NEW i \in 1 .. Len(stream') PROVE stream'[i] <= made
    <3>1. i + 1 \in 1 .. Len(stream) /\ stream'[i] = stream[i + 1]
      BY <2>2
    <3> QED
      BY <3>1 DEF Posted
  <2> QED
    BY <2>1, <2>3 DEF Posted
<1>6. CASE SendRaises \/ ReceiveRaises
  BY <1>6 DEF SendRaises, ReceiveRaises, Posted
<1>7. CASE ClientNext /\ ~TakeTask /\ ~Sent /\ ~Verify /\ ~Refuse /\ ~SendRaises
           /\ ~ReceiveRaises /\ \A c \in Callers : ~Request(c)
  BY <1>1, <1>7 DEF ClientNext, Resume, TimeOut, Close, Receive, Answer, GoAway
<1>8. CASE UNCHANGED clientVars
  BY <1>1, <1>8
<1> QED
  BY <1>2, <1>3, <1>4, <1>5, <1>6, <1>7, <1>8

LEMMA CountedStep ==
    ASSUME PipeTypes, Posted, Counted, [ClientNext]_clientVars
    PROVE  Counted'
<1> USE DEF callerVars, sendVars, serverVars, clientVars
<1>0. /\ tasks \in Seq(Calls) /\ flying \in Seq(Calls) /\ stream \in Seq(Calls)
      /\ made \in Nat /\ sealed \in [Calls -> Nat] /\ txNonce \in Nat /\ rxNonce \in Nat
      /\ Len(stream) \in Nat /\ Len(flying) \in Nat /\ Len(tasks) \in Nat
      /\ crowded \in BOOLEAN
  BY CallsAssumption DEF PipeTypes
<1>1. ASSUME UNCHANGED <<tasks, flying, stream, sealed, txNonce, rxNonce, crowded, refusals>>
      PROVE  Counted'
  BY <1>1 DEF Counted
<1>2. ASSUME NEW c \in Callers, Request(c) PROVE Counted'
  <2>1. /\ made' = made + 1 /\ made + 1 \in Calls
        /\ UNCHANGED <<flying, stream, txNonce, rxNonce, refusals>>
        /\ tasks' = Append(tasks, made + 1) /\ sealed' = [sealed EXCEPT ![made + 1] = txNonce]
        /\ crowded' = (crowded \/ tasks # <<>> \/ flying # <<>>)
    BY <1>2, RequestTypes DEF Request, Seal
  <2>2. CASE crowded'
    BY <2>1, <2>2 DEF Counted
  <2>3. CASE ~crowded'
    <3>1. ~crowded /\ tasks = <<>> /\ flying = <<>>
      BY <2>1, <2>3
    <3>2. tasks' = <<made + 1>> /\ Len(tasks') = 1 /\ tasks'[1] = made + 1 /\ Len(flying) = 0
      BY <2>1, <3>1
    <3>3. sealed'[made + 1] = txNonce
      BY <1>0, <2>1
    <3>4. ASSUME NEW k \in 1 .. Len(stream) PROVE sealed'[stream[k]] = rxNonce + k - 1
      <4>1. stream[k] \in Calls /\ stream[k] <= made
        BY <1>0 DEF Posted
      <4>2. stream[k] # made + 1
        BY <1>0, <4>1, CallsAre
      <4>3. sealed'[stream[k]] = sealed[stream[k]]
        BY <1>0, <2>1, <4>1, <4>2
      <4> QED
        BY <3>1, <4>3 DEF Counted
    <3> QED
      BY <2>1, <3>1, <3>2, <3>3, <3>4 DEF Counted
  <2> QED
    BY <2>2, <2>3
<1>3. CASE TakeTask
  <2>1. /\ tasks # <<>> /\ flying = <<>> /\ flying' = <<Head(tasks)>> /\ tasks' = Tail(tasks)
        /\ UNCHANGED <<stream, sealed, txNonce, rxNonce, crowded, refusals>>
    BY <1>3 DEF TakeTask
  <2>2. /\ Len(tasks) \in Nat \ {0} /\ Len(tasks') = Len(tasks) - 1 /\ tasks[1] = Head(tasks)
        /\ \A i \in 1 .. Len(tasks) - 1 : tasks'[i] = tasks[i + 1]
    BY <1>0, <2>1, Split
  <2>3. Len(flying') = 1 /\ flying'[1] = tasks[1] /\ Len(flying) = 0
    BY <2>1, <2>2
  <2> QED
    BY <2>1, <2>2, <2>3 DEF Counted
<1>4. CASE Sent
  <2>1. /\ flying # <<>> /\ stream' = stream \o flying /\ flying' = <<>> /\ txNonce' = txNonce + 1
        /\ UNCHANGED <<tasks, sealed, rxNonce, crowded, refusals>>
    BY <1>4 DEF Sent
  <2>2. Len(flying) = 1 /\ Len(flying') = 0
    <3>1. Len(flying) <= 1
      BY DEF Counted
    <3>2. Len(flying) # 0
      BY <1>0, <2>1, EmptySeq
    <3>3. PICK n \in Nat : n = Len(flying)
      BY <1>0
    <3>4. Len(flying) = 1
      <4>1. n <= 1 /\ n # 0
        BY <3>1, <3>2, <3>3
      <4>2. n = 1
        BY <4>1
      <4> QED
        BY <3>3, <4>2
    <3>5. Len(flying') = 0
      BY <2>1
    <3> QED
      BY <3>4, <3>5
  <2>3. /\ Len(stream') = Len(stream) + 1
        /\ \A i \in 1 .. Len(stream) : stream'[i] = stream[i]
        /\ stream'[Len(stream) + 1] = flying[1]
    <3>1. /\ Len(stream \o flying) = Len(stream) + Len(flying)
          /\ \A i \in 1 .. Len(stream) : (stream \o flying)[i] = stream[i]
          /\ \A i \in 1 .. Len(flying) : (stream \o flying)[Len(stream) + i] = flying[i]
      BY <1>0, ConcatIs
    <3>2. 1 \in 1 .. Len(flying)
      BY <2>2
    <3>3. (stream \o flying)[Len(stream) + 1] = flying[1]
      BY <3>1, <3>2
    <3> QED
      BY <2>1, <2>2, <3>1, <3>3
  <2>4. txNonce' = rxNonce' + Len(stream')
    BY <1>0, <2>1, <2>3 DEF Counted
  <2>5. CASE crowded
    BY <2>1, <2>2, <2>4, <2>5 DEF Counted
  <2>6. CASE ~crowded
    <3>1. Len(tasks) = 0 /\ sealed[flying[1]] = txNonce /\ txNonce = rxNonce + Len(stream)
      BY <1>0, <2>2, <2>6 DEF Counted
    <3>2. ASSUME NEW k \in 1 .. Len(stream') PROVE sealed[stream'[k]] = rxNonce + k - 1
      <4>1. CASE k = Len(stream) + 1
        BY <1>0, <2>3, <3>1, <4>1
      <4>2. CASE k # Len(stream) + 1
        <5>1. k \in 1 .. Len(stream)
          BY <1>0, <2>3, <4>2
        <5> QED
          BY <2>3, <2>6, <5>1 DEF Counted
      <4> QED
        BY <4>1, <4>2
    <3> QED
      BY <2>1, <2>2, <2>4, <2>6, <3>1, <3>2 DEF Counted
  <2> QED
    BY <2>5, <2>6
<1>5. CASE Verify \/ Refuse
  <2>1. /\ stream # <<>> /\ stream' = Tail(stream) /\ rxNonce' = rxNonce + 1
        /\ UNCHANGED <<tasks, flying, sealed, txNonce, crowded>>
    BY <1>5 DEF Verify, Refuse
  <2>2. /\ Len(stream) \in Nat \ {0} /\ Len(stream') = Len(stream) - 1 /\ stream[1] = Head(stream)
        /\ \A i \in 1 .. Len(stream) - 1 : stream'[i] = stream[i + 1]
    BY <1>0, <2>1, Split
  <2>3. txNonce' = rxNonce' + Len(stream')
    <3>1. txNonce = rxNonce + Len(stream)
      BY DEF Counted
    <3>2. PICK n, m : n = Len(stream) /\ m = Len(stream')
      OBVIOUS
    <3>3. n \in Nat /\ rxNonce \in Nat /\ m = n - 1 /\ txNonce = rxNonce + n
      BY <1>0, <2>2, <3>1, <3>2
    <3>4. txNonce' = txNonce /\ rxNonce' = rxNonce + 1
      BY <2>1
    <3>5. txNonce' = rxNonce' + m
      BY <3>3, <3>4
    <3> QED
      BY <3>2, <3>5
  <2>4. CASE crowded
    BY <2>1, <2>3, <2>4 DEF Counted
  <2>5. CASE ~crowded
    <3>1. sealed[Head(stream)] = rxNonce
      BY <1>0, <2>2, <2>5 DEF Counted
    <3>2. refusals' = refusals
      BY <1>5, <3>1 DEF Verify, Refuse
    <3>3. ASSUME NEW k \in 1 .. Len(stream') PROVE sealed[stream'[k]] = rxNonce' + k - 1
      <4>1. k + 1 \in 1 .. Len(stream) /\ stream'[k] = stream[k + 1]
        BY <2>2
      <4>2. sealed[stream[k + 1]] = rxNonce + (k + 1) - 1
        BY <2>5, <4>1 DEF Counted
      <4> QED
        BY <1>0, <2>1, <4>1, <4>2
    <3> QED
      BY <2>1, <2>3, <2>5, <3>2, <3>3 DEF Counted
  <2> QED
    BY <2>4, <2>5
<1>6. CASE SendRaises \/ ReceiveRaises
  <2>1. flying' = <<>> /\ Len(flying') = 0
        /\ UNCHANGED <<tasks, stream, sealed, txNonce, rxNonce, crowded, refusals>>
    BY <1>6 DEF SendRaises, ReceiveRaises
  <2> QED
    BY <1>0, <2>1 DEF Counted
<1>7. CASE ClientNext /\ ~TakeTask /\ ~Sent /\ ~Verify /\ ~Refuse /\ ~SendRaises
           /\ ~ReceiveRaises /\ \A c \in Callers : ~Request(c)
  BY <1>1, <1>7 DEF ClientNext, Resume, TimeOut, Close, Receive, Answer, GoAway
<1>8. CASE UNCHANGED clientVars
  BY <1>1, <1>8
<1> QED
  BY <1>2, <1>3, <1>4, <1>5, <1>6, <1>7, <1>8

-----------------------------------------------------------------------------
(* Turns.                                                                  *)

LEMMA Appended ==
    ASSUME NEW S, NEW a \in Seq(S), NEW e \in S
    PROVE  /\ Append(a, e) \in Seq(S) /\ Len(a) \in Nat /\ Len(Append(a, e)) = Len(a) + 1
           /\ \A i \in 1 .. Len(a) : Append(a, e)[i] = a[i]
           /\ Append(a, e)[Len(a) + 1] = e
  BY AppendProperties

LEMMA UpTo ==
    ASSUME NEW n \in Nat, NEW i \in 1 .. n + 1
    PROVE  i = n + 1 \/ i \in 1 .. n
  OBVIOUS

LEMMA TurnsRequest ==
    ASSUME PipeTypes, Turns, NEW c \in Callers, Request(c)
    PROVE  Turns'
<1> SUFFICES ASSUME ~expired', ~jumped' PROVE Turns'
  BY DEF Turns
<1>1. ~expired /\ ~jumped /\ input = <<>> /\ Queue(c)
  BY DEF Request
<1>2. /\ at[c] = "idle" /\ made' = made + 1 /\ call' = [call EXCEPT ![c] = made + 1]
      /\ getters' = Append(getters, c) /\ at' = [at EXCEPT ![c] = "receiving"]
      /\ UNCHANGED <<woken, input, returned>>
  BY <1>1 DEF Request, Queue
<1>3. /\ woken \in Seq(Callers) /\ getters \in Seq(Callers) /\ Len(woken) <= Len(input)
      /\ Len(returned) + Len(woken) + Len(getters) = made
      /\ \A j \in 1 .. Len(getters) :
           at[getters[j]] = "receiving" /\ call[getters[j]] = Len(returned) + Len(woken) + j
      /\ \A k \in 1 .. Len(returned) : returned[k][1] = k
  BY <1>1 DEF Turns
<1>4. /\ Len(woken) \in Nat /\ Len(getters) \in Nat /\ Len(returned) \in Nat
      /\ at \in [Callers -> {"idle", "receiving"}] /\ call \in [Callers -> 0 .. MaxCalls]
  BY <1>3, LenProperties DEF PipeTypes
<1>5. Len(woken) = 0
  <2>1. PICK n \in Nat : n = Len(woken)
    BY <1>4
  <2>2. n <= 0
    BY <1>1, <1>3, <2>1
  <2>3. n = 0
    BY <2>2
  <2> QED
    BY <2>1, <2>3
<1>6. /\ getters' \in Seq(Callers) /\ Len(getters') = Len(getters) + 1
      /\ \A j \in 1 .. Len(getters) : getters'[j] = getters[j]
      /\ getters'[Len(getters) + 1] = c
  BY <1>2, <1>3, Appended
<1>7. ASSUME NEW j \in 1 .. Len(getters')
      PROVE  /\ at'[getters'[j]] = "receiving"
             /\ call'[getters'[j]] = Len(returned) + Len(woken) + j
  <2>1. j = Len(getters) + 1 \/ j \in 1 .. Len(getters)
    BY <1>4, <1>6, UpTo
  <2>2. CASE j = Len(getters) + 1
    <3>1. getters'[j] = c
      BY <1>6, <2>2
    <3>2. at'[c] = "receiving" /\ call'[c] = made + 1
      BY <1>2, <1>4
    <3>3. made + 1 = Len(returned) + Len(woken) + j
      BY <1>3, <1>4, <2>2
    <3> QED
      BY <3>1, <3>2, <3>3
  <2>3. CASE j \in 1 .. Len(getters)
    <3>1. getters[j] \in Callers
      BY <1>3, <2>3, ElementOfSeq
    <3>2. at[getters[j]] = "receiving" /\ call[getters[j]] = Len(returned) + Len(woken) + j
      BY <1>3, <2>3
    <3>3. getters[j] # c
      BY <1>2, <3>2
    <3>4. getters'[j] = getters[j]
      BY <1>6, <2>3
    <3>5. at'[getters[j]] = at[getters[j]] /\ call'[getters[j]] = call[getters[j]]
      BY <1>2, <1>4, <3>1, <3>3
    <3> QED
      BY <3>2, <3>4, <3>5
  <2> QED
    BY <2>1, <2>2, <2>3
<1>8. Len(returned) + Len(woken) + Len(getters') = made'
  BY <1>2, <1>3, <1>4, <1>6
<1> QED
  BY <1>2, <1>3, <1>5, <1>6, <1>7, <1>8 DEF Turns

LEMMA TurnsResume ==
    ASSUME PipeTypes, Turns, NEW c \in Callers, Resume(c)
    PROVE  Turns'
<1> SUFFICES ASSUME ~expired', ~jumped' PROVE Turns'
  BY DEF Turns
<1>1. ~expired /\ ~jumped /\ woken # <<>> /\ Head(woken) = c /\ woken' = Tail(woken)
  BY DEF Resume
<1>2. /\ woken \in Seq(Callers) /\ getters \in Seq(Callers) /\ Len(woken) <= Len(input)
      /\ Len(returned) + Len(woken) + Len(getters) = made
      /\ \A j \in 1 .. Len(woken) :
           at[woken[j]] = "receiving" /\ call[woken[j]] = Len(returned) + j
      /\ \A j \in 1 .. Len(getters) :
           at[getters[j]] = "receiving" /\ call[getters[j]] = Len(returned) + Len(woken) + j
      /\ \A k \in 1 .. Len(returned) : returned[k][1] = k
  BY <1>1 DEF Turns
<1>3. /\ input \in Seq(Calls) /\ returned \in Seq((0 .. MaxCalls) \X Calls)
      /\ at \in [Callers -> {"idle", "receiving"}] /\ call \in [Callers -> 0 .. MaxCalls]
      /\ Len(getters) \in Nat /\ Len(returned) \in Nat /\ Len(input) \in Nat
  BY <1>2, LenProperties DEF PipeTypes
<1>4. /\ Len(woken) \in Nat \ {0} /\ Len(woken') = Len(woken) - 1 /\ woken[1] = c
      /\ \A i \in 1 .. Len(woken) - 1 : woken'[i] = woken[i + 1]
      /\ woken' \in Seq(Callers)
  BY <1>1, <1>2, Split
<1>5. input # <<>>
  <2>1. Len(input) # 0
    BY <1>2, <1>3, <1>4
  <2> QED
    BY <2>1
<1>6. /\ Return(c, call[c]) /\ UNCHANGED <<getters, made, call>>
  BY <1>5 DEF Resume
<1>7. /\ returned' = Append(returned, <<call[c], Head(input)>>) /\ input' = Tail(input)
      /\ at' = [at EXCEPT ![c] = "idle"]
  BY <1>6 DEF Return
<1>8. Len(input') = Len(input) - 1 /\ Head(input) \in Calls
  BY <1>3, <1>5, <1>7, Split
<1>9. call[c] = Len(returned) + 1 /\ call[c] \in 0 .. MaxCalls
  <2>1. 1 \in 1 .. Len(woken)
    BY <1>4
  <2>2. call[woken[1]] = Len(returned) + 1
    BY <1>2, <2>1
  <2> QED
    BY <1>3, <1>4, <2>2
<1>10. PICK e : e = <<call[c], Head(input)>>
  OBVIOUS
<1>11. e \in (0 .. MaxCalls) \X Calls /\ e[1] = Len(returned) + 1
  BY <1>8, <1>9, <1>10
<1>12. /\ Len(returned') = Len(returned) + 1
       /\ \A k \in 1 .. Len(returned) : returned'[k] = returned[k]
       /\ returned'[Len(returned) + 1] = e
  BY <1>3, <1>7, <1>10, <1>11, Appended
<1>13. ASSUME NEW k \in 1 .. Len(returned') PROVE returned'[k][1] = k
  <2>1. k = Len(returned) + 1 \/ k \in 1 .. Len(returned)
    BY <1>3, <1>12, UpTo
  <2>2. CASE k = Len(returned) + 1
    BY <1>11, <1>12, <2>2
  <2>3. CASE k \in 1 .. Len(returned)
    BY <1>2, <1>12, <2>3
  <2> QED
    BY <2>1, <2>2, <2>3
<1>14. ASSUME NEW d \in Callers, d # c PROVE at'[d] = at[d]
  BY <1>3, <1>7, <1>14
<1>15. ASSUME NEW j \in 1 .. Len(woken')
       PROVE  at'[woken'[j]] = "receiving" /\ call'[woken'[j]] = Len(returned') + j
  <2>1. j \in Nat \ {0} /\ j + 1 \in 1 .. Len(woken) /\ woken'[j] = woken[j + 1]
    BY <1>4
  <2>2. woken[j + 1] \in Callers
    BY <1>2, <2>1, ElementOfSeq
  <2>3. at[woken[j + 1]] = "receiving" /\ call[woken[j + 1]] = Len(returned) + (j + 1)
    BY <1>2, <2>1
  <2>4. Len(returned) + (j + 1) # Len(returned) + 1 /\ Len(returned) + (j + 1) = Len(returned') + j
    BY <1>3, <1>12, <2>1
  <2>5. woken[j + 1] # c
    BY <1>9, <2>3, <2>4
  <2> QED
    BY <1>6, <1>14, <2>1, <2>2, <2>3, <2>4, <2>5
<1>16. ASSUME NEW j \in 1 .. Len(getters)
       PROVE  /\ at'[getters[j]] = "receiving"
              /\ call'[getters[j]] = Len(returned') + Len(woken') + j
  <2>1. getters[j] \in Callers
    BY <1>2, ElementOfSeq
  <2>2. at[getters[j]] = "receiving" /\ call[getters[j]] = Len(returned) + Len(woken) + j
    BY <1>2
  <2>3. /\ Len(returned) + Len(woken) + j # Len(returned) + 1
        /\ Len(returned) + Len(woken) + j = Len(returned') + Len(woken') + j
    BY <1>3, <1>4, <1>12
  <2>4. getters[j] # c
    BY <1>9, <2>2, <2>3
  <2> QED
    BY <1>6, <1>14, <2>1, <2>2, <2>3, <2>4
<1>17. /\ Len(returned') + Len(woken') + Len(getters) = made
       /\ Len(woken') <= Len(input')
  BY <1>2, <1>3, <1>4, <1>8, <1>12
<1> QED
  BY <1>2, <1>4, <1>6, <1>13, <1>15, <1>16, <1>17 DEF Turns

LEMMA TurnsReceive ==
    ASSUME PipeTypes, Turns, Receive
    PROVE  Turns'
<1> SUFFICES ASSUME ~expired', ~jumped' PROVE Turns'
  BY DEF Turns
<1>1. /\ ~expired /\ ~jumped /\ UNCHANGED <<made, at, call, returned>> /\ WakeNext(woken)
      /\ answers # <<>> /\ input' = Append(input, Head(answers))
  BY DEF Receive
<1>2. /\ woken \in Seq(Callers) /\ getters \in Seq(Callers) /\ Len(woken) <= Len(input)
      /\ Len(returned) + Len(woken) + Len(getters) = made
      /\ \A j \in 1 .. Len(woken) :
           at[woken[j]] = "receiving" /\ call[woken[j]] = Len(returned) + j
      /\ \A j \in 1 .. Len(getters) :
           at[getters[j]] = "receiving" /\ call[getters[j]] = Len(returned) + Len(woken) + j
      /\ \A k \in 1 .. Len(returned) : returned[k][1] = k
  BY <1>1 DEF Turns
<1>3. /\ input \in Seq(Calls) /\ answers \in Seq(Calls)
      /\ Len(getters) \in Nat /\ Len(woken) \in Nat /\ Len(returned) \in Nat /\ Len(input) \in Nat
  BY <1>2, LenProperties DEF PipeTypes
<1>4. Head(answers) \in Calls
  BY <1>1, <1>3, Split
<1>5. Len(input') = Len(input) + 1
  BY <1>1, <1>3, <1>4, Appended
<1>6. CASE getters = <<>>
  <2>1. woken' = woken /\ getters' = getters
    BY <1>1, <1>6 DEF WakeNext
  <2>2. Len(woken) <= Len(input')
    BY <1>2, <1>3, <1>5
  <2> QED
    BY <1>1, <1>2, <2>1, <2>2 DEF Turns
<1>7. CASE getters # <<>>
  <2>1. woken' = Append(woken, Head(getters)) /\ getters' = Tail(getters)
    BY <1>1, <1>7 DEF WakeNext
  <2>2. /\ Len(getters) \in Nat \ {0} /\ Len(getters') = Len(getters) - 1
        /\ Head(getters) \in Callers /\ getters[1] = Head(getters) /\ getters' \in Seq(Callers)
        /\ \A i \in 1 .. Len(getters) - 1 : getters'[i] = getters[i + 1]
    BY <1>2, <1>7, <2>1, Split
  <2>3. /\ woken' \in Seq(Callers) /\ Len(woken') = Len(woken) + 1
        /\ \A i \in 1 .. Len(woken) : woken'[i] = woken[i]
        /\ woken'[Len(woken) + 1] = Head(getters)
    BY <1>2, <2>1, <2>2, Appended
  <2>4. ASSUME NEW j \in 1 .. Len(woken')
        PROVE  at[woken'[j]] = "receiving" /\ call[woken'[j]] = Len(returned) + j
    <3>1. j = Len(woken) + 1 \/ j \in 1 .. Len(woken)
      BY <1>3, <2>3, UpTo
    <3>2. CASE j = Len(woken) + 1
      <4>1. 1 \in 1 .. Len(getters)
        BY <2>2
      <4>2. at[getters[1]] = "receiving" /\ call[getters[1]] = Len(returned) + Len(woken) + 1
        BY <1>2, <4>1
      <4>3. Len(returned) + Len(woken) + 1 = Len(returned) + j
        BY <1>3, <3>2
      <4> QED
        BY <2>2, <2>3, <3>2, <4>2, <4>3
    <3>3. CASE j \in 1 .. Len(woken)
      BY <1>2, <2>3, <3>3
    <3> QED
      BY <3>1, <3>2, <3>3
  <2>5. ASSUME NEW j \in 1 .. Len(getters')
        PROVE  at[getters'[j]] = "receiving" /\ call[getters'[j]] = Len(returned) + Len(woken') + j
    <3>1. j \in Nat /\ j + 1 \in 1 .. Len(getters) /\ getters'[j] = getters[j + 1]
      BY <2>2
    <3>2. at[getters[j + 1]] = "receiving" /\ call[getters[j + 1]] = Len(returned) + Len(woken) + (j + 1)
      BY <1>2, <3>1
    <3>3. Len(returned) + Len(woken) + (j + 1) = Len(returned) + Len(woken') + j
      BY <1>3, <2>3, <3>1
    <3> QED
      BY <3>1, <3>2, <3>3
  <2>6. Len(returned) + Len(woken') + Len(getters') = made /\ Len(woken') <= Len(input')
    BY <1>2, <1>3, <1>5, <2>2, <2>3
  <2> QED
    BY <1>1, <1>2, <2>2, <2>3, <2>4, <2>5, <2>6 DEF Turns
<1> QED
  BY <1>6, <1>7

LEMMA TurnsStep ==
    ASSUME PipeTypes, Turns, [ClientNext]_clientVars
    PROVE  Turns'
<1> USE DEF callerVars, sendVars, serverVars, clientVars
<1>1. ASSUME UNCHANGED <<callerVars, input>> PROVE Turns'
  BY <1>1 DEF Turns
<1>2. ASSUME NEW c \in Callers, TimeOut(c) PROVE Turns'
  BY <1>2 DEF TimeOut, Turns
<1>3. CASE ClientNext /\ ~Receive /\ \A c \in Callers : ~Request(c) /\ ~Resume(c) /\ ~TimeOut(c)
  BY <1>1, <1>3 DEF ClientNext, Close, TakeTask, Sent, SendRaises, ReceiveRaises, Verify, Refuse,
                   Answer, GoAway
<1>4. CASE UNCHANGED clientVars
  BY <1>1, <1>4
<1> QED
  BY <1>2, <1>3, <1>4, TurnsRequest, TurnsResume, TurnsReceive

-----------------------------------------------------------------------------
(* All together.                                                           *)

ClientInv == PipeTypes /\ InOrder /\ Posted /\ Counted /\ Turns

LEMMA ClientStart == ClientInit => ClientInv
<1> SUFFICES ASSUME ClientInit PROVE ClientInv
  OBVIOUS
<1>1. PipeTypes
  <2>1. 0 \in 0 .. MaxCalls
    BY CallsAssumption
  <2>2. /\ at \in [Callers -> {"idle", "receiving"}] /\ sealed \in [Calls -> Nat]
        /\ call \in [Callers -> 0 .. MaxCalls]
    BY <2>1 DEF ClientInit
  <2>3. <<>> \in Seq(Calls) /\ <<>> \in Seq((0 .. MaxCalls) \X Calls)
    BY EmptySeq
  <2> QED
    BY <2>1, <2>2, <2>3 DEF ClientInit, PipeTypes
<1>2. /\ Taken = <<>> /\ input = <<>> /\ answers = <<>> /\ job = <<>> /\ stream = <<>>
      /\ flying = <<>> /\ tasks = <<>> /\ made = 0
  BY DEF ClientInit, Taken
<1>3. <<>> \o <<>> = <<>> /\ FirstN(0) = <<>> /\ Len(<<>>) = 0
  BY DEF FirstN
<1>4. Front = <<>>
  BY <1>2, <1>3 DEF Front, Handed
<1>5. Whole = <<>>
  BY <1>2, <1>3, <1>4 DEF Whole
<1>6. InOrder
  BY <1>5, <1>2, <1>3 DEF InOrder, ClientInit
<1>7. Posted
  BY <1>2 DEF Posted
<1>8. Counted
  BY <1>2 DEF Counted, ClientInit
<1>9. Turns
  BY DEF Turns, ClientInit
<1> QED
  BY <1>1, <1>6, <1>7, <1>8, <1>9 DEF ClientInv

LEMMA ClientStep == ClientInv /\ [ClientNext]_clientVars => ClientInv'
  BY PipeTypesStep, InOrderStep, PostedStep, CountedStep, TurnsStep DEF ClientInv

LEMMA ClientAlways == ClientSpec => []ClientInv
  BY ClientStart, ClientStep, PTL DEF ClientSpec

(* Whatever the callers do and however long they wait, nothing is lost,    *)
(* repeated or overtaken between send and receive while both ends run      *)
(* (client.py:251-355).                                                    *)
THEOREM OnePipeline == ClientSpec => []Pipeline
<1>1. ClientInv => Pipeline
  <2> SUFFICES ASSUME ClientInv, link = "up" PROVE Whole = FirstN(made)
    BY DEF Pipeline, Whole, Front, Handed, FirstN
  <2> QED
    BY DEF ClientInv, InOrder
<1> QED
  BY <1>1, ClientAlways, PTL

(* Any number of concurrent callers get their own replies until one gives  *)
(* up or comes while a reply is there for another (client.py:350-355).     *)
THEOREM OwnReplyInTurn == ClientSpec => []InTurn
<1>1. ClientInv => InTurn
  <2> SUFFICES ASSUME ClientInv, ~expired, ~jumped, NEW k \in 1 .. Len(returned)
               PROVE  returned[k][1] = returned[k][2]
    BY DEF InTurn, OwnReply
  <2>1. returned[k][1] = k
    BY DEF ClientInv, Turns
  <2>2. /\ Taken \in Seq(Calls) /\ Len(Taken) = Len(returned) /\ Taken[k] = returned[k][2]
    BY TakenIs DEF ClientInv
  <2>3. Handed = FirstN(Len(Handed)) /\ Len(Handed) \in Nat /\ input \in Seq(Calls)
    BY HandedInOrder, Parts, LenProperties DEF ClientInv, PipeTypes
  <2>4. Taken \o input = FirstN(Len(Handed))
    BY <2>3 DEF Handed
  <2>5. Taken = FirstN(Len(Taken))
    BY <2>2, <2>3, <2>4, FirstPart
  <2>6. Taken[k] = k
    BY <2>2, <2>5 DEF FirstN
  <2> QED
    BY <2>1, <2>2, <2>6
<1> QED
  BY <1>1, ClientAlways, PTL

(* A client whose packets are each sealed when no other waits to be sent   *)
(* is never refused (client.py:259 and 350, server.py:502).                *)
THEOREM NeverRefused == ClientSpec => []CountedAlike
<1>1. ClientInv => CountedAlike
  BY DEF ClientInv, Counted, CountedAlike
<1> QED
  BY <1>1, ClientAlways, PTL

-----------------------------------------------------------------------------
(* What the queue counts as unfinished.                                    *)

CountsInv ==
    /\ undone \in Nat
    /\ ~overlapped => made <= Len(returned) + 1
    /\ link = "up" /\ ~overlapped => undone = Len(tasks) + Len(flying)

(* All calls made are somewhere in the pipeline.                           *)
LEMMA AllThere ==
    ASSUME PipeTypes, InOrder, link # "dead"
    PROVE  made = Len(returned) + Len(input) + Len(answers) + Len(job) + Len(stream)
                    + Len(flying) + Len(tasks)
<1>1. /\ Taken \in Seq(Calls) /\ Len(Taken) = Len(returned)
      /\ input \in Seq(Calls) /\ answers \in Seq(Calls) /\ job \in Seq(Calls)
      /\ stream \in Seq(Calls) /\ flying \in Seq(Calls) /\ tasks \in Seq(Calls)
  BY TakenIs DEF PipeTypes
<1>2. Handed \in Seq(Calls) /\ Len(Handed) = Len(returned) + Len(input)
  <2>1. PICK t : t = Taken
    OBVIOUS
  <2>2. Handed = t \o input /\ t \in Seq(Calls) /\ Len(t) = Len(returned)
    BY <1>1, <2>1 DEF Handed
  <2>3. t \o input \in Seq(Calls) /\ Len(t \o input) = Len(t) + Len(input)
    BY <1>1, <2>2, ConcatProperties
  <2> QED
    BY <2>2, <2>3
<1>3. PICK x : x = Handed \o answers
  OBVIOUS
<1>4. x \in Seq(Calls) /\ Len(x) = Len(returned) + Len(input) + Len(answers)
  <2>1. x \in Seq(Calls) /\ Len(x) = Len(Handed) + Len(answers)
    BY <1>1, <1>2, <1>3, ConcatProperties
  <2> QED
    BY <1>2, <2>1
<1>5. PICK y : y = x \o job
  OBVIOUS
<1>6. y \in Seq(Calls) /\ Len(y) = Len(x) + Len(job)
  BY <1>1, <1>4, <1>5, ConcatProperties
<1>7. Front = y \o stream
  BY <1>3, <1>5 DEF Front
<1>8. Front \in Seq(Calls) /\ Len(Front) = Len(y) + Len(stream)
  BY <1>1, <1>6, <1>7, ConcatProperties
<1>9. PICK z : z = Front \o flying
  OBVIOUS
<1>10. z \in Seq(Calls) /\ Len(z) = Len(Front) + Len(flying)
  BY <1>1, <1>8, <1>9, ConcatProperties
<1>11. Len(Whole) = Len(z) + Len(tasks)
  BY <1>1, <1>9, <1>10, ConcatProperties DEF Whole
<1>12. Len(Whole) = made
  <2>1. made \in Nat /\ Len(FirstN(made)) = made
    BY CallsAssumption DEF FirstN, PipeTypes
  <2> QED
    BY <2>1 DEF InOrder
<1>13. /\ Len(returned) \in Nat /\ Len(input) \in Nat /\ Len(answers) \in Nat /\ Len(job) \in Nat
       /\ Len(stream) \in Nat /\ Len(flying) \in Nat /\ Len(tasks) \in Nat
  BY <1>1, LenProperties
<1> QED
  BY <1>4, <1>6, <1>8, <1>10, <1>11, <1>12, <1>13

LEMMA CountsStep ==
    ASSUME ClientInv, CountsInv, [ClientNext]_clientVars
    PROVE  CountsInv'
<1> USE DEF callerVars, sendVars, serverVars, clientVars
<1>1. PipeTypes /\ InOrder
  BY DEF ClientInv
<1>2. /\ made \in Nat /\ Len(returned) \in Nat /\ Len(input) \in Nat /\ Len(answers) \in Nat
      /\ Len(job) \in Nat /\ Len(stream) \in Nat /\ Len(flying) \in Nat /\ Len(tasks) \in Nat
  BY <1>1, CallsAssumption, LenProperties DEF PipeTypes
<1>3. link = "up" => made = Len(returned) + Len(input) + Len(answers) + Len(job) + Len(stream)
                            + Len(flying) + Len(tasks)
  BY <1>1, AllThere
<1>4. ASSUME UNCHANGED <<made, returned, tasks, undone, flying, overlapped>>, link' = "up" => link = "up"
      PROVE  CountsInv'
  BY <1>4 DEF CountsInv
<1>5. ASSUME link' = "dead", UNCHANGED <<made, returned, overlapped>>, undone' \in Nat
      PROVE  CountsInv'
  BY <1>5 DEF CountsInv
<1>6. ASSUME NEW c \in Callers, Request(c) PROVE CountsInv'
  <2>1. /\ undone' = undone + 1 /\ made' = made + 1 /\ flying' = flying /\ link' = link
        /\ tasks' = Append(tasks, made') /\ overlapped' = (overlapped \/ Len(returned) < made)
    BY <1>6 DEF Request, Seal
  <2>2. Len(returned') >= Len(returned) /\ Len(returned') \in Nat
    <3>1. CASE input = <<>>
      BY <1>2, <1>6, <3>1 DEF Request, Queue
    <3>2. CASE input # <<>>
      <4>1. returned' = Append(returned, <<made', Head(input)>>)
        BY <1>6, <3>2 DEF Request, Return
      <4>2. returned \in Seq((0 .. MaxCalls) \X Calls) /\ returned' \in Seq((0 .. MaxCalls) \X Calls)
        BY <1>1, <1>6, RequestTypes DEF PipeTypes
      <4>3. Len(returned') = Len(returned) + 1
        BY <4>1, <4>2, SMT
      <4> QED
        BY <1>2, <4>3
    <3> QED
      BY <3>1, <3>2
  <2>3. Len(tasks') = Len(tasks) + 1
    BY <1>1, <1>6, <2>1, RequestTypes, AppendProperties DEF PipeTypes
  <2>4. undone' \in Nat
    BY <2>1 DEF CountsInv
  <2>5. ASSUME ~overlapped' PROVE made' <= Len(returned') + 1
    <3>1. ~(Len(returned) < made)
      BY <2>1, <2>5, Zenon
    <3> QED
      BY <1>2, <2>1, <2>2, <3>1
  <2>6. ASSUME link' = "up", ~overlapped' PROVE undone' = Len(tasks') + Len(flying')
    <3>1. ~overlapped
      BY <2>1, <2>6, Zenon
    <3>2. undone = Len(tasks) + Len(flying)
      BY <2>1, <2>6, <3>1 DEF CountsInv
    <3> QED
      BY <1>2, <2>1, <2>3, <3>2
  <2> QED
    BY <2>4, <2>5, <2>6 DEF CountsInv
<1>7. ASSUME NEW c \in Callers, Resume(c) PROVE CountsInv'
  <2>1. UNCHANGED <<made, tasks, undone, flying, overlapped, link>>
    BY <1>7 DEF Resume
  <2>2. Len(returned') >= Len(returned) /\ Len(returned') \in Nat
    <3>1. CASE input = <<>>
      BY <1>2, <1>7, <3>1 DEF Resume, Queue
    <3>2. CASE input # <<>>
      <4>1. returned' = Append(returned, <<call[c], Head(input)>>)
        BY <1>7, <3>2 DEF Resume, Return
      <4>2. returned \in Seq((0 .. MaxCalls) \X Calls) /\ returned' \in Seq((0 .. MaxCalls) \X Calls)
        BY <1>1, <1>7, ResumeTypes DEF PipeTypes
      <4>3. Len(returned') = Len(returned) + 1
        BY <4>1, <4>2, SMT
      <4> QED
        BY <1>2, <4>3
    <3> QED
      BY <3>1, <3>2
  <2> QED
    BY <1>2, <2>1, <2>2 DEF CountsInv
<1>8. ASSUME TakeTask PROVE CountsInv'
  <2>1. /\ UNCHANGED <<made, returned, undone, overlapped, link>>
        /\ flying = <<>> /\ tasks # <<>> /\ flying' = <<Head(tasks)>> /\ tasks' = Tail(tasks)
    BY <1>8 DEF TakeTask
  <2>2. Len(tasks') + Len(flying') = Len(tasks) + Len(flying)
    BY <1>1, <2>1, Split DEF PipeTypes
  <2> QED
    BY <2>1, <2>2 DEF CountsInv
<1>9. ASSUME Sent PROVE CountsInv'
  <2>1. /\ UNCHANGED <<made, returned, tasks, overlapped>> /\ flying # <<>> /\ flying' = <<>>
        /\ IF undone = 0 THEN link' = "dead" /\ undone' = undone ELSE undone' = undone - 1 /\ link' = link
    BY <1>9 DEF Sent
  <2>2. Len(flying') = 0 /\ Len(flying) = 1
    <3>1. Len(flying) <= 1
      BY DEF ClientInv, Counted
    <3>2. Len(flying) # 0
      BY <1>1, <2>1, EmptySeq DEF PipeTypes
    <3>3. Len(flying) = 1
      <4>1. \A n \in Nat : n <= 1 /\ n # 0 => n = 1
        OBVIOUS
      <4> QED
        BY <1>2, <3>1, <3>2, <4>1
    <3>4. Len(flying') = 0
      BY <2>1
    <3> QED
      BY <3>3, <3>4
  <2>3. CASE undone = 0
    BY <1>5, <2>1, <2>3 DEF CountsInv
  <2>4. CASE undone # 0
    <3>1. undone' \in Nat /\ undone' = undone - 1
      BY <2>1, <2>4 DEF CountsInv
    <3>2. ASSUME link' = "up", ~overlapped' PROVE undone' = Len(tasks') + Len(flying')
      BY <1>2, <2>1, <2>2, <2>4, <3>1, <3>2 DEF CountsInv
    <3> QED
      BY <2>1, <3>1, <3>2 DEF CountsInv
  <2> QED
    BY <2>3, <2>4
<1>10. ASSUME Receive PROVE CountsInv'
  <2>1. UNCHANGED <<made, returned, tasks, flying, overlapped, link>> /\ link = "up" /\ answers # <<>>
    BY <1>10 DEF Receive
  <2>2. Acknowledge
    BY <1>10 DEF Receive
  <2>3. CASE undone' = undone
    BY <1>4, <2>1, <2>3
  <2>4. CASE tasks # <<>> /\ undone > 0 /\ undone' = undone - 1
    <3>1. Len(tasks) # 0 /\ Len(answers) # 0
      BY <1>1, <2>1, <2>4, EmptySeq DEF PipeTypes
    <3>2. overlapped
      BY <1>2, <1>3, <2>1, <3>1 DEF CountsInv
    <3> QED
      BY <2>1, <2>4, <3>2 DEF CountsInv
  <2> QED
    BY <2>2, <2>3, <2>4 DEF Acknowledge
<1>11. ASSUME SendRaises \/ ReceiveRaises PROVE CountsInv'
  BY <1>5, <1>11 DEF SendRaises, ReceiveRaises, CountsInv
<1>12. ASSUME \/ \E c \in Callers : TimeOut(c)
              \/ Close \/ Verify \/ Refuse \/ Answer \/ GoAway \/ UNCHANGED clientVars
       PROVE  CountsInv'
  BY <1>4, <1>12 DEF TimeOut, Close, Verify, Refuse, Answer, GoAway
<1> QED
  BY <1>6, <1>7, <1>8, <1>9, <1>10, <1>11, <1>12 DEF ClientNext

(* While calls do not overlap, the queue's count is right, and neither     *)
(* task_done raises nor an ACK finishes a packet that waits                *)
(* (client.py:261 and 303-305).                                            *)
THEOREM QueueCounts == ClientSpec => []Accounted
<1>1. ClientInit => CountsInv
  BY EmptySeq DEF ClientInit, CountsInv
<1>2. CountsInv => Accounted
  BY DEF CountsInv, Accounted
<1> QED
  BY <1>1, <1>2, CountsStep, ClientAlways, PTL DEF ClientSpec

=============================================================================
