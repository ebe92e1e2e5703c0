---------------------------- MODULE LoggerProofs ----------------------------
(***************************************************************************)
(* The safety of Logger for any set of goroutines, capacity of the channel *)
(* and number of messages and flushes.                                     *)
(*                                                                         *)
(* The one fact that ties the WaitGroup to the channel is WgInv: it counts *)
(* the goroutines on their way into the channel, the messages in it and    *)
(* the one taken out. So a Wait that returns has seen an empty channel.    *)
(***************************************************************************)
EXTENDS Logger, FiniteSetTheorems, SequenceTheorems, TLAPS

(* The goroutines that writeMsg has counted and that have not yet sent.    *)
Sending == {w \in Writers : pc[w] \in {"send", "sendFatal"}}

WgInv == wg = Cardinality(Sending) + Len(msgChan) + Len(held)

(* They have a message to send: writeMsg has looked at the bound.          *)
SendInv == \A w \in Sending : sent[w] < MaxMsgs

IInv == TypeOK /\ InOrder /\ WgInv /\ SendInv

-----------------------------------------------------------------------------
(* A message moves from the channel to the outputs without changing what   *)
(* has been logged.                                                        *)
LEMMA HandOver ==
    ASSUME NEW S, NEW s \in Seq(S), NEW c \in Seq(S), c # <<>>
    PROVE  /\ Head(c) \in S /\ Tail(c) \in Seq(S)
           /\ Len(Tail(c)) + 1 = Len(c)
           /\ s \o <<>> \o c = s \o <<Head(c)>> \o Tail(c)
<1>1. /\ Head(c) \in S /\ Tail(c) \in Seq(S)
      /\ Len(Tail(c)) = Len(c) - 1
      /\ \A i \in 1 .. Len(Tail(c)) : Tail(c)[i] = c[i + 1]
      BY HeadTailProperties
<1>2. Len(c) \in Nat /\ Len(c) > 0
      BY EmptySeq, LenProperties
<1>3. <<Head(c)>> \in Seq(S) /\ Len(<<Head(c)>>) = 1 /\ <<Head(c)>>[1] = Head(c)
      BY <1>1
<1>4. c = <<Head(c)>> \o Tail(c)
  <2>1. /\ <<Head(c)>> \o Tail(c) \in Seq(S)
        /\ Len(<<Head(c)>> \o Tail(c)) = 1 + Len(Tail(c))
        /\ \A i \in 1 .. 1 + Len(Tail(c)) :
             (<<Head(c)>> \o Tail(c))[i]
               = IF i <= 1 THEN <<Head(c)>>[i] ELSE Tail(c)[i - 1]
        BY <1>1, <1>3, ConcatProperties
  <2>2. \A i \in 1 .. Len(c) : c[i] = (<<Head(c)>> \o Tail(c))[i]
        BY <2>1, <1>1, <1>2, <1>3
  <2> QED
        BY <2>1, <2>2, <1>1, <1>2, SeqEqual
<1>5. s \o (<<Head(c)>> \o Tail(c)) = s \o <<Head(c)>> \o Tail(c)
      BY <1>1, <1>3, ConcatAssociative
<1> QED
      BY <1>1, <1>2, <1>4, <1>5, ConcatEmptySeq

LEMMA ConcatTypes ==
    ASSUME TypeOK
    PROVE  /\ held \in Seq(Message) /\ Len(held) \in Nat
           /\ Len(msgChan) \in Nat
           /\ Logged \in Seq(Message)
           /\ DOMAIN Logged = 1 .. Len(Logged) /\ Len(Logged) \in Nat
           /\ \A p \in DOMAIN Logged :
                Logged[p] \in Message /\ Logged[p].by \in Writers
<1>1. held \in Seq(Message) /\ msgChan \in Seq(Message) /\ written \in Seq(Message)
      BY EmptySeq DEF TypeOK
<1>2. Logged \in Seq(Message)
      BY <1>1, ConcatProperties DEF Logged
<1>3. \A p \in DOMAIN Logged : Logged[p] \in Message
      BY <1>2, ElementOfSeq, LenProperties
<1> QED
      BY <1>1, <1>2, <1>3, LenProperties DEF Message

(* The number of goroutines that send is finite, and changes by one when   *)
(* one of them begins or ends.                                             *)
LEMMA SendingCount ==
    ASSUME TypeOK, NEW w \in Writers
    PROVE  /\ Cardinality(Sending) \in Nat
           /\ w \notin Sending
              => Cardinality(Sending \cup {w}) = Cardinality(Sending) + 1
           /\ w \in Sending
              => Cardinality(Sending \ {w}) = Cardinality(Sending) - 1
<1>1. IsFiniteSet(Sending)
      BY LoggerAssumption, FS_Subset DEF Sending
<1> QED
      BY <1>1, FS_CardinalityType, FS_AddElement, FS_RemoveElement

-----------------------------------------------------------------------------
LEMMA InitHolds == Init => IInv
<1> SUFFICES ASSUME Init PROVE IInv
    OBVIOUS
<1>1. TypeOK
  <2>1. <<>> \in Seq(Message) /\ Len(<<>>) = 0
        BY EmptySeq
  <2>2. msgChanLen \in Nat /\ MaxMsgs \in Nat /\ MaxFlushes \in Nat
        BY LoggerAssumption
  <2>3. msgChan \in Seq(Message) /\ Len(msgChan) <= msgChanLen
        BY <2>1, <2>2 DEF Init
  <2>4. sent \in [Writers -> 0 .. MaxMsgs] /\ flushes \in 0 .. MaxFlushes
        BY <2>2 DEF Init
  <2>5. /\ pc \in [Writers -> {"idle", "send", "sendFatal", "panic", "signal", "Wait"}]
        /\ exited \in BOOLEAN
        BY DEF Init
  <2>6. written \in Seq(Message) /\ wg \in Nat
        BY <2>1 DEF Init
  <2> QED
        BY <2>3, <2>4, <2>5, <2>6 DEF Init, TypeOK
<1>2. Sending = {}
      BY DEF Init, Sending
<1>3. Logged = <<>>
      BY ConcatEmptySeq, EmptySeq DEF Init, Logged
<1>4. DOMAIN <<>> = {} /\ Len(<<>>) = 0
      OBVIOUS
<1>5. InOrder
      BY <1>3, <1>4 DEF InOrder, Init
<1>6. WgInv
      BY <1>2, <1>4, FS_EmptySet DEF WgInv, Init
<1> QED
      BY <1>1, <1>2, <1>5, <1>6 DEF IInv, SendInv

(* Every step but send leaves what has been logged as it is.               *)
LEMMA LoggedKept ==
    ASSUME TypeOK, [Next]_vars, ~ \E w \in Writers : send(w)
    PROVE  Logged' = Logged /\ sent' = sent
<1>1. CASE receive
  <2>1. /\ msgChan \in Seq(Message) /\ written \in Seq(Message)
        /\ msgChan # <<>> /\ held = <<>>
        BY <1>1 DEF TypeOK, receive
  <2>2. written \o <<>> \o msgChan = written \o <<Head(msgChan)>> \o Tail(msgChan)
        BY <2>1, HandOver
  <2> QED
        BY <1>1, <2>1, <2>2 DEF receive, Logged
<1>2. CASE writeToOutputs
  <2>1. held \in Seq(Message) /\ written \o held \in Seq(Message)
        BY ConcatTypes, ConcatProperties DEF TypeOK
  <2>2. (written \o held) \o <<>> = written \o held
        BY <2>1, ConcatEmptySeq
  <2> QED
        BY <1>2, <2>2 DEF writeToOutputs, Logged
<1>3. CASE flushOutputs
      BY <1>3 DEF flushOutputs, Logged
<1>4. ASSUME NEW w \in Writers,
             \/ writeMsg(w) \/ FatalPanics(w)
             \/ Flush(w) \/ signal(w) \/ Wait(w)
      PROVE  Logged' = Logged /\ sent' = sent
      BY <1>4 DEF writeMsg, FatalPanics, Flush, signal, Wait, Logged
<1>5. CASE UNCHANGED vars
      BY <1>5 DEF vars, Logged
<1> QED
      BY <1>1, <1>2, <1>3, <1>4, <1>5 DEF Next, Work

(* send logs the next message of its goroutine, after all others.          *)
LEMMA LoggedSent ==
    ASSUME TypeOK, SendInv, NEW w \in Writers, send(w)
    PROVE  LET m == [by |-> w, n |-> sent[w] + 1]
           IN  /\ m \in Message
               /\ Logged' \in Seq(Message)
               /\ DOMAIN Logged' = 1 .. Len(Logged) + 1
               /\ \A p \in 1 .. Len(Logged) : Logged'[p] = Logged[p]
               /\ Logged'[Len(Logged) + 1] = m
               /\ sent' = [sent EXCEPT ![w] = sent[w] + 1]
<1> DEFINE m == [by |-> w, n |-> sent[w] + 1]
<1>1. w \in Sending
      BY DEF send, At, Sending
<1>2. sent[w] \in 0 .. MaxMsgs /\ sent[w] < MaxMsgs
      BY <1>1 DEF TypeOK, SendInv
<1>3. m \in Message
      BY <1>2, LoggerAssumption DEF Message
<1>4. msgChan' = Append(msgChan, m) /\ held' = held /\ written' = written
      BY DEF send
<1>5. /\ held \in Seq(Message) /\ msgChan \in Seq(Message)
      /\ written \in Seq(Message) /\ written \o held \in Seq(Message)
      BY ConcatTypes, ConcatProperties DEF TypeOK
<1>6. <<m>> \in Seq(Message) /\ Append(msgChan, m) = msgChan \o <<m>>
      BY <1>3, <1>5, AppendIsConcat
<1>7. Logged' = Logged \o <<m>>
      BY <1>4, <1>5, <1>6, ConcatAssociative DEF Logged
<1>8. Logged \in Seq(Message) /\ Len(Logged) \in Nat
      BY ConcatTypes
<1>9. Logged' = Append(Logged, m)
      BY <1>3, <1>7, <1>8, AppendIsConcat
<1>10. /\ Logged' \in Seq(Message)
       /\ Len(Logged') = Len(Logged) + 1
       /\ \A p \in 1 .. Len(Logged) : Logged'[p] = Logged[p]
       /\ Logged'[Len(Logged) + 1] = m
       BY <1>3, <1>8, <1>9, AppendProperties
<1>11. DOMAIN Logged' = 1 .. Len(Logged) + 1
       BY <1>10, LenProperties
<1> QED
       BY <1>3, <1>10, <1>11 DEF send

LEMMA InOrderStep == IInv /\ [Next]_vars => InOrder'
<1> SUFFICES ASSUME IInv, [Next]_vars PROVE InOrder'
    OBVIOUS
<1> USE DEF IInv
<1>1. CASE ~ \E w \in Writers : send(w)
      BY <1>1, LoggedKept DEF InOrder
<1>2. ASSUME NEW w \in Writers, send(w) PROVE InOrder'
  <2> DEFINE m == [by |-> w, n |-> sent[w] + 1]
             L == Len(Logged)
  <2>1. /\ DOMAIN Logged' = 1 .. L + 1
        /\ \A p \in 1 .. L : Logged'[p] = Logged[p]
        /\ Logged'[L + 1] = m
        /\ sent' = [sent EXCEPT ![w] = sent[w] + 1]
        BY <1>2, LoggedSent
  <2>2. /\ DOMAIN Logged = 1 .. L /\ L \in Nat
        /\ \A p \in 1 .. L : Logged[p] \in Message
        BY ConcatTypes
  <2>3. \A v \in Writers : sent[v] \in Nat
        BY LoggerAssumption DEF TypeOK
  <2>4. /\ sent'[w] = sent[w] + 1
        /\ \A v \in Writers \ {w} : sent'[v] = sent[v]
        BY <2>1 DEF TypeOK
  <2>5. \A p \in 1 .. L : Logged[p].by \in Writers /\ Logged[p].n \in Nat
        BY <2>2 DEF Message
  <2>6. m.by = w /\ m.n = sent[w] + 1
        OBVIOUS
  <2> HIDE DEF m, L
  <2>7. ASSUME NEW v \in Writers, NEW i \in 1 .. sent'[v]
        PROVE  \E p \in 1 .. L + 1 : Logged'[p] = [by |-> v, n |-> i]
    <3>1. CASE i \in 1 .. sent[v]
      <4>1. [by |-> v, n |-> i] \in ToSet(Logged)
            BY <3>1 DEF InOrder
      <4>2. PICK p \in 1 .. L : Logged[p] = [by |-> v, n |-> i]
            BY <4>1, <2>2 DEF ToSet
      <4>3. p \in 1 .. L + 1 /\ Logged'[p] = Logged[p]
            BY <2>1, <2>2
      <4> QED
            BY <4>2, <4>3
    <3>2. CASE i \notin 1 .. sent[v]
      <4>1. v = w /\ i = sent[w] + 1
            BY <3>2, <2>3, <2>4
      <4> QED
            BY <4>1, <2>1, <2>2 DEF m
    <3> QED
          BY <3>1, <3>2
  <2>8. \A v \in Writers : \A i \in 1 .. sent'[v] :
          [by |-> v, n |-> i] \in ToSet(Logged')
        BY <2>7, <2>1 DEF ToSet
  <2>9. \A p \in 1 .. L + 1 : Logged'[p].n <= sent'[Logged'[p].by]
    <3> TAKE p \in 1 .. L + 1
    <3>1. CASE p \in 1 .. L
      <4>1. Logged[p].n <= sent[Logged[p].by]
            BY <3>1, <2>2 DEF InOrder
      <4>2. Logged[p].by \in Writers /\ Logged[p].n \in Nat
            BY <3>1, <2>5
      <4>3. sent[Logged[p].by] <= sent'[Logged[p].by]
            BY <4>2, <2>3, <2>4
      <4>4. /\ sent[Logged[p].by] \in Nat
            /\ sent'[Logged[p].by] \in Nat
            BY <4>2, <2>3, <2>4
      <4> QED
            BY <3>1, <4>1, <4>2, <4>3, <4>4, <2>1
    <3>2. CASE p = L + 1
          BY <3>2, <2>1, <2>3, <2>4, <2>6
    <3> QED
          BY <3>1, <3>2, <2>2
  <2>10. \A p, q \in 1 .. L + 1 :
           p < q /\ Logged'[p].by = Logged'[q].by => Logged'[p].n < Logged'[q].n
    <3> SUFFICES ASSUME NEW p \in 1 .. L + 1, NEW q \in 1 .. L + 1,
                        p < q, Logged'[p].by = Logged'[q].by
                 PROVE  Logged'[p].n < Logged'[q].n
        OBVIOUS
    <3>1. p \in 1 .. L /\ Logged'[p] = Logged[p]
          BY <2>1, <2>2
    <3>2. CASE q \in 1 .. L
          BY <3>1, <3>2, <2>1, <2>2 DEF InOrder
    <3>3. CASE q = L + 1
      <4>1. Logged[p].n <= sent[Logged[p].by]
            BY <3>1, <2>2 DEF InOrder
      <4>2. Logged[p].by = w
            BY <3>1, <3>3, <2>1, <2>6
      <4> QED
            BY <4>1, <4>2, <3>1, <3>3, <2>1, <2>3, <2>5, <2>6
    <3> QED
          BY <3>2, <3>3, <2>2
  <2> QED
        BY <2>1, <2>8, <2>9, <2>10 DEF InOrder
<1> QED
      BY <1>1, <1>2

(* The types, the WaitGroup and the bound, action by action.               *)
LEMMA CountStep ==
    IInv /\ [Next]_vars => TypeOK' /\ WgInv' /\ SendInv'
<1> SUFFICES ASSUME IInv, [Next]_vars
             PROVE  TypeOK' /\ WgInv' /\ SendInv'
    OBVIOUS
<1> USE DEF IInv
<1>1. /\ held \in Seq(Message) /\ Len(held) \in Nat /\ Len(msgChan) \in Nat
      /\ msgChan \in Seq(Message)
      BY ConcatTypes DEF TypeOK
<1>2. /\ Cardinality(Sending) \in Nat
      /\ wg = Cardinality(Sending) + Len(msgChan) + Len(held)
      BY SendingCount, LoggerAssumption, FS_Subset, FS_CardinalityType
         DEF WgInv, Sending
<1>3. Len(<<>>) = 0
      OBVIOUS
<1>4. ASSUME NEW w \in Writers, writeMsg(w)
      PROVE  TypeOK' /\ WgInv' /\ SendInv'
  <2>1. PICK label \in {"send", "sendFatal"} : pc' = [pc EXCEPT ![w] = label]
        BY <1>4 DEF writeMsg, Goto
  <2>2. Sending' = Sending \cup {w} /\ w \notin Sending
        BY <1>4, <2>1 DEF writeMsg, At, Sending, TypeOK
  <2>3. wg' = wg + 1 /\ Cardinality(Sending') = Cardinality(Sending) + 1
        BY <1>4, <2>2, SendingCount DEF writeMsg
  <2>4. TypeOK'
        BY <1>4, <2>1 DEF writeMsg, TypeOK
  <2>5. WgInv'
        BY <1>1, <1>2, <1>4, <2>3 DEF WgInv, writeMsg
  <2>6. SendInv'
        BY <1>4, <2>2 DEF SendInv, writeMsg
  <2> QED
        BY <2>4, <2>5, <2>6
<1>5. ASSUME NEW w \in Writers, send(w)
      PROVE  TypeOK' /\ WgInv' /\ SendInv'
  <2> DEFINE m == [by |-> w, n |-> sent[w] + 1]
  <2>1. Sending' = Sending \ {w} /\ w \in Sending
        BY <1>5 DEF send, At, Goto, Sending, TypeOK
  <2>2. Cardinality(Sending') = Cardinality(Sending) - 1
        BY <2>1, SendingCount
  <2>3. sent[w] \in 0 .. MaxMsgs /\ sent[w] < MaxMsgs
        BY <2>1 DEF SendInv, TypeOK
  <2>4. m \in Message /\ msgChan' = Append(msgChan, m)
        BY <1>5, LoggedSent DEF send
  <2>5. msgChan' \in Seq(Message) /\ Len(msgChan') = Len(msgChan) + 1
        BY <1>1, <2>4, AppendProperties
  <2>6. Len(msgChan') <= msgChanLen
        BY <1>1, <1>5, <2>5, LoggerAssumption DEF send
  <2>7. sent[w] + 1 \in 0 .. MaxMsgs
        BY <2>3, LoggerAssumption
  <2>8. sent' \in [Writers -> 0 .. MaxMsgs]
        BY <1>5, <2>7 DEF send, TypeOK
  <2>9. TypeOK'
        BY <1>5, <2>5, <2>6, <2>8 DEF send, Goto, TypeOK
  <2>10. WgInv'
        BY <1>1, <1>2, <1>5, <2>2, <2>5 DEF WgInv, send
  <2>11. SendInv'
        BY <1>5, <2>1 DEF SendInv, send, TypeOK
  <2> QED
        BY <2>9, <2>10, <2>11
<1>6. ASSUME NEW w \in Writers,
             \/ FatalPanics(w) \/ Flush(w) \/ signal(w) \/ Wait(w)
      PROVE  TypeOK' /\ WgInv' /\ SendInv'
  <2>1. /\ wg' = wg /\ msgChan' = msgChan /\ held' = held /\ sent' = sent
        /\ written' = written
        BY <1>6 DEF FatalPanics, Flush, signal, Wait
  <2>2. Sending' = Sending
        BY <1>6 DEF FatalPanics, Flush, signal, Wait, At, Goto, Sending, TypeOK
  <2>3. /\ pc' \in [Writers -> {"idle", "send", "sendFatal", "panic", "signal", "Wait"}]
        /\ worker' \in {"select", "flush", "returned"}
        BY <1>6 DEF FatalPanics, Flush, signal, Wait, Goto, TypeOK
  <2>4. flushes' \in 0 .. MaxFlushes
        BY <1>6, LoggerAssumption DEF FatalPanics, Flush, signal, Wait, TypeOK
  <2>5. exited' \in BOOLEAN
        BY <1>6 DEF FatalPanics, Flush, signal, Wait, TypeOK
  <2>6. TypeOK'
        BY <2>1, <2>3, <2>4, <2>5 DEF TypeOK
  <2> QED
        BY <2>1, <2>2, <2>6 DEF WgInv, SendInv
<1>7. CASE receive
  <2>1. msgChan # <<>> /\ held = <<>>
        BY <1>7 DEF receive
  <2>2. /\ Head(msgChan) \in Message /\ Tail(msgChan) \in Seq(Message)
        /\ Len(Tail(msgChan)) + 1 = Len(msgChan)
        BY <1>1, <2>1, HandOver
  <2>3. /\ held' = <<Head(msgChan)>> /\ Len(held') = 1
        /\ held' \in Seq(Message)
        BY <1>7, <2>2 DEF receive
  <2>4. msgChan' = Tail(msgChan) /\ Len(msgChan') \in Nat
        BY <1>7, <2>2, LenProperties DEF receive
  <2>5. Len(msgChan') <= msgChanLen
        BY <1>1, <2>2, <2>4, LoggerAssumption DEF TypeOK
  <2>6. TypeOK'
        BY <1>7, <2>2, <2>3, <2>4, <2>5 DEF TypeOK, receive
  <2>7. Sending' = Sending
        BY <1>7 DEF receive, Sending
  <2>8. WgInv'
        BY <1>1, <1>2, <1>3, <1>7, <2>1, <2>2, <2>3, <2>4, <2>7 DEF WgInv, receive
  <2> QED
        BY <1>7, <2>6, <2>7, <2>8 DEF SendInv, receive
<1>8. CASE writeToOutputs
  <2>1. Len(held) = 1
        BY <1>8 DEF writeToOutputs, TypeOK
  <2>2. wg' = wg - 1 /\ held' = <<>> /\ wg' \in Nat
        BY <1>1, <1>2, <1>8, <2>1 DEF writeToOutputs
  <2>3. written' \in Seq(Message)
        BY <1>1, <1>8, ConcatProperties DEF writeToOutputs, TypeOK
  <2>4. TypeOK'
        BY <1>8, <2>2, <2>3 DEF TypeOK, writeToOutputs
  <2>5. Sending' = Sending
        BY <1>8 DEF writeToOutputs, Sending
  <2>6. WgInv'
        BY <1>1, <1>2, <1>3, <1>8, <2>1, <2>2, <2>5 DEF WgInv, writeToOutputs
  <2> QED
        BY <1>8, <2>4, <2>5, <2>6 DEF SendInv, writeToOutputs
<1>9. CASE flushOutputs
      BY <1>9 DEF flushOutputs, TypeOK, WgInv, SendInv, Sending
<1>10. CASE UNCHANGED vars
      BY <1>10 DEF vars, TypeOK, WgInv, SendInv, Sending
<1> QED
      BY <1>4, <1>5, <1>6, <1>7, <1>8, <1>9, <1>10 DEF Next, Work

-----------------------------------------------------------------------------
(* The inductive invariant of the asynchronous logger holds in every       *)
(* state: types, order, the WaitGroup and the bound on messages.           *)
THEOREM IInvHolds == Spec => []IInv
<1>1. Init => IInv
      BY InitHolds
<1>2. IInv /\ [Next]_vars => IInv'
      BY InOrderStep, CountStep DEF IInv
<1> QED
      BY <1>1, <1>2, PTL DEF Spec

(* The channel is never over its capacity and the WaitGroup never goes     *)
(* negative, which in Go is a panic: wg.Done in startAsyncwrite and flush  *)
(* always finds the wg.Add of writeMsg.                                    *)
THEOREM TypeCorrect == Spec => []TypeOK
<1>1. IInv => TypeOK
      BY DEF IInv
<1> QED
      BY <1>1, IInvHolds, PTL

(* The channel loses, repeats and reorders no message of a goroutine,      *)
(* whichever of the two loops, startAsyncwrite or flush, takes it out.     *)
THEOREM InOrderHolds == Spec => []InOrder
<1>1. IInv => InOrder
      BY DEF IInv
<1> QED
      BY <1>1, IInvHolds, PTL

(* When wg.Wait returns in Flush, all that was logged is written.          *)
LEMMA WaitSeesEmpty ==
    ASSUME IInv, wg = 0
    PROVE  Logged = written
<1> USE DEF IInv
<1>1. /\ held \in Seq(Message) /\ Len(held) \in Nat /\ Len(msgChan) \in Nat
      /\ msgChan \in Seq(Message) /\ written \in Seq(Message)
      BY ConcatTypes DEF TypeOK
<1>2. Cardinality(Sending) \in Nat
      BY LoggerAssumption, FS_Subset, FS_CardinalityType DEF Sending
<1>3. Len(held) = 0 /\ Len(msgChan) = 0
      BY <1>1, <1>2 DEF WgInv
<1>4. held = <<>> /\ msgChan = <<>>
      BY <1>1, <1>3, EmptySeq
<1> QED
      BY <1>1, <1>4, ConcatEmptySeq DEF Logged

(* A Flush that returns has written every message that the call of Fatal,  *)
(* Info and so on of its caller had put into the channel.                  *)
THEOREM FlushWritesHolds == Spec => FlushWrites
<1>1. ASSUME IInv, [Next]_vars, NEW w \in Writers,
             pc[w] = "Wait", pc'[w] = "idle"
      PROVE  \A i \in 1 .. sent[w] : [by |-> w, n |-> i] \in ToSet(written')
  <2>1. Wait(w)
    <3>1. pc \in [Writers -> {"idle", "send", "sendFatal", "panic", "signal", "Wait"}]
          BY <1>1 DEF IInv, TypeOK
    <3>2. pc' # pc
          BY <1>1
    <3>3. ~ Work /\ ~ UNCHANGED vars
          BY <3>2 DEF Work, receive, writeToOutputs, flushOutputs, vars
    <3>4. PICK v \in Writers : \/ writeMsg(v) \/ send(v) \/ FatalPanics(v)
                               \/ Flush(v) \/ signal(v) \/ Wait(v)
          BY <1>1, <3>3 DEF Next
    <3>5. \E l : pc' = [pc EXCEPT ![v] = l]
          BY <3>2, <3>4 DEF writeMsg, send, FatalPanics, Flush, signal, Wait, Goto
    <3>6. v = w
          BY <1>1, <3>1, <3>5
    <3> QED
          BY <1>1, <3>4, <3>6 DEF writeMsg, send, FatalPanics, Flush, signal, At
  <2>2. Logged = written /\ written' = written
        BY <1>1, <2>1, WaitSeesEmpty DEF Wait
  <2> QED
        BY <1>1, <2>2 DEF IInv, InOrder
<1>2. IInv /\ [Next]_vars =>
        [\A w \in Writers :
           pc[w] = "Wait" /\ pc'[w] = "idle"
           => \A i \in 1 .. sent[w] :
                [by |-> w, n |-> i] \in ToSet(written')]_vars
      BY <1>1
<1> QED
      BY <1>2, IInvHolds, PTL DEF FlushWrites, Spec
=============================================================================
