-------------------------- MODULE RedisClientProofs --------------------------
(* Theorems of RedisClient, for every number of calls, messages, breaks.   *)
EXTENDS RedisClient, SequenceTheorems, TLAPS

(* Sequences as the client uses them.                                      *)
LEMMA AppendType ==
  ASSUME NEW S, NEW s \in Seq(S), NEW e \in S
  PROVE  Append(s, e) \in Seq(S)
BY AppendProperties

(* A command is under way only while there are calls left to make, and     *)
(* half a message is half of the latest.                                   *)
Underway ==
  /\ main \in {"locked", "connected", "sent"} => calls < MaxCalls
  /\ half # "none" => sent > 0

(* The control part of the type invariant, with Underway, is inductive.    *)
(* The equivalences about mutex_ are the mutual exclusion of the threads.  *)
LEMMA ControlStep ==
  ControlTypes /\ Underway /\ [Next]_vars => ControlTypes' /\ Underway'
<1> SUFFICES ASSUME ControlTypes, Underway, [Next]_vars PROVE ControlTypes' /\ Underway'
  OBVIOUS
<1> USE ClientAssumption DEF ControlTypes, Underway, mainVars, subVars, netVars
<1>1. CASE LockMain
  BY <1>1 DEF LockMain
<1>2. CASE EnsureConnected
  BY <1>2 DEF EnsureConnected, ReturnMain
<1>3. CASE Execute
  BY <1>3 DEF Execute
<1>4. CASE GetAnswer
  BY <1>4 DEF GetAnswer, ReturnMain
<1>5. CASE CommandFails
  BY <1>5 DEF CommandFails, ReturnMain
<1>6. CASE StopListener
  BY <1>6 DEF StopListener
<1>7. CASE JoinListener
  BY <1>7 DEF JoinListener
<1>8. CASE Loop
  BY <1>8 DEF Loop
<1>9. CASE LockListener
  BY <1>9 DEF LockListener
<1>10. CASE EnsureSubscribed
  BY <1>10 DEF EnsureSubscribed, Unlock
<1>11. CASE Confirm
  BY <1>11 DEF Confirm, Unlock, ReadAll, Drop
<1>12. CASE PollReady \/ PollTimesOut
  BY <1>12 DEF PollReady, PollTimesOut
<1>13. CASE GetReply
  BY <1>13 DEF GetReply, Unlock
<1>14. CASE GetReplyBlocks
  BY <1>14 DEF GetReplyBlocks
<1>15. CASE GetReplyFails
  BY <1>15 DEF GetReplyFails, Unlock, Drop
<1>16. CASE PublishInput
  BY <1>16 DEF PublishInput
<1>17. CASE SecondHalf
  BY <1>17 DEF SecondHalf
<1>18. CASE Break
  <2>1. /\ breaks < MaxBreaks /\ breaks' = breaks + 1 /\ up' = FALSE
        /\ UNCHANGED <<mutex_, main, answer, calls, log, succeeded, listener, socket,
                       reader, half, gRunning, sent, returned>>
    BY <1>18, Zenon DEF Break
  <2>2. ctx_' \in {"none", "open", "broken"} /\ subCtx_' \in {"none", "open", "broken"}
    BY <1>18 DEF Break
  <2>3. breaks' \in 0..MaxBreaks
    BY <2>1
  <2>4. up' \in BOOLEAN
    BY <2>1, Zenon
  <2>5. Underway'
    BY <2>1
  <2>6. calls' \in 0..MaxCalls /\ sent' \in 0..MaxMessages
    BY <2>1
  <2> QED BY <2>1, <2>2, <2>3, <2>4, <2>5, <2>6, ZenonT(30)
<1>19. CASE Recover
  BY <1>19 DEF Recover
<1>20. CASE UNCHANGED vars
  BY <1>20 DEF vars
<1> QED
  BY <1>1, <1>2, <1>3, <1>4, <1>5, <1>6, <1>7, <1>8, <1>9, <1>10, <1>11, <1>12,
     <1>13, <1>14, <1>15, <1>16, <1>17, <1>18, <1>19, <1>20
     DEF Next, Main, Listener, Terminated

(* What redisGetReply() hands over comes from the front of the reader and  *)
(* socket, and leaves sequences of messages.                               *)
LEMMA GetReplyType ==
  ASSUME DataTypes, GetReply
  PROVE  /\ socket' \in Seq(Messages) /\ reader' \in Seq(Messages)
         /\ returned' \in Seq(Messages)
         /\ UNCHANGED <<log, succeeded>>
<1> USE DEF DataTypes
<1>1. CASE reader # <<>>
  <2>1. Head(reader) \in Messages /\ Tail(reader) \in Seq(Messages)
    BY <1>1, HeadTailProperties
  <2>2. Append(returned, Head(reader)) \in Seq(Messages)
    BY <2>1, AppendType
  <2> QED BY <1>1, <2>1, <2>2 DEF GetReply, mainVars
<1>2. CASE reader = <<>>
  <2>1. socket # <<>>
    BY <1>2 DEF GetReply
  <2>2. Head(socket) \in Messages /\ Tail(socket) \in Seq(Messages)
    BY <2>1, HeadTailProperties
  <2>3. Append(returned, Head(socket)) \in Seq(Messages)
    BY <2>2, AppendType
  <2>4. <<>> \in Seq(Messages)
    BY EmptySeq
  <2> QED BY <1>2, <2>2, <2>3, <2>4 DEF GetReply, mainVars
<1> QED BY <1>1, <1>2

(* The data part needs the control part for the numbers it stores.         *)
LEMMA DataStep ==
  ControlTypes /\ Underway /\ DataTypes /\ [Next]_vars => DataTypes'
<1> SUFFICES ASSUME ControlTypes, Underway, DataTypes, [Next]_vars PROVE DataTypes'
  OBVIOUS
<1>a. <<>> \in Seq(Messages)
  BY EmptySeq
<1> USE DEF DataTypes, mainVars, subVars, netVars
<1>1. CASE LockMain
  BY <1>1 DEF LockMain
<1>b. main \in {"locked", "connected", "sent"} => calls + 1 \in 1..MaxCalls
  BY ClientAssumption DEF ControlTypes, Underway
<1>2. CASE EnsureConnected
  BY <1>2, <1>b DEF EnsureConnected, ReturnMain
<1>3. CASE Execute
  <2>1. Append(log, calls + 1) \in Seq(1..MaxCalls)
    BY <1>3, <1>b, AppendType DEF Execute
  <2> QED BY <1>3, <2>1 DEF Execute
<1>4. CASE GetAnswer
  BY <1>4, <1>b DEF GetAnswer, ReturnMain
<1>5. CASE CommandFails
  BY <1>5, <1>b DEF CommandFails, ReturnMain
<1>6. CASE StopListener
  BY <1>6 DEF StopListener
<1>7. CASE JoinListener
  BY <1>7 DEF JoinListener
<1>8. CASE Loop
  BY <1>8 DEF Loop
<1>9. CASE LockListener
  BY <1>9 DEF LockListener
<1>10. CASE EnsureSubscribed
  BY <1>10 DEF EnsureSubscribed
<1>11. CASE Confirm
  <2>1. reader \o socket \in Seq(Messages)
    BY ConcatProperties
  <2> QED BY <1>11, <1>a, <2>1 DEF Confirm, ReadAll, Drop
<1>12. CASE PollReady \/ PollTimesOut
  BY <1>12 DEF PollReady, PollTimesOut
<1>13. CASE GetReply
  BY <1>13, GetReplyType
<1>14. CASE GetReplyBlocks
  BY <1>14 DEF GetReplyBlocks
<1>15. CASE GetReplyFails
  BY <1>15, <1>a DEF GetReplyFails, Drop
<1>16. CASE PublishInput
  <2> sent < MaxMessages /\ sent' = sent + 1
    BY <1>16, Zenon DEF PublishInput
  <2>1. sent + 1 \in Messages
    BY ClientAssumption DEF Messages, ControlTypes
  <2>2. Append(socket, sent + 1) \in Seq(Messages)
    BY <2>1, AppendType
  <2>3. socket' = socket \/ socket' = Append(socket, sent')
    BY <1>16, Zenon DEF PublishInput
  <2>4. UNCHANGED <<log, succeeded, reader, returned>>
    BY <1>16, Zenon DEF PublishInput
  <2> QED BY <2>2, <2>3, <2>4
<1>17. CASE SecondHalf
  <2>1. sent \in Messages
    BY <1>17, ClientAssumption DEF SecondHalf, Messages, ControlTypes, Underway
  <2>2. Append(socket, sent) \in Seq(Messages)
    BY <2>1, AppendType
  <2> QED BY <1>17, <2>2 DEF SecondHalf
<1>18. CASE Break
  BY <1>18 DEF Break
<1>19. CASE Recover
  BY <1>19 DEF Recover
<1>20. CASE UNCHANGED vars
  BY <1>20 DEF vars
<1> QED
  BY <1>1, <1>2, <1>3, <1>4, <1>5, <1>6, <1>7, <1>8, <1>9, <1>10, <1>11, <1>12,
     <1>13, <1>14, <1>15, <1>16, <1>17, <1>18, <1>19, <1>20
     DEF Next, Main, Listener, Terminated

(* RedisClient: every variable keeps its type, and the mutex is held by at *)
(* most one thread, the one inside a guarded section.                      *)
THEOREM TypeCorrect == Spec => [](TypeOK /\ Underway)
<1>1. Init => TypeOK /\ Underway
  <2>1. Init => ControlTypes /\ Underway
    BY ClientAssumption DEF Init, ControlTypes, Underway
  <2>2. Init => DataTypes
    BY EmptySeq DEF Init, DataTypes
  <2> QED BY <2>1, <2>2 DEF TypeOK
<1>2. TypeOK /\ Underway /\ [Next]_vars => (TypeOK /\ Underway)'
  BY ControlStep, DataStep DEF TypeOK
<1> QED BY <1>1, <1>2, PTL DEF Spec

-----------------------------------------------------------------------------
(* Commands.                                                               *)

(* What appending to the log adds to it.                                   *)
LEMMA AmongAppend ==
  ASSUME NEW s \in Seq(1..MaxCalls), NEW e \in 1..MaxCalls
  PROVE  Among(Append(s, e)) = Among(s) \cup {e}
<1>1. /\ Len(Append(s, e)) = Len(s) + 1 /\ Append(s, e)[Len(s) + 1] = e
      /\ \A i \in 1..Len(s) : Append(s, e)[i] = s[i]
      /\ Append(s, e) \in Seq(1..MaxCalls)
  BY AppendProperties
<1>2. DOMAIN s = 1..Len(s) /\ DOMAIN Append(s, e) = 1..(Len(s) + 1) /\ Len(s) \in Nat
  BY <1>1, LenProperties
<1> QED BY <1>1, <1>2 DEF Among

(* What has been executed: commands that have returned, and the one under  *)
(* way once Redis has answered "ok".  A connection fails only in a break.  *)
Executed ==
  /\ \A n \in Among(log) : n <= calls \/ (n = calls + 1 /\ main = "sent" /\ answer = "ok")
  /\ (main = "sent" /\ answer = "ok") => calls + 1 \in Among(log)
  /\ succeeded \subseteq 1..calls
  /\ ctx_ = "broken" => breaks > 0

(* The steps of the listener and of the network leave commands alone.      *)
LEMMA OthersSteps ==
  ASSUME Listener \/ LockListener \/ PublishInput \/ SecondHalf \/ Recover \/ UNCHANGED vars
  PROVE  UNCHANGED <<mainVars, breaks>>
<1>1. CASE Listener
  BY <1>1, Zenon DEF Listener, Loop, EnsureSubscribed, Confirm, PollReady, PollTimesOut,
                     GetReply, GetReplyBlocks, GetReplyFails, netVars
<1>2. CASE LockListener \/ PublishInput \/ SecondHalf \/ Recover \/ UNCHANGED vars
  BY <1>2, Zenon DEF LockListener, PublishInput, SecondHalf, Recover, netVars, vars
<1> QED BY <1>1, <1>2

(* Every step keeps the log and the answers given in agreement.            *)
LEMMA ExecutedStep ==
  ASSUME TypeOK, Underway, Executed, TrueMeansExecuted, [Next]_vars
  PROVE  Executed' /\ TrueMeansExecuted'
<1> USE DEF Executed, TrueMeansExecuted
<1>a. calls \in Nat /\ log \in Seq(1..MaxCalls)
  BY DEF TypeOK, ControlTypes, DataTypes
<1>b. \A n \in Among(log) : n \in Nat
  BY <1>a, ClientAssumption DEF Among
<1>1. CASE LockMain
  BY <1>1, <1>a DEF LockMain, netVars, Among
<1>2. CASE EnsureConnected
  <2>1. UNCHANGED <<log, breaks>> /\ main = "locked"
    BY <1>2, Zenon DEF EnsureConnected, netVars
  <2>2. CASE ReturnMain(FALSE) /\ UNCHANGED ctx_
    <3>1. Among(log)' = Among(log) /\ \A n \in Among(log) : n <= calls
      BY <2>1 DEF Among
    <3>2. main' = "free" /\ calls' = calls + 1 /\ succeeded' = succeeded /\ ctx_' = ctx_
      BY <2>2, Zenon DEF ReturnMain
    <3> QED BY <1>a, <1>b, <2>1, <3>1, <3>2
  <2>3. CASE main' = "connected" /\ UNCHANGED <<calls, answer, succeeded>>
    <3>1. ctx_' = ctx_ \/ ctx_' = "open"
      BY <1>2, Zenon DEF EnsureConnected
    <3> QED BY <1>a, <2>1, <2>3, <3>1 DEF Among
  <2> QED BY <1>2, <2>2, <2>3, Zenon DEF EnsureConnected
<1>3. CASE Execute
  <2>1. calls + 1 \in 1..MaxCalls
    BY <1>3, ClientAssumption DEF Execute, Underway, TypeOK, ControlTypes
  <2>2. Among(Append(log, calls + 1)) = Among(log) \cup {calls + 1}
    BY <1>a, <2>1, AmongAppend
  <2>3. /\ main = "connected" /\ main' = "sent"
        /\ UNCHANGED <<ctx_, calls, succeeded, breaks>>
    BY <1>3, Zenon DEF Execute, netVars
  <2>4. CASE answer' = "ok" /\ log' = Append(log, calls + 1)
    <3>1. Among(log)' = Among(log) \cup {calls + 1}
      BY <2>2, <2>4 DEF Among
    <3> QED BY <1>a, <2>3, <2>4, <3>1
  <2>5. CASE answer' = "error" /\ log' = log
    <3>1. Among(log)' = Among(log)
      BY <2>5 DEF Among
    <3> QED BY <1>a, <2>3, <2>5, <3>1
  <2> QED BY <1>3, <2>4, <2>5 DEF Execute
<1>4. CASE GetAnswer
  <2>1. Among(log)' = Among(log)
    BY <1>4 DEF GetAnswer, Among
  <2>2. UNCHANGED <<ctx_, breaks>>
    BY <1>4, Zenon DEF GetAnswer, netVars
  <2>3. /\ main = "sent" /\ main' = "free" /\ calls' = calls + 1
        /\ succeeded' = IF answer = "ok" THEN succeeded \cup {calls + 1} ELSE succeeded
    BY <1>4, Zenon DEF GetAnswer, ReturnMain
  <2> QED BY <1>a, <2>1, <2>2, <2>3
<1>5. CASE CommandFails
  <2>1. Among(log)' = Among(log)
    BY <1>5 DEF CommandFails, Among
  <2>2. /\ ctx_ = "broken" /\ ctx_' = "none" /\ UNCHANGED <<breaks, succeeded>>
        /\ main' = "free" /\ calls' = calls + 1
    BY <1>5, Zenon DEF CommandFails, ReturnMain, netVars
  <2>3. breaks > 0 /\ breaks \in Nat
    BY <2>2 DEF TypeOK, ControlTypes
  <2> QED BY <1>a, <2>1, <2>2, <2>3
<1>6. CASE StopListener \/ JoinListener
  <2>1. UNCHANGED <<ctx_, answer, calls, log, succeeded, breaks>>
    BY <1>6, Zenon DEF StopListener, JoinListener, netVars
  <2>2. main # "sent" /\ main' # "sent"
    BY <1>6 DEF StopListener, JoinListener
  <2> QED BY <2>1, <2>2 DEF Among
<1>7. CASE Break
  <2>1. /\ UNCHANGED <<main, answer, calls, log, succeeded>> /\ breaks' = breaks + 1
    BY <1>7, Zenon DEF Break
  <2>2. breaks \in Nat
    BY DEF TypeOK, ControlTypes
  <2>3. breaks' > 0 /\ breaks' # 0
    BY <2>1, <2>2
  <2> QED BY <2>1, <2>3 DEF Among
<1>8. CASE Listener \/ LockListener \/ PublishInput \/ SecondHalf \/ Recover \/ UNCHANGED vars
  <2>1. UNCHANGED <<mainVars, breaks>>
    BY <1>8, OthersSteps
  <2> QED BY <2>1 DEF mainVars, Among
<1> QED
  BY <1>1, <1>2, <1>3, <1>4, <1>5, <1>6, <1>7, <1>8, Zenon DEF Next, Main, Terminated

(* publish() and hset() never say that a command was executed when it was  *)
(* not; without a break they always say when it was.                       *)
THEOREM TrueIsExecuted == Spec => []TrueMeansExecuted
<1>1. Init => Executed /\ TrueMeansExecuted
  BY DEF Init, Executed, TrueMeansExecuted, Among
<1>2. TypeOK /\ Underway /\ Executed /\ TrueMeansExecuted /\ [Next]_vars
        => (Executed /\ TrueMeansExecuted)'
  BY ExecutedStep
<1> QED BY <1>1, <1>2, TypeCorrect, PTL DEF Spec

-----------------------------------------------------------------------------
(* Messages.                                                               *)

(* The messages of the subscription, from the first one handed over to the *)
(* last one received whole, and the number of the latest whole message.    *)
Got == returned \o reader \o socket
Whole == IF half = "none" THEN sent ELSE sent - 1

(* Taking the first of d and appending it to r changes neither as a whole. *)
LEMMA MoveHead ==
  ASSUME NEW r \in Seq(Messages), NEW d \in Seq(Messages), d # <<>>
  PROVE  /\ Append(r, Head(d)) \o Tail(d) = r \o d
         /\ (r \o d)[Len(r) + 1] = Head(d) /\ Len(r) + 1 <= Len(r \o d)
<1>1. /\ Head(d) \in Messages /\ Tail(d) \in Seq(Messages)
      /\ Len(Tail(d)) = Len(d) - 1 /\ Len(d) \in Nat \ {0} /\ Len(r) \in Nat
      /\ \A i \in 1..Len(Tail(d)) : Tail(d)[i] = d[i + 1]
      /\ Head(d) = d[1]
  BY HeadTailProperties, EmptySeq, LenProperties
<1> DEFINE a == Append(r, Head(d))
<1>2. /\ a \in Seq(Messages) /\ Len(a) = Len(r) + 1 /\ a[Len(r) + 1] = Head(d)
      /\ \A i \in 1..Len(r) : a[i] = r[i]
  BY <1>1, AppendProperties
<1> HIDE DEF a
<1>3. /\ a \o Tail(d) \in Seq(Messages) /\ Len(a \o Tail(d)) = Len(a) + Len(Tail(d))
      /\ \A i \in 1..(Len(a) + Len(Tail(d))) :
           (a \o Tail(d))[i] = IF i <= Len(a) THEN a[i] ELSE Tail(d)[i - Len(a)]
  BY <1>1, <1>2, ConcatProperties
<1>4. /\ r \o d \in Seq(Messages) /\ Len(r \o d) = Len(r) + Len(d)
      /\ \A i \in 1..(Len(r) + Len(d)) :
           (r \o d)[i] = IF i <= Len(r) THEN r[i] ELSE d[i - Len(r)]
  BY ConcatProperties
<1>5. Len(a \o Tail(d)) = Len(r \o d)
  BY <1>1, <1>2, <1>3, <1>4
<1>6. ASSUME NEW i \in 1..Len(a \o Tail(d)) PROVE (a \o Tail(d))[i] = (r \o d)[i]
  <2>1. CASE i <= Len(r)
    BY <1>1, <1>2, <1>3, <1>4, <1>5, <2>1
  <2>2. CASE i = Len(r) + 1
    BY <1>1, <1>2, <1>3, <1>4, <1>5, <2>2
  <2>3. CASE i > Len(r) + 1
    <3>1. i - Len(a) \in 1..Len(Tail(d)) /\ (i - Len(a)) + 1 = i - Len(r)
      BY <1>1, <1>2, <1>3, <2>3
    <3>2. (a \o Tail(d))[i] = Tail(d)[i - Len(a)]
      BY <1>1, <1>2, <1>3, <2>3
    <3>3. (r \o d)[i] = d[i - Len(r)]
      BY <1>1, <1>2, <1>3, <1>4, <2>3
    <3> QED BY <1>1, <3>1, <3>2, <3>3
  <2> QED BY <1>1, <1>2, <1>3, <2>1, <2>2, <2>3
<1>7. a \o Tail(d) = r \o d
  BY <1>3, <1>4, <1>5, <1>6, SeqEqual
<1>8. (r \o d)[Len(r) + 1] = Head(d)
  BY <1>1, <1>4
<1> QED BY <1>1, <1>4, <1>7, <1>8 DEF a

(* redisGetReply() takes the next of the messages and leaves them as they  *)
(* are, whether it serves the reader or the socket.                        *)
LEMMA GetReplyMoves ==
  ASSUME DataTypes, GetReply
  PROVE  /\ Got' = Got
         /\ Len(returned) + 1 \in 1..Len(Got)
         /\ returned' = Append(returned, Got[Len(returned) + 1])
<1> USE DEF DataTypes
<1>1. CASE reader # <<>>
  <2>1. /\ returned' = Append(returned, Head(reader)) /\ reader' = Tail(reader)
        /\ socket' = socket
    BY <1>1 DEF GetReply
  <2>2. returned' \o reader' = returned \o reader
    BY <1>1, <2>1, MoveHead
  <2>3. /\ (returned \o reader)[Len(returned) + 1] = Head(reader)
        /\ Len(returned) + 1 <= Len(returned \o reader)
    BY <1>1, MoveHead
  <2>4. /\ returned \o reader \in Seq(Messages) /\ Len(returned) \in Nat
        /\ Len(returned \o reader) \in Nat
    BY ConcatProperties, LenProperties
  <2>5. /\ Len(Got) = Len(returned \o reader) + Len(socket) /\ Len(socket) \in Nat
        /\ \A i \in 1..Len(returned \o reader) : Got[i] = (returned \o reader)[i]
    BY <2>4, ConcatProperties, LenProperties DEF Got
  <2>6. Len(returned) + 1 \in 1..Len(Got) /\ Got[Len(returned) + 1] = Head(reader)
    BY <2>3, <2>4, <2>5
  <2> QED BY <2>1, <2>2, <2>6 DEF Got
<1>2. CASE reader = <<>>
  <2>1. socket # <<>>
    BY <1>2 DEF GetReply
  <2>2. /\ returned' = Append(returned, Head(socket)) /\ reader' = Tail(socket)
        /\ socket' = <<>>
    BY <1>2 DEF GetReply
  <2>3. returned' \o reader' = returned \o socket
    BY <2>1, <2>2, MoveHead
  <2>4. returned \o socket \in Seq(Messages) /\ Len(returned) \in Nat
        /\ Len(returned \o socket) \in Nat
    BY ConcatProperties, LenProperties
  <2>5. Got = returned \o socket
    BY <1>2, ConcatEmptySeq DEF Got
  <2>6. Got' = returned \o socket
    BY <2>2, <2>3, <2>4, ConcatEmptySeq DEF Got
  <2>7. /\ (returned \o socket)[Len(returned) + 1] = Head(socket)
        /\ Len(returned) + 1 <= Len(returned \o socket)
    BY <2>1, MoveHead
  <2>8. Got' = Got /\ Got[Len(returned) + 1] = Head(socket)
    BY <2>5, <2>6, <2>7, Zenon
  <2>9. Len(returned) + 1 \in 1..Len(Got)
    BY <2>4, <2>5, <2>7
  <2> QED BY <2>2, <2>8, <2>9, Zenon
<1> QED BY <1>1, <1>2

(* Reading more of the socket into the reader moves messages as well.      *)
LEMMA ReadAllMoves ==
  ASSUME DataTypes, ReadAll, UNCHANGED <<returned, sent>>
  PROVE  Got' = Got /\ Whole' = Whole
<1>1. Got' = (returned \o (reader \o socket)) \o <<>>
  BY DEF ReadAll, Got
<1>2. returned \o (reader \o socket) = Got
  BY ConcatAssociative DEF DataTypes, Got
<1>3. Got \in Seq(Messages)
  BY ConcatProperties DEF DataTypes, Got
<1>4. Got \o <<>> = Got
  BY <1>3, ConcatEmptySeq
<1> QED BY <1>1, <1>2, <1>4 DEF ReadAll, Whole

(* A message is received: it is the one after the latest whole message.    *)
LEMMA ReceiveAppends ==
  ASSUME DataTypes, NEW m \in Messages, socket' = Append(socket, m),
         UNCHANGED <<returned, reader>>
  PROVE  Got' = Append(Got, m)
<1>1. /\ returned \o reader \in Seq(Messages) /\ Got \in Seq(Messages)
      /\ <<m>> \in Seq(Messages)
  BY ConcatProperties DEF DataTypes, Got
<1>2. Append(socket, m) = socket \o <<m>> /\ Append(Got, m) = Got \o <<m>>
  BY <1>1, AppendIsConcat DEF DataTypes
<1>3. (returned \o reader) \o (socket \o <<m>>) = Got \o <<m>>
  BY <1>1, ConcatAssociative DEF DataTypes, Got
<1> QED BY <1>2, <1>3 DEF Got

(* What a step may do to the messages: nothing, receive the next one, let  *)
(* one pass while there is no subscription, or drop a broken one with what *)
(* it had received.                                                        *)
Same == Got' = Got /\ Whole' = Whole
Receives == Got' = Append(Got, Whole + 1) /\ Whole' = Whole + 1 /\ subCtx_ = "open"
Passes == Got' = Got /\ Whole' = Whole + 1 /\ subCtx_ # "open"
Drops == Got' = returned /\ Whole' \in {Whole, Whole + 1} /\ subCtx_ = "broken"

(* Every step does one of the four.                                        *)
LEMMA MessageSteps ==
  ASSUME TypeOK, Underway, [Next]_vars
  PROVE  Same \/ Receives \/ Passes \/ Drops
<1>a. DataTypes /\ sent \in Nat /\ half \in {"none", "socket", "reader"}
  BY DEF TypeOK, ControlTypes
<1>b. UNCHANGED <<returned, reader, socket, half, sent>> => Same
  BY DEF Same, Got, Whole
<1>c. Drop /\ UNCHANGED <<returned, sent>> /\ subCtx_ = "broken" => Drops
  <2> SUFFICES ASSUME Drop, UNCHANGED <<returned, sent>>, subCtx_ = "broken" PROVE Drops
    OBVIOUS
  <2>1. Got' = returned
    BY <1>a, ConcatEmptySeq DEF Drop, Got, DataTypes
  <2> QED BY <1>a, <2>1 DEF Drop, Whole, Drops
<1>1. CASE LockMain \/ Main \/ StopListener \/ LockListener \/ Break \/ Recover \/ UNCHANGED vars
  <2>1. CASE LockMain \/ StopListener \/ LockListener \/ Break \/ Recover \/ UNCHANGED vars
    BY <1>b, <2>1, Zenon DEF LockMain, StopListener, LockListener, Break, Recover, vars,
                             subVars, netVars
  <2>2. CASE Main
    BY <1>b, <2>2, Zenon DEF Main, EnsureConnected, Execute, GetAnswer, CommandFails,
                             JoinListener, subVars, netVars
  <2> QED BY <1>1, <2>1, <2>2
<1>2. CASE Loop \/ EnsureSubscribed \/ PollReady \/ PollTimesOut
  BY <1>b, <1>2, Zenon DEF Loop, EnsureSubscribed, PollReady, PollTimesOut, subVars, netVars
<1>3. CASE Confirm
  <2>1. UNCHANGED <<returned, sent>>
    BY <1>3, Zenon DEF Confirm, netVars
  <2>2. CASE ReadAll
    BY <1>a, <2>1, <2>2, ReadAllMoves DEF Same
  <2>3. CASE Drop /\ subCtx_ = "broken"
    BY <1>c, <2>1, <2>3
  <2> QED BY <1>3, <2>2, <2>3, Zenon DEF Confirm
<1>4. CASE GetReply
  <2>1. Got' = Got
    BY <1>a, <1>4, GetReplyMoves
  <2>2. sent' = sent /\ (half' = "none" <=> half = "none")
    BY <1>4 DEF GetReply, netVars
  <2> QED BY <2>1, <2>2 DEF Same, Whole
<1>5. CASE GetReplyBlocks
  BY <1>5 DEF GetReplyBlocks, netVars, Same, Got, Whole
<1>6. CASE GetReplyFails
  BY <1>6, <1>c, Zenon DEF GetReplyFails, netVars
<1>7. CASE PublishInput
  <2>1. /\ half = "none" /\ sent < MaxMessages /\ sent' = sent + 1
        /\ UNCHANGED <<reader, returned>>
    BY <1>7, Zenon DEF PublishInput
  <2>2. sent' \in Messages
    BY <1>a, <2>1, ClientAssumption DEF Messages
  <2>3. CASE subCtx_ = "open" /\ socket' = Append(socket, sent') /\ half' = half
    BY <1>a, <2>1, <2>2, <2>3, ReceiveAppends DEF Receives, Whole
  <2>4. CASE half' = "socket" /\ socket' = socket
    BY <1>a, <2>1, <2>4 DEF Same, Got, Whole
  <2>5. CASE subCtx_ # "open" /\ UNCHANGED <<socket, half>>
    BY <1>a, <2>1, <2>5 DEF Passes, Got, Whole
  <2> QED BY <1>7, <2>3, <2>4, <2>5, Zenon DEF PublishInput
<1>8. CASE SecondHalf
  <2>1. /\ half # "none" /\ half' = "none" /\ sent' = sent /\ subCtx_ = "open"
        /\ socket' = Append(socket, sent) /\ UNCHANGED <<reader, returned>>
    BY <1>8 DEF SecondHalf, netVars
  <2>2. sent \in Messages
    BY <2>1, ClientAssumption DEF TypeOK, ControlTypes, Underway, Messages
  <2>3. Got' = Append(Got, sent)
    BY <1>a, <2>1, <2>2, ReceiveAppends
  <2> QED BY <1>a, <2>1, <2>3 DEF Receives, Whole
<1> QED
  BY <1>1, <1>2, <1>3, <1>4, <1>5, <1>6, <1>7, <1>8, Zenon DEF Next, Listener, Terminated

(* A subscription ends only because of a break, and is dropped only then.  *)
SubscriptionLasts ==
  /\ subCtx_ = "broken" => breaks > 0
  /\ (breaks = 0 /\ subCtx_ # "open") => Got = <<>>

(* What any step does to the subscription.                                 *)
LEMMA SubscriptionStep ==
  ASSUME TypeOK, subCtx_ = "broken" => breaks > 0, [Next]_vars
  PROVE  /\ breaks' = 0 => breaks = 0
         /\ (breaks' = 0 /\ subCtx_ = "open") => subCtx_' = "open"
         /\ subCtx_' = "broken" => breaks' > 0
<1>a. breaks \in Nat
  BY DEF TypeOK, ControlTypes
<1>1. CASE UNCHANGED <<subCtx_, breaks>>
  BY <1>1
<1>2. CASE EnsureSubscribed
  <2>1. (subCtx_' = subCtx_ \/ subCtx_' = "open") /\ breaks' = breaks
    BY <1>2, Zenon DEF EnsureSubscribed, netVars
  <2> QED BY <2>1
<1>3. CASE Confirm \/ GetReplyFails
  <2>1. (subCtx_' = subCtx_ \/ (subCtx_ = "broken" /\ subCtx_' = "none")) /\ breaks' = breaks
    BY <1>3, Zenon DEF Confirm, GetReplyFails, Drop, netVars
  <2> QED BY <2>1
<1>4. CASE Break
  <2>1. breaks' = breaks + 1
    BY <1>4, Zenon DEF Break
  <2> QED BY <1>a, <2>1
<1>5. CASE LockMain \/ Main \/ StopListener \/ LockListener \/ UNCHANGED vars
  <2>1. CASE LockMain \/ StopListener \/ LockListener \/ UNCHANGED vars
    BY <1>1, <2>1, Zenon DEF LockMain, StopListener, LockListener, vars, subVars, netVars
  <2>2. CASE Main
    BY <1>1, <2>2, Zenon DEF Main, EnsureConnected, Execute, GetAnswer, CommandFails,
                             JoinListener, subVars, netVars
  <2> QED BY <1>5, <2>1, <2>2
<1>6. CASE Loop \/ PollReady \/ PollTimesOut \/ GetReply \/ GetReplyBlocks
  BY <1>1, <1>6, Zenon DEF Loop, PollReady, PollTimesOut, GetReply, GetReplyBlocks, subVars, netVars
<1>7. CASE PublishInput \/ SecondHalf \/ Recover
  BY <1>1, <1>7, Zenon DEF PublishInput, SecondHalf, Recover, subVars, netVars
<1> QED
  BY <1>2, <1>3, <1>4, <1>5, <1>6, <1>7, Zenon DEF Next, Listener, Terminated

(* Got is a sequence of messages.                                          *)
LEMMA GotType ==
  ASSUME DataTypes
  PROVE  Got \in Seq(Messages) /\ Len(Got) \in Nat /\ DOMAIN Got = 1..Len(Got)
         /\ \A i \in 1..Len(Got) : Got[i] \in Nat
<1>1. Got \in Seq(Messages)
  BY ConcatProperties DEF DataTypes, Got
<1> QED BY <1>1, LenProperties, ClientAssumption DEF Messages

(* Appending to a sequence of messages, position by position.              *)
LEMMA GotAppend ==
  ASSUME DataTypes, NEW m \in Nat, Got' = Append(Got, m), DataTypes'
  PROVE  /\ Len(Got') = Len(Got) + 1
         /\ Got'[Len(Got) + 1] = m
         /\ \A i \in 1..Len(Got) : Got'[i] = Got[i]
<1>1. Got \in Seq(Nat)
  BY GotType, SeqMonotonic, ClientAssumption DEF Messages
<1> QED BY <1>1, AppendProperties

(* Without a break: the messages are consecutive up to the latest.         *)
Consecutive == breaks = 0 => \A i \in 1..Len(Got) : Got[i] = Whole - Len(Got) + i

(* Every step keeps the messages of the subscription consecutive.          *)
LEMMA ConsecutiveStep ==
  ASSUME TypeOK, Underway, SubscriptionLasts, Consecutive, [Next]_vars
  PROVE  SubscriptionLasts' /\ Consecutive'
<1>a. TypeOK' /\ DataTypes /\ DataTypes'
  BY ControlStep, DataStep DEF TypeOK
<1>b. Got \in Seq(Messages) /\ Len(Got) \in Nat /\ Whole \in Int /\ Whole + 1 \in Nat
  BY <1>a, GotType DEF TypeOK, ControlTypes, Whole
<1>c. /\ breaks' = 0 => breaks = 0
      /\ (breaks' = 0 /\ subCtx_ = "open") => subCtx_' = "open"
      /\ subCtx_' = "broken" => breaks' > 0
  BY SubscriptionStep DEF SubscriptionLasts
<1>1. CASE Same
  BY <1>1, <1>c DEF Same, SubscriptionLasts, Consecutive
<1>2. CASE Receives
  <2>1. SubscriptionLasts'
    BY <1>2, <1>c DEF Receives, SubscriptionLasts
  <2>2. /\ Len(Got') = Len(Got) + 1 /\ Got'[Len(Got) + 1] = Whole + 1
        /\ \A i \in 1..Len(Got) : Got'[i] = Got[i]
    BY <1>2, <1>a, <1>b, GotAppend DEF Receives
  <2>3. Whole' = Whole + 1
    BY <1>2 DEF Receives
  <2>4. Consecutive'
    BY <1>b, <1>c, <2>2, <2>3 DEF Consecutive
  <2> QED BY <2>1, <2>4
<1>3. CASE Passes
  <2>1. breaks' = 0 => Got' = <<>>
    BY <1>3, <1>c DEF Passes, SubscriptionLasts
  <2>2. Got' = <<>> => Len(Got') = 0
    OBVIOUS
  <2> QED BY <1>c, <2>1, <2>2 DEF Consecutive, SubscriptionLasts
<1>4. CASE Drops
  <2>1. breaks' # 0
    BY <1>4, <1>c DEF Drops, SubscriptionLasts, TypeOK, ControlTypes
  <2> QED BY <1>c, <2>1 DEF Consecutive, SubscriptionLasts
<1> QED BY <1>1, <1>2, <1>3, <1>4, MessageSteps

(* subscribeNext() skips no message while the subscription lasts: what it  *)
(* has returned, what hiredis has read and what the socket holds follow    *)
(* each other without a gap, up to the latest message received.            *)
THEOREM NoMessageSkipped == Spec => []NoneSkipped
<1>1. Init => SubscriptionLasts /\ Consecutive
  <2> SUFFICES ASSUME Init PROVE SubscriptionLasts /\ Consecutive
    OBVIOUS
  <2>1. Got = <<>>
    BY ConcatEmptySeq, EmptySeq DEF Init, Got
  <2>2. Len(Got) = 0
    BY <2>1
  <2> QED BY <2>1, <2>2 DEF Init, SubscriptionLasts, Consecutive
<1>2. TypeOK /\ Underway /\ SubscriptionLasts /\ Consecutive /\ [Next]_vars
        => (SubscriptionLasts /\ Consecutive)'
  BY ConsecutiveStep
<1>3. TypeOK /\ Consecutive => NoneSkipped
  BY GotType DEF Consecutive, NoneSkipped, Got, Whole, TypeOK
<1> QED BY <1>1, <1>2, <1>3, TypeCorrect, PTL DEF Spec

-----------------------------------------------------------------------------
(* RedisClient implements RedisLink.                                       *)

(* Messages arrive in the order in which they were published.              *)
Sorted ==
  /\ \A i, j \in 1..Len(Got) : i < j => Got[i] < Got[j]
  /\ \A i \in 1..Len(Got) : Got[i] <= Whole

(* What has been returned is the beginning of Got.                         *)
LEMMA ReturnedFirst ==
  ASSUME DataTypes
  PROVE  /\ returned \in Seq(Messages) /\ DOMAIN returned = 1..Len(returned)
         /\ Len(returned) \in Nat /\ Len(returned) <= Len(Got)
         /\ \A i \in 1..Len(returned) : returned[i] = Got[i]
<1>1. returned \in Seq(Messages) /\ reader \o socket \in Seq(Messages)
  BY ConcatProperties DEF DataTypes
<1>2. Got = returned \o (reader \o socket)
  BY ConcatAssociative DEF DataTypes, Got
<1>3. Len(returned) \in Nat /\ Len(reader \o socket) \in Nat
  BY <1>1, LenProperties
<1> QED BY <1>1, <1>2, <1>3, ConcatProperties, LenProperties

(* Every step keeps the messages sorted.                                   *)
LEMMA SortedStep ==
  ASSUME TypeOK, Underway, Sorted, [Next]_vars
  PROVE  Sorted'
<1>a. DataTypes /\ DataTypes'
  BY DataStep DEF TypeOK
<1>b. /\ Len(Got) \in Nat /\ Whole \in Int /\ Whole + 1 \in Nat
      /\ \A i \in 1..Len(Got) : Got[i] \in Nat
  BY <1>a, GotType DEF TypeOK, ControlTypes, Whole
<1>1. CASE Same
  BY <1>1 DEF Same, Sorted
<1>2. CASE Receives
  <2>1. /\ Len(Got') = Len(Got) + 1 /\ Got'[Len(Got) + 1] = Whole + 1
        /\ \A i \in 1..Len(Got) : Got'[i] = Got[i]
    BY <1>2, <1>a, <1>b, GotAppend DEF Receives
  <2>2. Whole' = Whole + 1
    BY <1>2 DEF Receives
  <2> QED BY <1>b, <2>1, <2>2 DEF Sorted
<1>3. CASE Passes
  BY <1>3, <1>b DEF Passes, Sorted
<1>4. CASE Drops
  <2>1. /\ Len(returned) \in Nat /\ Len(returned) <= Len(Got)
        /\ \A i \in 1..Len(returned) : returned[i] = Got[i]
    BY <1>a, ReturnedFirst
  <2>2. Got' = returned /\ Whole' >= Whole
    BY <1>4, <1>b DEF Drops
  <2>3. \A i \in 1..Len(Got)' : i \in 1..Len(Got) /\ Got'[i] = Got[i]
    BY <1>b, <2>1, <2>2
  <2>4. Whole' \in Int
    BY <1>4, <1>b DEF Drops
  <2> QED BY <1>b, <2>2, <2>3, <2>4 DEF Sorted
<1> QED BY <1>1, <1>2, <1>3, <1>4, MessageSteps

(* A step of the main thread is a command of RedisLink, or none of its     *)
(* business.                                                               *)
LEMMA MainLinks ==
  ASSUME TypeOK, LockMain \/ Main \/ StopListener
  PROVE  [Link!Next]_Link!vars
<1> USE DEF Link!vars, Link!Next, Link!Command
<1>a. calls \in Nat
  BY DEF TypeOK, ControlTypes
<1>1. CASE LockMain \/ StopListener \/ JoinListener
  BY <1>1 DEF LockMain, StopListener, JoinListener
<1>2. CASE EnsureConnected
  <2>1. /\ main = "locked" /\ UNCHANGED <<log, returned>>
        /\ \/ main' = "connected" /\ calls' = calls
           \/ main' = "free" /\ calls' = calls + 1
    BY <1>2, Zenon DEF EnsureConnected, ReturnMain
  <2> QED BY <1>a, <2>1
<1>3. CASE Execute
  BY <1>3, <1>a DEF Execute
<1>4. CASE GetAnswer
  BY <1>4, <1>a DEF GetAnswer, ReturnMain
<1>5. CASE CommandFails
  BY <1>5, <1>a DEF CommandFails, ReturnMain
<1> QED BY <1>1, <1>2, <1>3, <1>4, <1>5 DEF Main

(* redisGetReply() hands over a message newer than all before it.          *)
LEMMA GetReplyLinks ==
  ASSUME TypeOK, Sorted, GetReply
  PROVE  Link!Next
<1> DEFINE n == Len(returned) + 1
<1>a. DataTypes
  BY DEF TypeOK
<1>1. n \in 1..Len(Got) /\ returned' = Append(returned, Got[n])
  BY <1>a, GetReplyMoves
<1>2. Got[n] \in Messages
  BY <1>a, <1>1, GotType, ElementOfSeq
<1>3. ASSUME NEW i \in DOMAIN returned PROVE returned[i] < Got[n]
  <2>1. i \in 1..Len(Got) /\ i < n /\ returned[i] = Got[i]
    BY <1>a, GotType, ReturnedFirst
  <2> QED BY <1>1, <2>1 DEF Sorted
<1>4. UNCHANGED <<main, calls, log>>
  BY DEF GetReply, mainVars
<1>5. Link!HandOver(Got[n])
  BY <1>1, <1>3, <1>4 DEF Link!HandOver
<1> QED BY <1>2, <1>5 DEF Link!Next

(* Whatever fails, the client is a RedisLink: no command takes effect      *)
(* twice or out of order, no message is handed over twice or out of order. *)
THEOREM ImplementsLink == Spec => LinkSpec
<1>1. Init => Link!Init /\ Sorted
  <2> SUFFICES ASSUME Init PROVE Link!Init /\ Sorted
    OBVIOUS
  <2>1. Got = <<>>
    BY ConcatEmptySeq, EmptySeq DEF Init, Got
  <2>2. Len(Got) = 0
    BY <2>1
  <2> QED BY <2>2 DEF Init, Link!Init, Sorted
<1>2. TypeOK /\ Underway /\ Sorted /\ [Next]_vars => Sorted'
  BY SortedStep
<1>3. TypeOK /\ Underway /\ Sorted /\ [Next]_vars => [Link!Next]_Link!vars
  <2> SUFFICES ASSUME TypeOK, Underway, Sorted, [Next]_vars PROVE [Link!Next]_Link!vars
    OBVIOUS
  <2>1. CASE UNCHANGED <<mainVars, returned>>
    BY <2>1 DEF mainVars, Link!vars
  <2>2. CASE LockMain \/ Main \/ StopListener
    BY <2>2, MainLinks
  <2>3. CASE GetReply
    BY <2>3, GetReplyLinks
  <2>4. CASE Loop \/ EnsureSubscribed \/ Confirm \/ PollReady \/ PollTimesOut
             \/ GetReplyBlocks \/ GetReplyFails \/ LockListener
    BY <2>1, <2>4, Zenon DEF Loop, EnsureSubscribed, Confirm, PollReady, PollTimesOut,
                             GetReplyBlocks, GetReplyFails, LockListener
  <2>5. CASE PublishInput \/ SecondHalf \/ Recover \/ UNCHANGED vars
    BY <2>1, <2>5, Zenon DEF PublishInput, SecondHalf, Recover, vars
  <2>6. CASE Break
    BY <2>6 DEF Break, Link!vars
  <2> QED BY <2>2, <2>3, <2>4, <2>5, <2>6, Zenon DEF Next, Listener, Terminated
<1> QED BY <1>1, <1>2, <1>3, TypeCorrect, PTL DEF Spec, LinkSpec, Link!Spec

-----------------------------------------------------------------------------
(* What MainGoesOn rests on besides fairness.  The listener enters its     *)
(* blocking read, with the mutex, only when a message or the end of the    *)
(* connection has begun to arrive.                                         *)
SomethingCame == reader # <<>> \/ socket # <<>> \/ half # "none" \/ subCtx_ = "broken"
ReadInv == listener \in {"relock", "get"} => SomethingCame
ReadIsFed == listener = "get" => SomethingCame

(* Nobody takes away what poll() saw before the listener has read it.      *)
LEMMA ReadStep ==
  ASSUME TypeOK, Underway, ReadInv, [Next]_vars
  PROVE  ReadInv'
<1> USE DEF subVars, netVars, mainVars
<1>0. /\ sent \in 0..MaxMessages /\ MaxMessages \in Nat
      /\ \A e \in Messages : Append(socket, e) # <<>>
  <2>1. socket \in Seq(Messages)
    BY DEF TypeOK, DataTypes
  <2>2. \A e \in Messages : Append(socket, e) # <<>>
    BY <2>1, AppendProperties
  <2> QED BY <2>2, ClientAssumption DEF TypeOK, ControlTypes
<1>1. CASE UNCHANGED <<listener, subVars>>
  BY <1>1 DEF ReadInv, SomethingCame
<1>2. CASE LockMain \/ Main \/ StopListener \/ Recover \/ UNCHANGED vars
  <2>1. UNCHANGED <<listener, subVars>>
    BY <1>2 DEF LockMain, Main, EnsureConnected, Execute, GetAnswer, CommandFails, JoinListener,
                StopListener, Recover, vars
  <2> QED BY <1>1, <2>1
<1>3. CASE LockListener
  <2>1. /\ UNCHANGED subVars /\ listener' = "get" => listener = "relock"
        /\ listener' # "relock"
    BY <1>3 DEF LockListener
  <2> QED BY <1>3, <2>1 DEF ReadInv, SomethingCame, LockListener
<1>4. CASE Loop \/ EnsureSubscribed \/ Confirm \/ PollTimesOut \/ GetReply \/ GetReplyFails
  BY <1>4 DEF Loop, EnsureSubscribed, Confirm, PollTimesOut, GetReply, GetReplyFails, Unlock,
              ReadInv
<1>5. CASE PollReady
  <2>1. SomethingCame /\ UNCHANGED subVars
    BY <1>5 DEF PollReady, Readable, SomethingCame
  <2> QED BY <2>1 DEF ReadInv, SomethingCame
<1>6. CASE GetReplyBlocks
  BY <1>6 DEF GetReplyBlocks, ReadInv, SomethingCame
<1>7. CASE PublishInput
  <2>1. /\ UNCHANGED <<listener, subCtx_, reader>> /\ half = "none" /\ sent' = sent + 1
        /\ \/ socket' = Append(socket, sent') /\ UNCHANGED half
           \/ half' = "socket" /\ UNCHANGED socket
           \/ UNCHANGED <<socket, half>>
    BY <1>7 DEF PublishInput
  <2>3. sent' \in Messages
    BY <1>0, <1>7 DEF PublishInput, Messages
  <2>2. socket' # <<>> \/ half' # "none" \/ UNCHANGED <<socket, half>>
    BY <1>0, <2>1, <2>3
  <2> QED BY <2>1, <2>2 DEF ReadInv, SomethingCame
<1>8. CASE SecondHalf
  <2>1. sent \in Messages
    BY <1>0, <1>8 DEF SecondHalf, Underway, Messages
  <2> QED BY <1>0, <1>8, <2>1 DEF SecondHalf, ReadInv, SomethingCame
<1>9. CASE Break
  <2>1. UNCHANGED <<listener, reader, socket, half>> /\ (subCtx_ = "broken" => subCtx_' = "broken")
    BY <1>9 DEF Break
  <2> QED BY <2>1 DEF ReadInv, SomethingCame
<1> QED BY <1>2, <1>3, <1>4, <1>5, <1>6, <1>7, <1>8, <1>9 DEF Next, Listener, Terminated

(* redisGetReply() is never called, with the mutex held, for a message of  *)
(* which nothing has come: it blocks for a second half at most, and then   *)
(* the main thread waits for that half and for nothing else.               *)
THEOREM TheReadIsFed == Spec => []ReadIsFed
<1>1. Init => ReadInv
  BY DEF Init, ReadInv
<1>2. TypeOK /\ Underway /\ ReadInv /\ [Next]_vars => ReadInv'
  BY ReadStep
<1>3. ReadInv => ReadIsFed
  BY DEF ReadInv, ReadIsFed
<1> QED BY <1>1, <1>2, <1>3, TypeCorrect, PTL DEF Spec

(* What the main thread has left to do.                                    *)
StepsLeft ==  \* of the call under way, or of the end
  CASE main = "free" -> 4 [] main = "locked" -> 3 [] main \in {"connected", "joining"} -> 2
    [] main = "sent" -> 1 [] OTHER -> 0
CommandsLeft == 4 * (MaxCalls - calls) + StepsLeft

MainDescends ==
  /\ LockMain \/ Main \/ StopListener => CommandsLeft' < CommandsLeft
  /\ CommandsLeft' <= CommandsLeft

(* A command is sent at most once: what the main thread has left to do     *)
(* shrinks with each of its steps, whatever the connection does.           *)
THEOREM CommandsRunOut == Spec => [](CommandsLeft \in Nat) /\ [][MainDescends]_vars
<1>1. TypeOK => CommandsLeft \in Nat
  <2> SUFFICES ASSUME TypeOK PROVE CommandsLeft \in Nat
    OBVIOUS
  <2>1. MaxCalls - calls \in Nat
    BY ClientAssumption DEF TypeOK, ControlTypes
  <2>2. StepsLeft \in Nat
    BY DEF StepsLeft
  <2> QED BY <2>1, <2>2 DEF CommandsLeft
<1>2. TypeOK /\ Underway /\ [Next]_vars => [MainDescends]_vars
  <2> SUFFICES ASSUME TypeOK, Underway, Next PROVE MainDescends
    OBVIOUS
  <2>0. /\ calls \in Nat /\ MaxCalls \in Nat /\ calls <= MaxCalls
        /\ StepsLeft \in Nat /\ StepsLeft' \in Nat
    BY ClientAssumption DEF TypeOK, ControlTypes, StepsLeft
  <2>1. ASSUME calls' = calls, StepsLeft' < StepsLeft PROVE MainDescends
    <3>1. /\ CommandsLeft = 4 * (MaxCalls - calls) + StepsLeft
          /\ CommandsLeft' = 4 * (MaxCalls - calls) + StepsLeft'
      BY <2>1 DEF CommandsLeft
    <3>n. 4 * (MaxCalls - calls) \in Nat
      BY <2>0
    <3>2. \A k, n, m \in Nat : n < m => k + n < k + m /\ k + n <= k + m
      OBVIOUS
    <3>3. CommandsLeft' < CommandsLeft /\ CommandsLeft' <= CommandsLeft
      BY <2>0, <2>1, <3>1, <3>2, <3>n, Zenon
    <3> QED BY <3>3 DEF MainDescends
  <2>2. ASSUME calls' = calls + 1, StepsLeft' = 4, StepsLeft > 0 PROVE MainDescends
    BY <2>0, <2>2 DEF MainDescends, CommandsLeft
  <2>3. CASE LockMain
    <3>1. StepsLeft = 4 /\ StepsLeft' = 3 /\ calls' = calls
      BY <2>3 DEF LockMain, StepsLeft
    <3> QED BY <2>1, <3>1
  <2>4. CASE EnsureConnected
    <3>1. CASE main' = "connected" /\ calls' = calls
      <4>1. StepsLeft = 3 /\ StepsLeft' = 2
        BY <2>4, <3>1 DEF EnsureConnected, StepsLeft
      <4> QED BY <2>1, <3>1, <4>1
    <3>2. CASE ReturnMain(FALSE)
      <4>1. StepsLeft = 3 /\ StepsLeft' = 4 /\ calls' = calls + 1
        BY <2>4, <3>2 DEF EnsureConnected, ReturnMain, StepsLeft
      <4> QED BY <2>2, <4>1
    <3> QED BY <2>4, <3>1, <3>2 DEF EnsureConnected
  <2>5. CASE Execute
    <3>1. StepsLeft = 2 /\ StepsLeft' = 1 /\ calls' = calls
      BY <2>5 DEF Execute, StepsLeft
    <3> QED BY <2>1, <3>1
  <2>6. CASE GetAnswer \/ CommandFails
    <3>1. StepsLeft \in {1, 2} /\ StepsLeft' = 4 /\ calls' = calls + 1
      BY <2>6 DEF GetAnswer, CommandFails, ReturnMain, StepsLeft
    <3> QED BY <2>2, <3>1
  <2>7. CASE StopListener
    <3>1. StepsLeft = 4 /\ StepsLeft' = 2 /\ calls' = calls
      BY <2>7 DEF StopListener, StepsLeft
    <3> QED BY <2>1, <3>1
  <2>8. CASE JoinListener
    <3>1. StepsLeft = 2 /\ StepsLeft' = 0 /\ calls' = calls
      BY <2>8 DEF JoinListener, StepsLeft
    <3> QED BY <2>1, <3>1
  <2>9. CASE ~(LockMain \/ Main \/ StopListener)
    <3>1. main' = main /\ calls' = calls
      BY <2>9 DEF Next, LockListener, Listener, Loop, EnsureSubscribed, Confirm, PollReady,
                  PollTimesOut, GetReply, GetReplyBlocks, GetReplyFails, PublishInput,
                  SecondHalf, Break, Recover, Terminated, vars, mainVars
    <3>2. CommandsLeft' = CommandsLeft /\ CommandsLeft \in Nat
      BY <1>1, <3>1 DEF CommandsLeft, StepsLeft
    <3> QED BY <2>9, <3>2 DEF MainDescends
  <2> QED BY <2>3, <2>4, <2>5, <2>6, <2>7, <2>8, <2>9 DEF Main
<1> QED BY <1>1, <1>2, TypeCorrect, PTL DEF Spec
=============================================================================
