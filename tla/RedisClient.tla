----------------------------- MODULE RedisClient -----------------------------
(***************************************************************************)
(* RedisClient.cpp as the two threads of gf_server use it.  The main       *)
(* thread issues commands (publish, publishBinary and hset are the same to *)
(* the connection) on ctx_; the listener calls subscribeNext() in a loop   *)
(* on subCtx_.  One mutex guards both connections; subscribeNext() gives   *)
(* it up while it polls.                                                   *)
(*                                                                         *)
(* hiredis and the network are external.  hiredis keeps the bytes it has   *)
(* read in a reader: redisGetReply() takes a reply from there if there is  *)
(* one, and otherwise reads what the socket holds, and blocks until a      *)
(* whole reply is there or the connection fails.                           *)
(***************************************************************************)
EXTENDS Integers, Sequences

CONSTANTS
  MaxCalls,     \* bound: commands the main thread issues
  MaxMessages,  \* bound: messages others publish on the input channel
  MaxBreaks     \* bound: times Redis goes away

ASSUME ClientAssumption ==
  MaxCalls \in Nat /\ MaxMessages \in Nat /\ MaxBreaks \in Nat

Messages == 1..MaxMessages

VARIABLES
  mutex_,     \* who holds it: "none", "main" or "listener"
  main,       \* program counter of the main thread
  ctx_,       \* "none", "open", or "broken": failed, and not noticed yet
  answer,     \* Redis's answer to the command under way
  calls,      \* commands that have returned
  listener,   \* program counter of the listener
  subCtx_,    \* as ctx_, for the subscription
  socket,     \* whole messages of the subscription, not read yet
  reader,     \* whole messages in hiredis's reader
  half,       \* the first half of a message: "none", in the "socket" or the "reader"
  gRunning,
  up, breaks, \* whether Redis can be reached; how often it went away
  sent,       \* messages published on the input channel so far
  log,        \* history: commands Redis executed, in order
  succeeded,  \* history: commands that returned true
  returned    \* history: messages subscribeNext() returned, in order

mainVars == <<main, ctx_, answer, calls, log, succeeded>>
subVars == <<subCtx_, socket, reader, half>>
netVars == <<up, breaks, sent>>
vars == <<mutex_, mainVars, listener, subVars, gRunning, netVars, returned>>

Init ==
  /\ mutex_ = "none" /\ gRunning = TRUE
  /\ main = "free" /\ ctx_ = "none" /\ answer = "none" /\ calls = 0
  /\ listener = "head" /\ subCtx_ = "none"
  /\ socket = <<>> /\ reader = <<>> /\ half = "none"
  /\ up = TRUE /\ breaks = 0 /\ sent = 0
  /\ log = <<>> /\ succeeded = {} /\ returned = <<>>

-----------------------------------------------------------------------------
(* publish(), publishBinary(), hset() on the main thread.                  *)

LockMain ==
  /\ main = "free" /\ calls < MaxCalls /\ mutex_ = "none"
  /\ mutex_' = "main" /\ main' = "locked"
  /\ UNCHANGED <<ctx_, answer, calls, log, succeeded, listener, subVars,
                 gRunning, netVars, returned>>

(* The call returns "ok" and gives up the mutex.                           *)
ReturnMain(ok) ==
  /\ main' = "free" /\ mutex_' = "none" /\ calls' = calls + 1
  /\ answer' = "none"
  /\ succeeded' = IF ok THEN succeeded \cup {calls + 1} ELSE succeeded

(* ensureConnected(): a connection that has failed unnoticed still counts. *)
EnsureConnected ==
  /\ main = "locked"
  /\ \/ /\ ctx_ # "none" \/ up
        /\ ctx_' = IF ctx_ = "none" THEN "open" ELSE ctx_
        /\ main' = "connected" /\ UNCHANGED <<mutex_, calls, answer, succeeded>>
     \/ ctx_ = "none" /\ ~up /\ ReturnMain(FALSE) /\ UNCHANGED ctx_
  /\ UNCHANGED <<log, listener, subVars, gRunning, netVars, returned>>

(* Redis executes the command or answers with an error.                    *)
Execute ==
  /\ main = "connected" /\ ctx_ = "open" /\ main' = "sent"
  /\ \/ answer' = "ok" /\ log' = Append(log, calls + 1)
     \/ answer' = "error" /\ UNCHANGED log
  /\ UNCHANGED <<mutex_, ctx_, calls, succeeded, listener, subVars, gRunning,
                 netVars, returned>>

\* Mutant of GetAnswer: any reply counts as success.
GetAnswer_AnyReply ==
  /\ main = "sent" /\ ctx_ = "open" /\ ReturnMain(TRUE)
  /\ UNCHANGED <<ctx_, log, listener, subVars, gRunning, netVars, returned>>
GetAnswer ==
  /\ main = "sent" /\ ctx_ = "open" /\ ReturnMain(answer = "ok")
  /\ UNCHANGED <<ctx_, log, listener, subVars, gRunning, netVars, returned>>

\* Mutant of CommandFails: the command is sent once more on a new connection.
CommandFails_Retries ==
  /\ main \in {"connected", "sent"} /\ ctx_ = "broken"
  /\ ctx_' = "none" /\ main' = "locked"
  /\ UNCHANGED <<mutex_, answer, calls, succeeded, log, listener, subVars,
                 gRunning, netVars, returned>>
(* No reply: disconnect(), false.  The command may have been executed.     *)
CommandFails ==
  /\ main \in {"connected", "sent"} /\ ctx_ = "broken"
  /\ ctx_' = "none" /\ ReturnMain(FALSE)
  /\ UNCHANGED <<log, listener, subVars, gRunning, netVars, returned>>

(* main(): run() has returned; the listener is told to stop, and joined.   *)
StopListener ==
  /\ main = "free" /\ calls = MaxCalls /\ main' = "joining" /\ gRunning' = FALSE
  /\ UNCHANGED <<mutex_, ctx_, answer, calls, log, succeeded, listener,
                 subVars, netVars, returned>>

JoinListener ==
  /\ main = "joining" /\ listener = "left" /\ main' = "joined"
  /\ UNCHANGED <<mutex_, ctx_, answer, calls, log, succeeded, listener,
                 subVars, gRunning, netVars, returned>>

-----------------------------------------------------------------------------
(* subscribeNext() on the listener.                                        *)

\* Mutant of Loop: the flag is not looked at.
Loop_Forever ==
  /\ listener = "head" /\ listener' = "lock"
  /\ UNCHANGED <<mutex_, mainVars, subVars, gRunning, netVars, returned>>
Loop ==
  /\ listener = "head" /\ listener' = IF gRunning THEN "lock" ELSE "left"
  /\ UNCHANGED <<mutex_, mainVars, subVars, gRunning, netVars, returned>>

LockListener ==
  /\ mutex_ = "none" /\ mutex_' = "listener"
  /\ \/ listener = "lock" /\ listener' = "locked"
     \/ listener = "relock" /\ listener' = "get"
  /\ UNCHANGED <<mainVars, subVars, gRunning, netVars, returned>>

\* Mutant of Unlock: an early return that keeps the mutex.
Unlock_Not(next) == listener' = next /\ UNCHANGED mutex_
Unlock(next) == mutex_' = "none" /\ listener' = next

(* redisFree(subCtx_): what it has received goes with it.                  *)
Drop ==
  subCtx_' = "none" /\ socket' = <<>> /\ reader' = <<>> /\ half' = "none"

(* Connect and SUBSCRIBE; the confirmation is read in the next step.       *)
EnsureSubscribed ==
  /\ listener = "locked"
  /\ \/ subCtx_ # "none" /\ Unlock("poll") /\ UNCHANGED subCtx_
     \/ subCtx_ = "none" /\ up
        /\ subCtx_' = "open" /\ listener' = "confirm" /\ UNCHANGED mutex_
     \/ subCtx_ = "none" /\ ~up /\ Unlock("head") /\ UNCHANGED subCtx_
  /\ UNCHANGED <<mainVars, socket, reader, half, gRunning, netVars, returned>>

(* hiredis reads all that is there, the confirmation and what follows it.  *)
ReadAll ==
  /\ reader' = reader \o socket /\ socket' = <<>>
  /\ half' = IF half = "none" THEN "none" ELSE "reader"

Confirm ==
  /\ listener = "confirm"
  /\ \/ ReadAll /\ Unlock("poll") /\ UNCHANGED subCtx_
     \/ subCtx_ = "broken" /\ Drop /\ Unlock("head")
  /\ UNCHANGED <<mainVars, gRunning, netVars, returned>>

(* What poll() waits for: bytes in the socket, or its end.                 *)
Readable == socket # <<>> \/ half = "socket" \/ subCtx_ = "broken"

PollReady ==
  /\ listener = "poll" /\ Readable /\ listener' = "relock"
  /\ UNCHANGED <<mutex_, mainVars, subVars, gRunning, netVars, returned>>

PollTimesOut ==
  /\ listener = "poll" /\ ~Readable /\ listener' = "head"
  /\ UNCHANGED <<mutex_, mainVars, subVars, gRunning, netVars, returned>>

\* Mutants of GetReply: the reader is emptied for one message; the socket is
\* read first.
GetReply_OneRead ==
  /\ listener = "get"
  /\ reader # <<>> \/ socket # <<>>
  /\ returned' = Append(returned, Head(reader \o socket))
  /\ reader' = <<>> /\ socket' = <<>>
  /\ half' = IF half = "none" THEN "none" ELSE "reader"
  /\ Unlock("head") /\ UNCHANGED <<subCtx_, mainVars, gRunning, netVars>>
GetReply_SocketFirst ==
  /\ listener = "get"
  /\ \/ socket # <<>> /\ returned' = Append(returned, Head(socket))
        /\ socket' = Tail(socket) /\ UNCHANGED reader
     \/ socket = <<>> /\ reader # <<>> /\ returned' = Append(returned, Head(reader))
        /\ reader' = Tail(reader) /\ UNCHANGED socket
  /\ Unlock("head") /\ UNCHANGED <<subCtx_, half, mainVars, gRunning, netVars>>

(* redisGetReply(): one reply, from the reader if it holds one.            *)
GetReply ==
  /\ listener = "get"
  /\ \/ /\ reader # <<>>
        /\ returned' = Append(returned, Head(reader)) /\ reader' = Tail(reader)
        /\ UNCHANGED <<socket, half>>
     \/ /\ reader = <<>> /\ socket # <<>>
        /\ returned' = Append(returned, Head(socket))
        /\ reader' = Tail(socket) /\ socket' = <<>>
        /\ half' = IF half = "none" THEN "none" ELSE "reader"
  /\ Unlock("head") /\ UNCHANGED <<subCtx_, mainVars, gRunning, netVars>>

(* Half a message only: it is read, and the thread blocks with the mutex.  *)
GetReplyBlocks ==
  /\ listener = "get" /\ reader = <<>> /\ socket = <<>> /\ half = "socket"
  /\ half' = "reader"
  /\ UNCHANGED <<mutex_, mainVars, listener, subCtx_, socket, reader, gRunning,
                 netVars, returned>>

GetReplyFails ==
  /\ listener = "get" /\ reader = <<>> /\ socket = <<>> /\ subCtx_ = "broken"
  /\ Drop /\ Unlock("head") /\ UNCHANGED <<mainVars, gRunning, netVars, returned>>

-----------------------------------------------------------------------------
(* Redis and the network.                                                  *)

(* Someone publishes: a subscriber receives the message, in one piece or   *)
(* in two; without a subscription it is lost.                              *)
PublishInput ==
  /\ sent < MaxMessages /\ half = "none" /\ up /\ sent' = sent + 1
  /\ \/ subCtx_ = "open" /\ socket' = Append(socket, sent') /\ UNCHANGED half
     \/ subCtx_ = "open" /\ half' = "socket" /\ UNCHANGED socket
     \/ subCtx_ # "open" /\ UNCHANGED <<socket, half>>
  /\ UNCHANGED <<mutex_, mainVars, listener, subCtx_, reader, gRunning, up,
                 breaks, returned>>

SecondHalf ==
  /\ half # "none" /\ subCtx_ = "open"
  /\ socket' = Append(socket, sent) /\ half' = "none"
  /\ UNCHANGED <<mutex_, mainVars, listener, subCtx_, reader, gRunning,
                 netVars, returned>>

(* Redis closes all connections; what has been received can still be read. *)
Break ==
  /\ up /\ breaks < MaxBreaks /\ up' = FALSE /\ breaks' = breaks + 1
  /\ ctx_' = IF ctx_ = "open" THEN "broken" ELSE ctx_
  /\ subCtx_' = IF subCtx_ = "open" THEN "broken" ELSE subCtx_
  /\ UNCHANGED <<mutex_, main, answer, calls, log, succeeded, listener, socket,
                 reader, half, gRunning, sent, returned>>

Recover ==
  /\ ~up /\ up' = TRUE
  /\ UNCHANGED <<mutex_, mainVars, listener, subVars, gRunning, breaks, sent,
                 returned>>
-----------------------------------------------------------------------------
Main ==
  \/ EnsureConnected \/ Execute \/ GetAnswer \/ CommandFails \/ JoinListener
Listener ==
  \/ Loop \/ EnsureSubscribed \/ Confirm \/ PollReady \/ PollTimesOut
  \/ GetReply \/ GetReplyBlocks \/ GetReplyFails
Terminated == main = "joined" /\ UNCHANGED vars

Next ==
  \/ LockMain \/ Main \/ StopListener \/ LockListener \/ Listener
  \/ PublishInput \/ SecondHalf \/ Break \/ Recover
  \/ Terminated

Spec == Init /\ [][Next]_vars

(* Both threads are scheduled, and a thread that asks for the mutex again  *)
(* and again gets it: the listener gives it up in every round.  The second *)
(* half of a message comes, and Redis comes back.  When the match ends is  *)
(* not said (StopListener): it may outlast anything the listener waits for.*)
Fairness ==
  /\ WF_vars(Main) /\ WF_vars(Listener)
  /\ SF_vars(LockMain) /\ SF_vars(LockListener)
  /\ WF_vars(SecondHalf) /\ WF_vars(Recover)
FairSpec == Spec /\ Fairness

-----------------------------------------------------------------------------
(* What has to hold.                                                       *)

ControlTypes ==
  /\ main \in {"free", "locked", "connected", "sent", "joining", "joined"}
  /\ listener \in {"head", "lock", "locked", "confirm", "poll", "relock", "get", "left"}
  /\ mutex_ \in {"none", "main", "listener"}
  /\ mutex_ = "main" <=> main \in {"locked", "connected", "sent"}
  /\ mutex_ = "listener" <=> listener \in {"locked", "confirm", "get"}
  /\ ctx_ \in {"none", "open", "broken"} /\ subCtx_ \in {"none", "open", "broken"}
  /\ answer \in {"none", "ok", "error"} /\ half \in {"none", "socket", "reader"}
  /\ gRunning \in BOOLEAN /\ up \in BOOLEAN
  /\ calls \in 0..MaxCalls /\ sent \in 0..MaxMessages /\ breaks \in 0..MaxBreaks
DataTypes ==
  /\ log \in Seq(1..MaxCalls) /\ succeeded \subseteq 1..MaxCalls
  /\ socket \in Seq(Messages) /\ reader \in Seq(Messages) /\ returned \in Seq(Messages)

\* Every variable keeps its type; the mutex belongs to whoever is inside.
TypeOK == ControlTypes /\ DataTypes

Among(s) == {s[i] : i \in DOMAIN s}

\* A command that returned true has been executed, and one that was executed
\* and returned false met a failing connection.
TrueMeansExecuted ==
  /\ succeeded \subseteq Among(log)
  /\ breaks = 0 => Among(log) \cap 1..calls = succeeded

\* The process's view of Redis is that of RedisLink: commands at most once
\* and in order, messages at most once and in order.
Link == INSTANCE RedisLink
          WITH issued <- IF main = "sent" THEN calls + 1 ELSE calls
LinkSpec == Link!Spec

\* While the subscription lasts no message is lost or skipped on its way from
\* the socket through the reader to the listener.
NoneSkipped ==
  LET got == returned \o reader \o socket
      whole == IF half = "none" THEN sent ELSE sent - 1
  IN breaks = 0 => \A i \in DOMAIN got : got[i] = whole - Len(got) + i

\* No command waits for ever, and the listener can be joined: neither the
\* mutex nor a blocking read stops the main thread for good.
MainGoesOn == <>(calls = MaxCalls) /\ (~gRunning ~> main = "joined")

\* Once there is something to read, the listener goes on reading until the
\* reader holds nothing older: a message waits for no more than the next one.
BacklogMoves ==
  \A m \in Messages :
    (m \in Among(reader) /\ Readable) ~> (m \notin Among(reader) \/ ~gRunning)

\* "Returns received message (blocking with timeout)": what hiredis has
\* received of the subscription is returned, as long as the loop goes on.
ReceivedIsReturned ==
  \A m \in Messages :
    m \in Among(reader) ~> (m \notin Among(reader) \/ ~gRunning)
=============================================================================
