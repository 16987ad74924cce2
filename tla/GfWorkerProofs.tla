---------------------------- MODULE GfWorkerProofs ----------------------------
(* Theorems of GfWorker, for any number of workers, rooms, lost calls and  *)
(* signals.                                                                *)
EXTENDS GfWorker, FiniteSetTheorems, TLAPS

(* The parts of the inductive invariant beyond the properties.             *)

Busy(w) == shell[w].at \in {"popped", "drop", "tell"}

(* A shell has a room when it needs one.                                   *)
HasRoom == \A w \in Workers : Busy(w) => shell[w].room \in Rooms

(* A request is in the queue or with one worker, or its room has been      *)
(* started: it is never taken twice.                                       *)
Popped(w, r) == shell[w].at = "popped" /\ shell[w].room = r
Queued(r) == \E i \in 1..Len(spawn) : spawn[i] = r

TakenOnce ==
  /\ \A i, j \in 1..Len(spawn) : i # j => spawn[i] # spawn[j]
  /\ \A r \in Rooms :
       /\ Queued(r) => r \in requested /\ watchdog[r] = "none"
       /\ \A w \in Workers : Popped(w, r) =>
            /\ r \in requested /\ watchdog[r] = "none" /\ ~Queued(r)
            /\ \A v \in Workers : Popped(v, r) => v = w
       /\ watchdog[r] # "none" => r \in requested

NotStarted ==
  \A r \in Rooms :
    /\ watchdog[r] = "none" => host[r] = NoWorker
    /\ watchdog[r] \in {"none", "fork"} => pid[r] = NoPid /\ server[r] = "none"

Over == {"wait", "unregister", "unregister_early", "unmap", "unmap_early",
         "report", "report_early", "done"}
OverIsGone == \A r \in Rooms : watchdog[r] \in Over => Gone(r)

Removed ==
  faults = 0 => \A r \in Rooms :
    /\ watchdog[r] \in {"unmap", "unmap_early", "report", "report_early"} => active[r] = NoPid
    /\ watchdog[r] \in {"report", "report_early"} => workerMap[r] = NoWorker

Announced ==
  (faults = 0 /\ ~Interrupted) => \A r \in Rooms :
    \/ published[r] # <<>>
    \/ /\ watchdog[r] \in {"none", "fork", "register", "map", "announce"}
       /\ server[r] \in {"none", "starting", "exited"}

(* Without a clean-up "ready" comes first and a verdict last.              *)
FirstAndLast ==
  (faults = 0 /\ ~Interrupted) =>
    \A r \in Rooms :
      /\ published[r] # <<>> => published[r][1] = "ready"
      /\ (At(r, "done") /\ code[r] = 0) =>
           Gone(r) /\ published[r][Len(published[r])] \in Verdict

Parts ==
  /\ HasRoom /\ TakenOnce /\ NotStarted /\ OverIsGone /\ Removed /\ NoStaleRoom

IInv == TypeOK /\ Parts /\ RunningIsRegistered /\ Announced /\ FirstAndLast

-----------------------------------------------------------------------------
(* The bounds as numbers.                                                  *)
LEMMA Numbers ==
  /\ MaxFaults \in Nat /\ MaxSignals \in Nat /\ MaxEarlyExits \in Nat
  /\ IsFiniteSet(Rooms) /\ NoPid = 0
  BY WorkerAssumption DEF NoPid

(* What appending to a sequence leaves and adds.                           *)
LEMMA Appended ==
  ASSUME NEW S, NEW s \in Seq(S), NEW e \in S
  PROVE  /\ Append(s, e) \in Seq(S) /\ Append(s, e) # <<>>
         /\ Len(Append(s, e)) = Len(s) + 1 /\ Append(s, e)[Len(s) + 1] = e
         /\ \A i \in 1..Len(s) : Append(s, e)[i] = s[i]
         /\ Len(s) \in Nat /\ (s # <<>> => Len(s) > 0)
  OBVIOUS

(* What a room hears first and last when something is said about it.       *)
LEMMA SaidOf ==
  ASSUME TypeOK, NEW r \in Rooms, NEW what \in Verdict \cup {"ready"}, Said(r, what)
  PROVE  /\ published' \in [Rooms -> Seq(Verdict \cup {"ready"})]
         /\ published'[r] # <<>> /\ published'[r][Len(published'[r])] = what
         /\ published[r] = <<>> => published'[r][1] = what
         /\ published[r] # <<>> => published'[r][1] = published[r][1]
         /\ \A q \in Rooms \ {r} : published'[q] = published[q]
<1>1. /\ published \in [Rooms -> Seq(Verdict \cup {"ready"})]
      /\ published' = [published EXCEPT ![r] = Append(@, what)]
  BY DEF TypeOK, Said
<1>2. published[r] \in Seq(Verdict \cup {"ready"})
  BY <1>1
<1>3. published'[r] = Append(published[r], what)
  BY <1>1
<1>4. published[r] = <<>> => Len(published[r]) = 0
  OBVIOUS
<1> QED BY <1>1, <1>2, <1>3, <1>4, Appended

-----------------------------------------------------------------------------
(* Nothing has been asked for at the beginning.                            *)
LEMMA InitIInv == Init => IInv
<1> SUFFICES ASSUME Init PROVE IInv
  OBVIOUS
<1>1. TypeOK
  BY Numbers DEF Init, TypeOK, WatchdogPc, NoPid
<1>2. HasRoom /\ TakenOnce /\ NotStarted
  BY DEF Init, HasRoom, Busy, TakenOnce, Popped, Queued, NotStarted
<1>3. OverIsGone /\ Removed /\ NoStaleRoom
  BY DEF Init, OverIsGone, Over, Removed, NoStaleRoom, At
<1>4. RunningIsRegistered /\ Announced /\ FirstAndLast
  BY DEF Init, RunningIsRegistered, Announced, FirstAndLast, At
<1> QED BY <1>1, <1>2, <1>3, <1>4 DEF IInv, Parts

-----------------------------------------------------------------------------
(* What a room's watchdog and server leave alone.                          *)
LEMMA RoomFrame ==
  ASSUME IInv, UNCHANGED <<spawn, requested, shell, host>>,
         \A q \in Rooms : watchdog'[q] = "none" <=> watchdog[q] = "none"
  PROVE  HasRoom' /\ TakenOnce' /\ (Interrupted' <=> Interrupted)
  BY DEF IInv, Parts, HasRoom, Busy, TakenOnce, Popped, Queued, Interrupted

(* A watchdog that moves on leaves the others where they are.              *)
LEMMA WatchdogType ==
  ASSUME TypeOK, NEW r \in Rooms, NEW pc \in WatchdogPc, Goto(r, pc)
  PROVE  /\ watchdog' \in [Rooms -> WatchdogPc] /\ watchdog'[r] = pc
         /\ \A q \in Rooms \ {r} : watchdog'[q] = watchdog[q]
  BY DEF TypeOK, Goto

(* A new server gets its number before anybody knows of it.                *)
LEMMA ForkStep == ASSUME NEW r \in Rooms, IInv, Fork(r) PROVE IInv'
<1> DEFINE others == {q \in Rooms : host[q] = host[r] /\ pid[q] # NoPid}
<1>0. /\ watchdog[r] = "fork" /\ Goto(r, "register") /\ TypeOK
      /\ server' = [server EXCEPT ![r] = "starting"]
      /\ pid' = [pid EXCEPT ![r] = 1 + Cardinality(others)]
      /\ UNCHANGED <<spawn, requested, active, workerMap, published, faults, shell, todo,
                     host, code, signalled, early>>
  BY DEF IInv, Fork, At, redisVars, shellVars
<1>1. Cardinality(others) \in Nat
  BY Numbers, FS_Subset, FS_CardinalityType
<1>2. /\ watchdog' \in [Rooms -> WatchdogPc] /\ watchdog'[r] = "register"
      /\ \A q \in Rooms \ {r} : watchdog'[q] = watchdog[q]
  BY <1>0, WatchdogType DEF WatchdogPc
<1>3. /\ pid' \in [Rooms -> Nat] /\ pid'[r] # NoPid /\ active[r] = NoPid
      /\ \A q \in Rooms \ {r} : pid'[q] = pid[q]
  <2>1. pid[r] = NoPid /\ active[r] = NoPid
    BY <1>0 DEF IInv, Parts, NotStarted, TypeOK
  <2>2. pid \in [Rooms -> Nat]
    BY <1>0 DEF TypeOK
  <2> QED BY <1>0, <1>1, <2>1, <2>2, Numbers
<1>4. /\ server' \in [Rooms -> {"none", "starting", "up", "thrown", "closing", "exited"}]
      /\ server'[r] = "starting" /\ \A q \in Rooms \ {r} : server'[q] = server[q]
  BY <1>0 DEF TypeOK
<1>5. HasRoom' /\ TakenOnce' /\ (Interrupted' <=> Interrupted)
  BY <1>0, <1>2, RoomFrame
<1>6. TypeOK'
  BY <1>0, <1>2, <1>3, <1>4, Numbers DEF TypeOK
<1>7. NotStarted' /\ OverIsGone' /\ Removed' /\ NoStaleRoom'
  BY <1>0, <1>2, <1>3, <1>4
     DEF IInv, Parts, NotStarted, OverIsGone, Over, Gone, Removed, NoStaleRoom, At
<1>8. RunningIsRegistered' /\ Announced' /\ FirstAndLast'
  BY <1>0, <1>2, <1>3, <1>4, <1>5
     DEF IInv, RunningIsRegistered, Announced, FirstAndLast, At, Gone
<1> QED BY <1>5, <1>6, <1>7, <1>8 DEF IInv, Parts

(* What is entered in gf.active is the number of the room's server.        *)
LEMMA RegisterStep == ASSUME NEW r \in Rooms, IInv, Register(r) PROVE IInv'
<1>0. /\ watchdog[r] = "register" /\ Goto(r, "map") /\ TypeOK
      /\ UNCHANGED <<spawn, requested, workerMap, published, shell, todo,
                     host, pid, server, code, signalled, early>>
      /\ \/ active' = [active EXCEPT ![r] = pid[r]] /\ UNCHANGED faults
         \/ Lost /\ UNCHANGED active
  BY DEF IInv, Register, At, shellVars, serverVars, Stored
<1>1. /\ watchdog' \in [Rooms -> WatchdogPc] /\ watchdog'[r] = "map"
      /\ \A q \in Rooms \ {r} : watchdog'[q] = watchdog[q]
  BY <1>0, WatchdogType DEF WatchdogPc
<1>2. /\ faults' \in 0..MaxFaults /\ (faults' = 0 => faults = 0 /\ active'[r] = pid[r])
      /\ active' \in [Rooms -> Nat] /\ active'[r] \in {active[r], pid[r]}
      /\ \A q \in Rooms \ {r} : active'[q] = active[q]
  <2>1. /\ faults \in 0..MaxFaults /\ active \in [Rooms -> Nat] /\ pid \in [Rooms -> Nat]
    BY <1>0 DEF TypeOK
  <2>2. CASE active' = [active EXCEPT ![r] = pid[r]] /\ UNCHANGED faults
    BY <2>1, <2>2
  <2>3. CASE Lost /\ UNCHANGED active
    BY <2>1, <2>3, Numbers DEF Lost
  <2> QED BY <1>0, <2>2, <2>3
<1>3. HasRoom' /\ TakenOnce' /\ (Interrupted' <=> Interrupted)
  BY <1>0, <1>1, RoomFrame
<1>4. TypeOK'
  BY <1>0, <1>1, <1>2 DEF TypeOK
<1>5. NotStarted' /\ OverIsGone' /\ Removed' /\ NoStaleRoom'
  BY <1>0, <1>1, <1>2
     DEF IInv, Parts, NotStarted, OverIsGone, Over, Gone, Removed, NoStaleRoom, At
<1>6. RunningIsRegistered' /\ Announced' /\ FirstAndLast'
  BY <1>0, <1>1, <1>2, <1>3
     DEF IInv, RunningIsRegistered, Announced, FirstAndLast, At, Gone
<1> QED BY <1>3, <1>4, <1>5, <1>6 DEF IInv, Parts

(* What is entered in gf.worker_map is the host of the room.               *)
LEMMA MapWorkerStep == ASSUME NEW r \in Rooms, IInv, MapWorker(r) PROVE IInv'
<1>0. /\ watchdog[r] = "map" /\ Goto(r, "announce") /\ TypeOK
      /\ UNCHANGED <<spawn, requested, active, published, shell, todo, host, pid,
                     server, code, signalled, early>>
      /\ \/ workerMap' = [workerMap EXCEPT ![r] = host[r]] /\ UNCHANGED faults
         \/ Lost /\ UNCHANGED workerMap
  BY DEF IInv, MapWorker, At, redisVars, shellVars, serverVars, Stored
<1>1. /\ watchdog' \in [Rooms -> WatchdogPc] /\ watchdog'[r] = "announce"
      /\ \A q \in Rooms \ {r} : watchdog'[q] = watchdog[q]
  BY <1>0, WatchdogType DEF WatchdogPc
<1>2. /\ faults' \in 0..MaxFaults /\ (faults' = 0 => faults = 0 /\ workerMap'[r] = host[r])
      /\ workerMap' \in [Rooms -> (Workers \cup {NoWorker})] /\ workerMap'[r] \in {workerMap[r], host[r]}
      /\ \A q \in Rooms \ {r} : workerMap'[q] = workerMap[q]
  <2>1. faults \in 0..MaxFaults /\ workerMap \in [Rooms -> (Workers \cup {NoWorker})] /\ host[r] \in (Workers \cup {NoWorker})
    BY <1>0, Numbers DEF TypeOK
  <2>2. CASE workerMap' = [workerMap EXCEPT ![r] = host[r]] /\ UNCHANGED faults
    BY <2>1, <2>2
  <2>3. CASE Lost /\ UNCHANGED workerMap
    BY <2>1, <2>3, Numbers DEF Lost
  <2> QED BY <1>0, <2>2, <2>3
<1>3. HasRoom' /\ TakenOnce' /\ (Interrupted' <=> Interrupted)
  BY <1>0, <1>1, RoomFrame
<1>4. TypeOK'
  BY <1>0, <1>1, <1>2 DEF TypeOK
<1>5. NotStarted' /\ OverIsGone' /\ Removed' /\ NoStaleRoom'
  BY <1>0, <1>1, <1>2
     DEF IInv, Parts, NotStarted, OverIsGone, Over, Gone, Removed, NoStaleRoom, At
<1>6. RunningIsRegistered' /\ Announced' /\ FirstAndLast'
  BY <1>0, <1>1, <1>2, <1>3
     DEF IInv, RunningIsRegistered, Announced, FirstAndLast, At, Gone
<1> QED BY <1>3, <1>4, <1>5, <1>6 DEF IInv, Parts

(* After the announcement something has been said about the room.          *)
LEMMA AnnounceStep == ASSUME NEW r \in Rooms, IInv, Announce(r) PROVE IInv'
<1>0. /\ watchdog[r] = "announce" /\ Goto(r, "grace") /\ TypeOK
      /\ UNCHANGED <<spawn, requested, active, workerMap, shell, todo, host, pid,
                     server, code, signalled, early>>
      /\ (Said(r, "ready") /\ UNCHANGED faults) \/ (Lost /\ UNCHANGED published)
  BY DEF IInv, Announce, At, redisVars, shellVars, serverVars, Stored
<1>1. /\ watchdog' \in [Rooms -> WatchdogPc] /\ watchdog'[r] = "grace"
      /\ \A q \in Rooms \ {r} : watchdog'[q] = watchdog[q]
  BY <1>0, WatchdogType DEF WatchdogPc
<1>2. /\ faults' \in 0..MaxFaults
      /\ published' \in [Rooms -> Seq(Verdict \cup {"ready"})]
      /\ \A q \in Rooms \ {r} : published'[q] = published[q]
      /\ faults' = 0 => /\ faults = 0 /\ published'[r] # <<>>
                        /\ published'[r][Len(published'[r])] = "ready"
                        /\ published[r] = <<>> => published'[r][1] = "ready"
                        /\ published[r] # <<>> => published'[r][1] = published[r][1]
  <2>1. faults \in 0..MaxFaults /\ published \in [Rooms -> Seq(Verdict \cup {"ready"})]
    BY <1>0 DEF TypeOK
  <2>2. CASE Said(r, "ready") /\ UNCHANGED faults
    BY <1>0, <2>1, <2>2, SaidOf DEF Verdict
  <2>3. CASE Lost /\ UNCHANGED published
    BY <2>1, <2>3, Numbers DEF Lost
  <2> QED BY <1>0, <2>2, <2>3
<1>3. HasRoom' /\ TakenOnce' /\ (Interrupted' <=> Interrupted)
  BY <1>0, <1>1, RoomFrame
<1>4. TypeOK'
  BY <1>0, <1>1, <1>2 DEF TypeOK
<1>5. NotStarted' /\ OverIsGone' /\ Removed' /\ NoStaleRoom'
  BY <1>0, <1>1, <1>2
     DEF IInv, Parts, NotStarted, OverIsGone, Over, Gone, Removed, NoStaleRoom, At
<1>6. RunningIsRegistered' /\ Announced'
  BY <1>0, <1>1, <1>2, <1>3
     DEF IInv, Parts, OverIsGone, Over, RunningIsRegistered, Announced, At, Gone
<1>8. FirstAndLast'
  <2> SUFFICES ASSUME faults' = 0, ~Interrupted', NEW q \in Rooms
               PROVE  /\ published'[q] # <<>> => published'[q][1] = "ready"
                      /\ At(q, "done")' /\ code'[q] = 0 =>
                           Gone(q)' /\ published'[q][Len(published'[q])] \in Verdict
    BY DEF FirstAndLast
  <2>1. /\ published[q] # <<>> => published[q][1] = "ready"
        /\ watchdog[q] = "done" /\ code[q] = 0 =>
             Gone(q) /\ published[q][Len(published[q])] \in Verdict
    BY <1>0, <1>1, <1>2, <1>3 DEF IInv, FirstAndLast, At
  <2>2. CASE q # r
    BY <1>0, <1>1, <1>2, <1>3, <2>1, <2>2 DEF At, Gone
  <2>3. CASE q = r
    BY <1>0, <1>1, <1>2, <1>3, <2>1, <2>3 DEF IInv, Parts, OverIsGone, Over, Announced, At, Gone
  <2> QED BY <2>2, <2>3
<1> QED BY <1>3, <1>4, <1>5, <1>6, <1>8 DEF IInv, Parts

(* The watchdog stops watching a server that is gone.                      *)
LEMMA NoticeExitStep == ASSUME NEW r \in Rooms, IInv, NoticeExit(r) PROVE IInv'
<1>0. /\ watchdog[r] = "watch" /\ Gone(r) /\ Goto(r, "wait") /\ TypeOK
      /\ UNCHANGED <<spawn, requested, active, workerMap, published, faults, shell, todo,
                     host, pid, server, code, signalled, early>>
  BY DEF IInv, NoticeExit, At, redisVars, shellVars, serverVars, Stored
<1>1. /\ watchdog' \in [Rooms -> WatchdogPc] /\ watchdog'[r] = "wait"
      /\ \A q \in Rooms \ {r} : watchdog'[q] = watchdog[q]
  BY <1>0, WatchdogType DEF WatchdogPc
<1>3. HasRoom' /\ TakenOnce' /\ (Interrupted' <=> Interrupted)
  BY <1>0, <1>1, RoomFrame
<1>4. TypeOK'
  BY <1>0, <1>1 DEF TypeOK
<1>5. NotStarted' /\ OverIsGone' /\ Removed' /\ NoStaleRoom'
  BY <1>0, <1>1
     DEF IInv, Parts, NotStarted, OverIsGone, Over, Gone, Removed, NoStaleRoom, At
<1>6. RunningIsRegistered' /\ Announced' /\ FirstAndLast'
  BY <1>0, <1>1, <1>3
     DEF IInv, RunningIsRegistered, Announced, FirstAndLast, At, Gone
<1> QED BY <1>3, <1>4, <1>5, <1>6 DEF IInv, Parts

(* The early way is taken only when the server is gone.                    *)
LEMMA EndGraceStep == ASSUME NEW r \in Rooms, IInv, EndGrace(r) PROVE IInv'
<1> DEFINE next == IF Gone(r) THEN "unregister_early" ELSE "watch"
<1>0. /\ watchdog[r] = "grace" /\ Goto(r, next) /\ TypeOK
      /\ UNCHANGED <<spawn, requested, active, workerMap, published, faults, shell, todo,
                     host, pid, server, code, signalled, early>>
  BY DEF IInv, EndGrace, At, redisVars, shellVars, serverVars
<1>1. /\ watchdog' \in [Rooms -> WatchdogPc] /\ watchdog'[r] \in {"unregister_early", "watch"}
      /\ watchdog'[r] = "unregister_early" => Gone(r)
      /\ \A q \in Rooms \ {r} : watchdog'[q] = watchdog[q]
  <2>1. next \in WatchdogPc
    BY DEF WatchdogPc
  <2> QED BY <1>0, <2>1, WatchdogType
<1>3. HasRoom' /\ TakenOnce' /\ (Interrupted' <=> Interrupted)
  BY <1>0, <1>1, RoomFrame
<1>4. TypeOK'
  BY <1>0, <1>1 DEF TypeOK
<1>5. NotStarted' /\ OverIsGone' /\ Removed' /\ NoStaleRoom'
  BY <1>0, <1>1
     DEF IInv, Parts, NotStarted, OverIsGone, Over, Gone, Removed, NoStaleRoom, At
<1>6. RunningIsRegistered' /\ Announced' /\ FirstAndLast'
  BY <1>0, <1>1, <1>3
     DEF IInv, RunningIsRegistered, Announced, FirstAndLast, At, Gone
<1> QED BY <1>3, <1>4, <1>5, <1>6 DEF IInv, Parts

(* Only a server that has exited with 0 is unregistered after wait.        *)
LEMMA WaitStep == ASSUME NEW r \in Rooms, IInv, Wait(r) PROVE IInv'
<1> DEFINE next == IF code[r] = 0 THEN "unregister" ELSE "done"
<1>0. /\ watchdog[r] = "wait" /\ Goto(r, next) /\ TypeOK
      /\ UNCHANGED <<spawn, requested, active, workerMap, published, faults, shell, todo,
                     host, pid, server, code, signalled, early>>
  BY DEF IInv, Wait, At, redisVars, shellVars, serverVars
<1>1. /\ watchdog' \in [Rooms -> WatchdogPc] /\ watchdog'[r] \in {"unregister", "done"}
      /\ watchdog'[r] = "done" => code[r] # 0
      /\ \A q \in Rooms \ {r} : watchdog'[q] = watchdog[q]
  <2>1. next \in WatchdogPc
    BY DEF WatchdogPc
  <2> QED BY <1>0, <2>1, WatchdogType
<1>3. HasRoom' /\ TakenOnce' /\ (Interrupted' <=> Interrupted)
  BY <1>0, <1>1, RoomFrame
<1>4. TypeOK'
  BY <1>0, <1>1 DEF TypeOK
<1>5. NotStarted' /\ OverIsGone' /\ Removed' /\ NoStaleRoom'
  BY <1>0, <1>1
     DEF IInv, Parts, NotStarted, OverIsGone, Over, Gone, Removed, NoStaleRoom, At
<1>6. RunningIsRegistered' /\ Announced' /\ FirstAndLast'
  BY <1>0, <1>1, <1>3
     DEF IInv, RunningIsRegistered, Announced, FirstAndLast, At, Gone
<1> QED BY <1>3, <1>4, <1>5, <1>6 DEF IInv, Parts

(* gf.active forgets the room, or the call is lost.                        *)
LEMMA UnregisterStep == ASSUME NEW r \in Rooms, IInv, Unregister(r) PROVE IInv'
<1>0. /\ \/ watchdog[r] = "unregister" /\ Goto(r, "unmap")
         \/ watchdog[r] = "unregister_early" /\ Goto(r, "unmap_early")
      /\ TypeOK
      /\ UNCHANGED <<spawn, requested, workerMap, published, shell, todo, host, pid,
                     server, code, signalled, early>>
      /\ \/ active' = [active EXCEPT ![r] = NoPid] /\ UNCHANGED faults
         \/ Lost /\ UNCHANGED active
  BY DEF IInv, Unregister, At, shellVars, serverVars, Stored, Unregistered
<1>1. /\ watchdog' \in [Rooms -> WatchdogPc]
      /\ \/ watchdog[r] = "unregister" /\ watchdog'[r] = "unmap"
         \/ watchdog[r] = "unregister_early" /\ watchdog'[r] = "unmap_early"
      /\ \A q \in Rooms \ {r} : watchdog'[q] = watchdog[q]
  <2>1. "unmap" \in WatchdogPc /\ "unmap_early" \in WatchdogPc
    BY DEF WatchdogPc
  <2> QED BY <1>0, <2>1, WatchdogType
<1>2. /\ faults' \in 0..MaxFaults /\ (faults' = 0 => faults = 0 /\ active'[r] = NoPid)
      /\ active' \in [Rooms -> Nat] /\ active'[r] \in {active[r], NoPid}
      /\ \A q \in Rooms \ {r} : active'[q] = active[q]
  <2>1. faults \in 0..MaxFaults /\ active \in [Rooms -> Nat] /\ NoPid \in Nat
    BY <1>0, Numbers DEF TypeOK
  <2>2. CASE active' = [active EXCEPT ![r] = NoPid] /\ UNCHANGED faults
    BY <2>1, <2>2
  <2>3. CASE Lost /\ UNCHANGED active
    BY <2>1, <2>3, Numbers DEF Lost
  <2> QED BY <1>0, <2>2, <2>3
<1>3. HasRoom' /\ TakenOnce' /\ (Interrupted' <=> Interrupted)
  BY <1>0, <1>1, RoomFrame
<1>4. TypeOK'
  BY <1>0, <1>1, <1>2 DEF TypeOK
<1>5. NotStarted' /\ OverIsGone' /\ Removed' /\ NoStaleRoom'
  BY <1>0, <1>1, <1>2
     DEF IInv, Parts, NotStarted, OverIsGone, Over, Gone, Removed, NoStaleRoom, At
<1>6. RunningIsRegistered' /\ Announced' /\ FirstAndLast'
  BY <1>0, <1>1, <1>2, <1>3
     DEF IInv, Parts, OverIsGone, Over, RunningIsRegistered, Announced, FirstAndLast, At, Gone
<1> QED BY <1>3, <1>4, <1>5, <1>6 DEF IInv, Parts

(* gf.worker_map forgets the room too, or the call is lost.                *)
LEMMA UnmapStep == ASSUME NEW r \in Rooms, IInv, Unmap(r) PROVE IInv'
<1>0. /\ \/ watchdog[r] = "unmap" /\ Goto(r, "report")
         \/ watchdog[r] = "unmap_early" /\ Goto(r, "report_early")
      /\ TypeOK
      /\ UNCHANGED <<spawn, requested, active, published, shell, todo, host, pid,
                     server, code, signalled, early>>
      /\ \/ workerMap' = [workerMap EXCEPT ![r] = NoWorker] /\ UNCHANGED faults
         \/ Lost /\ UNCHANGED workerMap
  BY DEF IInv, Unmap, At, shellVars, serverVars, Stored
<1>1. /\ watchdog' \in [Rooms -> WatchdogPc]
      /\ \/ watchdog[r] = "unmap" /\ watchdog'[r] = "report"
         \/ watchdog[r] = "unmap_early" /\ watchdog'[r] = "report_early"
      /\ \A q \in Rooms \ {r} : watchdog'[q] = watchdog[q]
  <2>1. "report" \in WatchdogPc /\ "report_early" \in WatchdogPc
    BY DEF WatchdogPc
  <2> QED BY <1>0, <2>1, WatchdogType
<1>2. /\ faults' \in 0..MaxFaults /\ (faults' = 0 => faults = 0 /\ workerMap'[r] = NoWorker)
      /\ workerMap' \in [Rooms -> (Workers \cup {NoWorker})] /\ workerMap'[r] \in {workerMap[r], NoWorker}
      /\ \A q \in Rooms \ {r} : workerMap'[q] = workerMap[q]
  <2>1. faults \in 0..MaxFaults /\ workerMap \in [Rooms -> (Workers \cup {NoWorker})] /\ NoWorker \in (Workers \cup {NoWorker})
    BY <1>0, Numbers DEF TypeOK
  <2>2. CASE workerMap' = [workerMap EXCEPT ![r] = NoWorker] /\ UNCHANGED faults
    BY <2>1, <2>2
  <2>3. CASE Lost /\ UNCHANGED workerMap
    BY <2>1, <2>3, Numbers DEF Lost
  <2> QED BY <1>0, <2>2, <2>3
<1>3. HasRoom' /\ TakenOnce' /\ (Interrupted' <=> Interrupted)
  BY <1>0, <1>1, RoomFrame
<1>4. TypeOK'
  BY <1>0, <1>1, <1>2 DEF TypeOK
<1>5. NotStarted' /\ OverIsGone' /\ Removed' /\ NoStaleRoom'
  BY <1>0, <1>1, <1>2
     DEF IInv, Parts, NotStarted, OverIsGone, Over, Gone, Removed, NoStaleRoom, At
<1>6. RunningIsRegistered' /\ Announced' /\ FirstAndLast'
  BY <1>0, <1>1, <1>2, <1>3
     DEF IInv, Parts, OverIsGone, Over, RunningIsRegistered, Announced, FirstAndLast, At, Gone
<1> QED BY <1>3, <1>4, <1>5, <1>6 DEF IInv, Parts

(* With both entries removed the verdict makes the room done.              *)
LEMMA ReportStep == ASSUME NEW r \in Rooms, IInv, Report(r) PROVE IInv'
<1>0. /\ watchdog[r] \in {"report", "report_early"} /\ Goto(r, "done") /\ TypeOK
      /\ UNCHANGED <<spawn, requested, active, workerMap, shell, todo, host, pid,
                     server, code, signalled, early>>
  BY DEF IInv, Report, At, shellVars, serverVars
<1>1. /\ watchdog' \in [Rooms -> WatchdogPc] /\ watchdog'[r] = "done"
      /\ \A q \in Rooms \ {r} : watchdog'[q] = watchdog[q]
  BY <1>0, WatchdogType DEF WatchdogPc
<1>2. PICK what \in Verdict : \/ Said(r, what) /\ UNCHANGED faults
                              \/ Lost /\ UNCHANGED published
  BY DEF Report, Stored, Verdict
<1>7. /\ faults' \in 0..MaxFaults
      /\ published' \in [Rooms -> Seq(Verdict \cup {"ready"})]
      /\ \A q \in Rooms \ {r} : published'[q] = published[q]
      /\ faults' = 0 => /\ faults = 0 /\ published'[r] # <<>>
                        /\ published'[r][Len(published'[r])] = what
                        /\ published[r] # <<>> => published'[r][1] = published[r][1]
  <2>1. faults \in 0..MaxFaults /\ published \in [Rooms -> Seq(Verdict \cup {"ready"})]
    BY <1>0 DEF TypeOK
  <2>2. CASE Said(r, what) /\ UNCHANGED faults
    BY <1>0, <2>1, <2>2, SaidOf
  <2>3. CASE Lost /\ UNCHANGED published
    BY <2>1, <2>3, Numbers DEF Lost
  <2> QED BY <1>2, <2>2, <2>3
<1>3. HasRoom' /\ TakenOnce' /\ (Interrupted' <=> Interrupted)
  BY <1>0, <1>1, RoomFrame
<1>4. TypeOK'
  BY <1>0, <1>1, <1>7 DEF TypeOK
<1>5. NotStarted' /\ OverIsGone' /\ Removed' /\ NoStaleRoom'
  BY <1>0, <1>1, <1>7
     DEF IInv, Parts, NotStarted, OverIsGone, Over, Gone, Removed, NoStaleRoom, At
<1>6. RunningIsRegistered' /\ Announced'
  BY <1>0, <1>1, <1>2, <1>3, <1>7
     DEF IInv, Parts, OverIsGone, Over, RunningIsRegistered, Announced, At, Gone
<1>8. FirstAndLast'
  <2> SUFFICES ASSUME faults' = 0, ~Interrupted', NEW q \in Rooms
               PROVE  /\ published'[q] # <<>> => published'[q][1] = "ready"
                      /\ At(q, "done")' /\ code'[q] = 0 =>
                           Gone(q)' /\ published'[q][Len(published'[q])] \in Verdict
    BY DEF FirstAndLast
  <2>1. /\ published[q] # <<>> => published[q][1] = "ready"
        /\ watchdog[q] = "done" /\ code[q] = 0 =>
             Gone(q) /\ published[q][Len(published[q])] \in Verdict
    BY <1>0, <1>1, <1>2, <1>3, <1>7 DEF IInv, FirstAndLast, At
  <2>2. CASE q # r
    BY <1>0, <1>1, <1>2, <1>3, <1>7, <2>1, <2>2 DEF At, Gone
  <2>3. CASE q = r
    BY <1>0, <1>1, <1>2, <1>3, <1>7, <2>1, <2>3 DEF IInv, Parts, OverIsGone, Over, Announced, At, Gone
  <2> QED BY <2>2, <2>3
<1> QED BY <1>3, <1>4, <1>5, <1>6, <1>8 DEF IInv, Parts

-----------------------------------------------------------------------------
(* A server says something and goes on; its room's watchdog cannot be done *)
(* with it.                                                                *)
Running == {"starting", "up", "thrown", "closing"}

(* What a server says about its room keeps the watchdogs' part.            *)
LEMMA ServerSays ==
  ASSUME NEW r \in Rooms, IInv, NEW what \in Verdict \cup {"ready"}, NEW next \in Running,
         server[r] \in Running, next # "starting",
         server[r] = "starting" => what = "ready",
         server' = [server EXCEPT ![r] = next],
         (Said(r, what) /\ UNCHANGED faults) \/ (Lost /\ UNCHANGED published),
         UNCHANGED <<spawn, requested, active, workerMap, shell, todo, watchdog,
                     host, pid, code, signalled, early>>
  PROVE  IInv'
<1>0. TypeOK
  BY DEF IInv
<1>1. /\ server' \in [Rooms -> {"none", "starting", "up", "thrown", "closing", "exited"}]
      /\ server'[r] = next /\ \A q \in Rooms \ {r} : server'[q] = server[q]
  BY <1>0 DEF TypeOK, Running
<1>2. /\ faults' \in 0..MaxFaults
      /\ published' \in [Rooms -> Seq(Verdict \cup {"ready"})]
      /\ \A q \in Rooms \ {r} : published'[q] = published[q]
      /\ faults' = 0 => /\ faults = 0 /\ published'[r] # <<>>
                        /\ published[r] = <<>> => published'[r][1] = what
                        /\ published[r] # <<>> => published'[r][1] = published[r][1]
  <2>1. faults \in 0..MaxFaults /\ published \in [Rooms -> Seq(Verdict \cup {"ready"})]
    BY <1>0 DEF TypeOK
  <2>2. CASE Said(r, what) /\ UNCHANGED faults
    BY <1>0, <2>1, <2>2, SaidOf
  <2>3. CASE Lost /\ UNCHANGED published
    BY <2>1, <2>3, Numbers DEF Lost
  <2> QED BY <2>2, <2>3
<1>3. HasRoom' /\ TakenOnce' /\ (Interrupted' <=> Interrupted)
  BY RoomFrame
<1>4. TypeOK'
  BY <1>0, <1>1, <1>2 DEF TypeOK, Running
<1>5. NotStarted' /\ OverIsGone' /\ Removed' /\ NoStaleRoom'
  BY <1>0, <1>1, <1>2
     DEF IInv, Parts, Running, NotStarted, OverIsGone, Over, Gone, Removed, NoStaleRoom, At
<1>6. RunningIsRegistered' /\ Announced'
  BY <1>0, <1>1, <1>2, <1>3
     DEF IInv, Running, RunningIsRegistered, Announced, At
<1>7. FirstAndLast'
  <2> SUFFICES ASSUME faults' = 0, ~Interrupted', NEW q \in Rooms
               PROVE  /\ published'[q] # <<>> => published'[q][1] = "ready"
                      /\ At(q, "done")' /\ code'[q] = 0 =>
                           Gone(q)' /\ published'[q][Len(published'[q])] \in Verdict
    BY DEF FirstAndLast
  <2>1. /\ published[q] # <<>> => published[q][1] = "ready"
        /\ watchdog[q] = "done" /\ code[q] = 0 =>
             Gone(q) /\ published[q][Len(published[q])] \in Verdict
    BY <1>2, <1>3 DEF IInv, FirstAndLast, At
  <2>2. CASE q # r
    BY <1>1, <1>2, <2>1, <2>2 DEF At, Gone
  <2>3. CASE q = r
    <3>1. watchdog[r] # "done"
      BY DEF IInv, Parts, OverIsGone, Over, Gone, Running
    <3>2. published[r] = <<>> => server[r] = "starting"
      BY <1>2, <1>3 DEF IInv, Announced, Running
    <3> QED BY <1>2, <2>1, <2>3, <3>1, <3>2 DEF At
  <2> QED BY <2>2, <2>3
<1> QED BY <1>3, <1>4, <1>5, <1>6, <1>7 DEF IInv, Parts

(* A server that comes up says so.                                         *)
LEMMA ServerReadyStep == ASSUME NEW r \in Rooms, IInv, ServerReady(r) PROVE IInv'
  BY ServerSays DEF ServerReady, Running, Verdict, shellVars, Stored

(* A server whose engine throws has been up.                               *)
LEMMA ServerThrowsStep == ASSUME NEW r \in Rooms, IInv, ServerThrows(r) PROVE IInv'
  BY ServerSays DEF ServerThrows, Running, Verdict, shellVars, Stored

(* A server that finishes has been up or has thrown.                       *)
LEMMA ServerFinishesStep == ASSUME NEW r \in Rooms, IInv, ServerFinishes(r) PROVE IInv'
  BY ServerSays DEF ServerFinishes, Running, Verdict, shellVars, Stored

(* However a server ends, it is for its watchdog to notice.                *)
LEMMA ServerEnds ==
  ASSUME NEW r \in Rooms, IInv, server[r] \in Running, InTime(r),
         server' = [server EXCEPT ![r] = "exited"],
         code' = code \/ code' = [code EXCEPT ![r] = 1],
         UNCHANGED <<spawn, requested, active, workerMap, published, faults, shell, todo,
                     watchdog, host, pid, signalled>>
  PROVE  IInv'
<1>0. TypeOK
  BY DEF IInv
<1>1. /\ server' \in [Rooms -> {"none", "starting", "up", "thrown", "closing", "exited"}]
      /\ server'[r] = "exited" /\ \A q \in Rooms \ {r} : server'[q] = server[q]
  BY <1>0 DEF TypeOK
<1>2. /\ code' \in [Rooms -> {0, 1}] /\ \A q \in Rooms : code'[q] = 0 => code[q] = 0
      /\ early' \in 0..MaxEarlyExits
  <2>1. code \in [Rooms -> {0, 1}] /\ early \in 0..MaxEarlyExits
    BY <1>0 DEF TypeOK
  <2>2. early' \in 0..MaxEarlyExits
    BY <2>1, Numbers DEF InTime
  <2> QED BY <2>1, <2>2
<1>3. HasRoom' /\ TakenOnce' /\ (Interrupted' <=> Interrupted)
  BY RoomFrame
<1>7. pid[r] # NoPid /\ watchdog[r] \notin Over
  BY <1>0 DEF IInv, Parts, TypeOK, OverIsGone, Gone, Running
<1>4. TypeOK'
  BY <1>0, <1>1, <1>2, <1>7 DEF TypeOK
<1>5. NotStarted' /\ OverIsGone' /\ Removed' /\ NoStaleRoom'
  BY <1>0, <1>1, <1>2, <1>7
     DEF IInv, Parts, Running, NotStarted, OverIsGone, Over, Gone, Removed, NoStaleRoom, At
<1>6. RunningIsRegistered' /\ Announced'
  BY <1>0, <1>1, <1>2, <1>3
     DEF IInv, RunningIsRegistered, Announced, At
<1>8. FirstAndLast'
  BY <1>1, <1>2, <1>3, <1>7 DEF IInv, FirstAndLast, At, Gone, Over
<1> QED BY <1>3, <1>4, <1>5, <1>6, <1>8 DEF IInv, Parts

(* A server exits once it is closing.                                      *)
LEMMA ServerExitsStep == ASSUME NEW r \in Rooms, IInv, ServerExits(r) PROVE IInv'
  BY ServerEnds DEF ServerExits, Running, redisVars, shellVars

(* A server that dies leaves its code.                                     *)
LEMMA ServerDiesStep == ASSUME NEW r \in Rooms, IInv, ServerDies(r) PROVE IInv'
<1>1. server[r] \in Running
  BY DEF ServerDies, IInv, TypeOK, Running
<1> QED BY <1>1, ServerEnds DEF ServerDies, redisVars, shellVars

-----------------------------------------------------------------------------
(* The shells.  The poll loop does not touch a room that has been started. *)
LEMMA RequestStep == ASSUME NEW r \in Rooms, IInv, Request(r) PROVE IInv'
<1>0. /\ r \notin requested /\ requested' = requested \cup {r} /\ spawn' = Append(spawn, r)
      /\ spawn \in Seq(Rooms) /\ TypeOK
      /\ UNCHANGED <<active, workerMap, published, faults, shell, todo, watchdog,
                     host, pid, server, code, signalled, early>>
  BY DEF IInv, TypeOK, Request, shellVars, serverVars
<1>1. /\ spawn' \in Seq(Rooms) /\ Len(spawn) \in Nat /\ Len(spawn') = Len(spawn) + 1
      /\ spawn'[Len(spawn) + 1] = r /\ \A i \in 1..Len(spawn) : spawn'[i] = spawn[i]
  BY <1>0, Appended
<1>2. TypeOK'
  BY <1>0, <1>1 DEF TypeOK
<1>3. \A q \in Rooms : Queued(q)' <=> Queued(q) \/ q = r
  BY <1>1 DEF Queued
<1>4. ~Queued(r) /\ watchdog[r] = "none" /\ \A w \in Workers : ~Popped(w, r)
  BY <1>0 DEF IInv, Parts, TakenOnce
<1>5. TakenOnce'
  <2>1. \A i, j \in 1..Len(spawn') : i # j => spawn'[i] # spawn'[j]
    BY <1>1, <1>4 DEF IInv, Parts, TakenOnce, Queued
  <2>2. \A w \in Workers, q \in Rooms : Popped(w, q)' <=> Popped(w, q)
    BY <1>0 DEF Popped
  <2> QED BY <1>0, <1>3, <1>4, <2>1, <2>2 DEF IInv, Parts, TakenOnce
<1>6. HasRoom' /\ NotStarted' /\ OverIsGone' /\ Removed' /\ NoStaleRoom'
  BY <1>0 DEF IInv, Parts, HasRoom, Busy, NotStarted, OverIsGone, Gone, Removed, NoStaleRoom, At
<1>7. RunningIsRegistered' /\ Announced' /\ FirstAndLast'
  BY <1>0 DEF IInv, RunningIsRegistered, Announced, FirstAndLast, At, Gone, Interrupted
<1> QED BY <1>2, <1>5, <1>6, <1>7 DEF IInv, Parts

(* A room taken from the queue leaves it.                                  *)
LEMMA PopStep == ASSUME NEW w \in Workers, IInv, Pop(w) PROVE IInv'
<1> DEFINE r == Head(spawn)
<1>0. /\ shell[w].at = "poll" /\ spawn # <<>> /\ spawn \in Seq(Rooms) /\ TypeOK
      /\ shell' = [shell EXCEPT ![w] = [at |-> "popped", room |-> r]]
      /\ spawn' = Tail(spawn)
      /\ UNCHANGED <<requested, active, workerMap, published, faults, todo, watchdog,
                     host, pid, server, code, signalled, early>>
  BY DEF IInv, TypeOK, Pop, serverVars
<1>1. /\ r \in Rooms /\ r = spawn[1] /\ spawn' \in Seq(Rooms) /\ Len(spawn) \in Nat \ {0}
      /\ Len(spawn') = Len(spawn) - 1 /\ \A i \in 1..Len(spawn') : spawn'[i] = spawn[i + 1]
  BY <1>0
<1>2. /\ shell'[w].at = "popped" /\ shell'[w].room = r
      /\ \A v \in Workers \ {w} : shell'[v] = shell[v]
      /\ shell' \in [Workers -> [at : {"poll", "popped", "list", "next", "drop", "tell", "exited"},
                                 room : Rooms \cup {NoRoom}]]
  BY <1>0, <1>1 DEF TypeOK
<1>3. TypeOK'
  BY <1>0, <1>1, <1>2 DEF TypeOK
<1>4. Queued(r) /\ \A q \in Rooms : Queued(q)' => Queued(q) /\ q # r
  BY <1>1 DEF IInv, Parts, TakenOnce, Queued
<1>5. TakenOnce'
  <2>1. \A i, j \in 1..Len(spawn') : i # j => spawn'[i] # spawn'[j]
    BY <1>1 DEF IInv, Parts, TakenOnce
  <2>2. \A v \in Workers, q \in Rooms :
          Popped(v, q)' => (v = w /\ q = r) \/ (v # w /\ q # r /\ Popped(v, q))
    BY <1>2, <1>4 DEF IInv, Parts, TakenOnce, Popped
  <2> QED BY <1>0, <1>1, <1>4, <2>1, <2>2 DEF IInv, Parts, TakenOnce
<1>6. HasRoom'
  BY <1>1, <1>2 DEF IInv, Parts, HasRoom, Busy
<1>7. NotStarted' /\ OverIsGone' /\ Removed' /\ NoStaleRoom'
  BY <1>0 DEF IInv, Parts, NotStarted, OverIsGone, Gone, Removed, NoStaleRoom, At
<1>8. Interrupted => Interrupted'
  BY <1>0, <1>2 DEF Interrupted
<1>9. RunningIsRegistered' /\ Announced' /\ FirstAndLast'
  BY <1>0, <1>8 DEF IInv, RunningIsRegistered, Announced, FirstAndLast, At, Gone
<1> QED BY <1>3, <1>5, <1>6, <1>7, <1>9 DEF IInv, Parts

(* The popped request becomes a watchdog that has not begun.               *)
LEMMA SpawnStep == ASSUME NEW w \in Workers, IInv, Spawn(w) PROVE IInv'
<1> DEFINE r == shell[w].room
<1>0. /\ shell[w].at = "popped" /\ TypeOK
      /\ watchdog' = [watchdog EXCEPT ![r] = "fork"] /\ host' = [host EXCEPT ![r] = w]
      /\ shell' = [shell EXCEPT ![w] = [at |-> "poll", room |-> NoRoom]]
      /\ UNCHANGED <<spawn, requested, active, workerMap, published, faults, todo,
                     pid, server, code, signalled, early>>
  BY DEF IInv, Spawn, redisVars
<1>1. r \in Rooms /\ Popped(w, r) /\ watchdog[r] = "none" /\ host[r] = NoWorker
  BY <1>0 DEF IInv, Parts, HasRoom, Busy, TakenOnce, Popped, NotStarted
<1>2. /\ shell'[w].at = "poll" /\ \A v \in Workers \ {w} : shell'[v] = shell[v]
      /\ shell' \in [Workers -> [at : {"poll", "popped", "list", "next", "drop", "tell", "exited"},
                                 room : Rooms \cup {NoRoom}]]
  BY <1>0 DEF TypeOK
<1>3. /\ watchdog' \in [Rooms -> WatchdogPc] /\ host' \in [Rooms -> Workers \cup {NoWorker}]
      /\ watchdog'[r] = "fork" /\ host'[r] = w
      /\ \A q \in Rooms \ {r} : watchdog'[q] = watchdog[q] /\ host'[q] = host[q]
  BY <1>0, <1>1 DEF TypeOK, WatchdogPc
<1>4. TypeOK'
  BY <1>0, <1>1, <1>2, <1>3 DEF TypeOK
<1>5. TakenOnce'
  <2>1. \A q \in Rooms : Queued(q)' <=> Queued(q)
    BY <1>0 DEF Queued
  <2>2. ~Queued(r) /\ \A v \in Workers, q \in Rooms : Popped(v, q)' => v # w /\ q # r /\ Popped(v, q)
    BY <1>1, <1>2 DEF IInv, Parts, TakenOnce, Popped
  <2> QED BY <1>0, <1>1, <1>3, <2>1, <2>2 DEF IInv, Parts, TakenOnce
<1>6. HasRoom'
  BY <1>2 DEF IInv, Parts, HasRoom, Busy
<1>7. NotStarted' /\ OverIsGone' /\ Removed' /\ NoStaleRoom'
  BY <1>0, <1>1, <1>3
     DEF IInv, Parts, NotStarted, OverIsGone, Over, Gone, Removed, NoStaleRoom, At
<1>8. Interrupted => Interrupted'
  BY <1>0, <1>2 DEF Interrupted
<1>9. RunningIsRegistered' /\ Announced' /\ FirstAndLast'
  BY <1>0, <1>1, <1>3, <1>8
     DEF IInv, Parts, NotStarted, RunningIsRegistered, Announced, FirstAndLast, At, Gone
<1> QED BY <1>4, <1>5, <1>6, <1>7, <1>9 DEF IInv, Parts

(* A clean-up may end registrations and say anything, of any room: what is *)
(* known of rooms whose watchdog is done stays true.                       *)
Shells == [at : {"poll", "popped", "list", "next", "drop", "tell", "exited"},
           room : Rooms \cup {NoRoom}]

(* What a clean-up may do to Redis and the shells keeps the invariant.     *)
LEMMA CleanUpKeeps ==
  ASSUME NEW w \in Workers, IInv,
         shell' \in [Workers -> Shells], \A v \in Workers \ {w} : shell'[v] = shell[v],
         shell'[w].at \notin {"poll", "popped"}, Busy(w)' => shell'[w].room \in Rooms,
         todo' \in [Workers -> SUBSET Rooms],
         faults' \in 0..MaxFaults, faults' = 0 => faults = 0,
         active' \in [Rooms -> Nat], \A q \in Rooms : active'[q] \in {NoPid, active[q]},
         published' \in [Rooms -> Seq(Verdict \cup {"ready"})], signalled' \subseteq Rooms,
         UNCHANGED <<spawn, requested, workerMap, watchdog, host, pid, server, code, early>>
  PROVE  IInv'
<1>1. TypeOK'
  BY DEF IInv, TypeOK, Shells
<1>2. HasRoom'
  BY DEF IInv, Parts, HasRoom, Busy
<1>3. TakenOnce'
  <2>1. \A v \in Workers, q \in Rooms : Popped(v, q)' => Popped(v, q)
    BY DEF Popped
  <2>2. \A q \in Rooms : Queued(q)' <=> Queued(q)
    BY DEF Queued
  <2> QED BY <2>1, <2>2 DEF IInv, Parts, TakenOnce
<1>4. NotStarted' /\ OverIsGone' /\ Removed' /\ NoStaleRoom'
  BY DEF IInv, Parts, NotStarted, OverIsGone, Gone, Removed, NoStaleRoom, At
<1>5. Interrupted'
  BY DEF Interrupted
<1>6. RunningIsRegistered' /\ Announced' /\ FirstAndLast'
  BY <1>5 DEF RunningIsRegistered, Announced, FirstAndLast
<1> QED BY <1>1, <1>2, <1>3, <1>4, <1>6 DEF IInv, Parts

(* A clean-up that moves on leaves the other shells where they are.        *)
LEMMA ShellsType ==
  ASSUME TypeOK, NEW w \in Workers, NEW at \in {"list", "next", "drop", "tell", "exited"},
         NEW room \in Rooms \cup {NoRoom}, Clean(w, at, room)
  PROVE  /\ shell' \in [Workers -> Shells] /\ \A v \in Workers \ {w} : shell'[v] = shell[v]
         /\ shell'[w].at = at /\ shell'[w].room = room
  BY DEF TypeOK, Clean, Shells

(* Lost calls stay within their bound.                                     *)
LEMMA LostType ==
  ASSUME TypeOK, Lost \/ UNCHANGED faults
  PROVE  faults' \in 0..MaxFaults /\ (faults' = 0 => faults = 0)
  BY Numbers DEF TypeOK, Lost

(* A signal only moves the shell.                                          *)
LEMMA InterruptStep == ASSUME NEW w \in Workers, IInv, Interrupt(w) PROVE IInv'
<1>0. TypeOK /\ Clean(w, "list", NoRoom) /\ UNCHANGED <<redisVars, todo, watchdog, serverVars>>
  BY DEF IInv, Interrupt
<1>1. /\ shell' \in [Workers -> Shells] /\ \A v \in Workers \ {w} : shell'[v] = shell[v]
      /\ shell'[w].at = "list"
  BY <1>0, ShellsType
<1> QED BY <1>0, <1>1, CleanUpKeeps DEF TypeOK, redisVars, serverVars, Busy

(* The list is of rooms.                                                   *)
LEMMA ListActiveStep == ASSUME NEW w \in Workers, IInv, ListActive(w) PROVE IInv'
<1>0. /\ TypeOK /\ Clean(w, "next", NoRoom) /\ (Lost \/ UNCHANGED faults)
      /\ UNCHANGED <<spawn, requested, active, workerMap, published, watchdog, serverVars>>
  BY DEF IInv, ListActive, Stored
<1>1. /\ shell' \in [Workers -> Shells] /\ \A v \in Workers \ {w} : shell'[v] = shell[v]
      /\ shell'[w].at = "next"
  BY <1>0, ShellsType
<1>2. todo' \in [Workers -> SUBSET Rooms]
  BY <1>0 DEF TypeOK, ListActive, Stored
<1>3. faults' \in 0..MaxFaults /\ (faults' = 0 => faults = 0)
  BY <1>0, LostType
<1> QED BY <1>0, <1>1, <1>2, <1>3, CleanUpKeeps DEF TypeOK, serverVars, Busy

(* A signal to a server changes neither Redis nor the server yet.          *)
LEMMA KillRoomStep == ASSUME NEW w \in Workers, IInv, KillRoom(w) PROVE IInv'
<1>1. PICK r \in Rooms :
        /\ todo' = [todo EXCEPT ![w] = @ \ {r}]
        /\ \/ UNCHANGED faults /\ Clean(w, "drop", r)
              /\ signalled' = signalled \cup
                   {q \in Rooms : host[q] = w /\ pid[q] = active[r] /\ ~Gone(q)}
           \/ UNCHANGED <<faults, signalled, shell>>
           \/ Lost /\ UNCHANGED <<signalled, shell>>
  <2>1. todo[w] \subseteq Rooms
    BY DEF IInv, TypeOK
  <2> QED BY <2>1 DEF KillRoom
<1>0. /\ TypeOK /\ shell[w].at = "next" /\ (Lost \/ UNCHANGED faults)
      /\ UNCHANGED <<spawn, requested, active, workerMap, published, watchdog,
                     host, pid, server, code, early>>
  BY <1>1 DEF IInv, KillRoom
<1>2. todo' \in [Workers -> SUBSET Rooms] /\ signalled' \subseteq Rooms
  BY <1>0, <1>1 DEF TypeOK
<1>3. faults' \in 0..MaxFaults /\ (faults' = 0 => faults = 0)
  BY <1>0, LostType
<1>4. /\ shell' \in [Workers -> Shells] /\ \A v \in Workers \ {w} : shell'[v] = shell[v]
      /\ shell'[w].at = "next" \/ (shell'[w].at = "drop" /\ shell'[w].room \in Rooms)
  <2>1. CASE Clean(w, "drop", r)
    BY <1>0, <2>1, ShellsType
  <2>2. CASE UNCHANGED shell
    BY <1>0, <2>2 DEF TypeOK, Shells
  <2> QED BY <1>1, <2>1, <2>2
<1> QED BY <1>0, <1>2, <1>3, <1>4, CleanUpKeeps DEF TypeOK, Busy

(* A room may be removed from gf.active at any time.                       *)
LEMMA DropRoomStep == ASSUME NEW w \in Workers, IInv, DropRoom(w) PROVE IInv'
<1> DEFINE r == shell[w].room
<1>0. /\ TypeOK /\ r \in Rooms /\ Clean(w, "tell", r) /\ (Lost \/ UNCHANGED faults)
      /\ (active' = [active EXCEPT ![r] = NoPid] \/ UNCHANGED active)
      /\ UNCHANGED <<spawn, requested, workerMap, published, todo, watchdog, serverVars>>
  BY DEF IInv, Parts, HasRoom, Busy, DropRoom, Stored, Unregistered
<1>1. /\ shell' \in [Workers -> Shells] /\ \A v \in Workers \ {w} : shell'[v] = shell[v]
      /\ shell'[w].at = "tell" /\ shell'[w].room = r
  BY <1>0, ShellsType
<1>2. active' \in [Rooms -> Nat] /\ \A q \in Rooms : active'[q] \in {NoPid, active[q]}
  <2>0. active \in [Rooms -> Nat] /\ NoPid \in Nat
    BY <1>0, Numbers DEF TypeOK
  <2>1. CASE active' = [active EXCEPT ![r] = NoPid]
    BY <1>0, <2>0, <2>1
  <2>2. CASE UNCHANGED active
    BY <2>0, <2>2
  <2> QED BY <1>0, <2>1, <2>2
<1>3. faults' \in 0..MaxFaults /\ (faults' = 0 => faults = 0)
  BY <1>0, LostType
<1> QED BY <1>0, <1>1, <1>2, <1>3, CleanUpKeeps DEF TypeOK, serverVars, Busy

(* Something more is said about the room.                                  *)
LEMMA TellCrashStep == ASSUME NEW w \in Workers, IInv, TellCrash(w) PROVE IInv'
<1> DEFINE r == shell[w].room
<1>0. /\ TypeOK /\ r \in Rooms /\ Clean(w, "next", NoRoom) /\ (Lost \/ UNCHANGED faults)
      /\ (Said(r, "crashed") \/ UNCHANGED published)
      /\ UNCHANGED <<spawn, requested, active, workerMap, todo, watchdog, serverVars>>
  BY DEF IInv, Parts, HasRoom, Busy, TellCrash, Stored
<1>1. /\ shell' \in [Workers -> Shells] /\ \A v \in Workers \ {w} : shell'[v] = shell[v]
      /\ shell'[w].at = "next"
  BY <1>0, ShellsType
<1>2. published' \in [Rooms -> Seq(Verdict \cup {"ready"})]
  <2>1. CASE Said(r, "crashed")
    BY <1>0, <2>1, SaidOf DEF Verdict
  <2>2. CASE UNCHANGED published
    BY <1>0, <2>2 DEF TypeOK
  <2> QED BY <1>0, <2>1, <2>2
<1>3. faults' \in 0..MaxFaults /\ (faults' = 0 => faults = 0)
  BY <1>0, LostType
<1> QED BY <1>0, <1>1, <1>2, <1>3, CleanUpKeeps DEF TypeOK, serverVars, Busy

(* The shell that has done its list exits.                                 *)
LEMMA LeaveStep == ASSUME NEW w \in Workers, IInv, Leave(w) PROVE IInv'
<1>0. TypeOK /\ Clean(w, "exited", NoRoom) /\ UNCHANGED <<redisVars, todo, watchdog, serverVars>>
  BY DEF IInv, Leave
<1>1. /\ shell' \in [Workers -> Shells] /\ \A v \in Workers \ {w} : shell'[v] = shell[v]
      /\ shell'[w].at = "exited"
  BY <1>0, ShellsType
<1> QED BY <1>0, <1>1, CleanUpKeeps DEF TypeOK, redisVars, serverVars, Busy

-----------------------------------------------------------------------------
(* A step of something else.                                               *)
LEMMA StutterStep == ASSUME IInv, UNCHANGED vars PROVE IInv'
<1>0. UNCHANGED <<spawn, requested, active, workerMap, published, faults, shell, todo, watchdog,
                  host, pid, server, code, signalled, early>>
  BY DEF vars, redisVars, shellVars, serverVars
<1>1. TypeOK'
  BY <1>0 DEF IInv, TypeOK
<1>2. HasRoom' /\ TakenOnce' /\ (Interrupted' <=> Interrupted)
  BY <1>0, RoomFrame
<1>3. NotStarted' /\ OverIsGone' /\ Removed' /\ NoStaleRoom'
  BY <1>0 DEF IInv, Parts, NotStarted, OverIsGone, Gone, Removed, NoStaleRoom, At
<1>4. RunningIsRegistered' /\ Announced' /\ FirstAndLast'
  BY <1>0, <1>2 DEF IInv, RunningIsRegistered, Announced, FirstAndLast, At, Gone
<1> QED BY <1>1, <1>2, <1>3, <1>4 DEF IInv, Parts

(* Every step keeps the invariant.                                         *)
LEMMA NextIInv == IInv /\ [Next]_vars => IInv'
<1> SUFFICES ASSUME IInv, [Next]_vars PROVE IInv'
  OBVIOUS
<1>1. ASSUME NEW r \in Rooms, Room(r) PROVE IInv'
  BY <1>1, ForkStep, RegisterStep, MapWorkerStep, AnnounceStep, EndGraceStep, NoticeExitStep,
     WaitStep, UnregisterStep, UnmapStep, ReportStep DEF Room
<1>2. ASSUME NEW r \in Rooms, Server(r) PROVE IInv'
  BY <1>2, ServerReadyStep, ServerThrowsStep, ServerFinishesStep, ServerExitsStep, ServerDiesStep
     DEF Server
<1>3. ASSUME NEW w \in Workers, CleanUp(w) PROVE IInv'
  BY <1>3, ListActiveStep, KillRoomStep, DropRoomStep, TellCrashStep, LeaveStep DEF CleanUp
<1> QED BY <1>1, <1>2, <1>3, StutterStep, RequestStep, PopStep, SpawnStep, InterruptStep DEF Next

(* The inductive invariant holds in every run.                             *)
THEOREM Invariance == Spec => []IInv
  BY InitIInv, NextIInv, PTL DEF Spec

(* Rooms, workers and Redis keep their types; what Redis holds of a room   *)
(* is what its own watchdog wrote, or nothing.                             *)
THEOREM Typed == Spec => []TypeOK
<1>1. IInv => TypeOK
  BY DEF IInv
<1> QED BY Invariance, <1>1, PTL

(* No clean-up, of this or another worker, at whatever moment, leaves a    *)
(* room in Redis whose server has exited with code 0.                      *)
THEOREM NothingStaleIsLeft == Spec => []NoStaleRoom
<1>1. IInv => NoStaleRoom
  BY DEF IInv, Parts
<1> QED BY Invariance, <1>1, PTL

(* Unless somebody cleans up, a server that runs is known to Redis, but    *)
(* between its start and its registration.                                 *)
THEOREM RunningRoomsAreKnown == Spec => []RunningIsRegistered
<1>1. IInv => RunningIsRegistered
  BY DEF IInv
<1> QED BY Invariance, <1>1, PTL

-----------------------------------------------------------------------------
(* The verdict.  A server that ends well has said "finished", after any    *)
(* "crashed" of its own; its watchdog adds one word to that.               *)

EndsWell(r) == server[r] \in {"closing", "exited"} /\ code[r] = 0

OwnWord(r) ==
  \E i \in DOMAIN published[r] :
    /\ published[r][i] = "finished"
    /\ \/ Interrupted
       \/ \A k \in DOMAIN published[r] : published[r][k] = "crashed" => k < i
Judged(r) ==
  \E i, j \in DOMAIN published[r] :
    Closed(published[r], i, j) /\ (Undisputed(published[r], i, j) \/ Interrupted)
WordsOf(r) == EndsWell(r) => IF At(r, "done") THEN Judged(r) ELSE OwnWord(r)
Words == faults = 0 => \A r \in Rooms : WordsOf(r)

(* A word more in a sequence of words.                                     *)
LEMMA OneMore ==
  ASSUME TypeOK, NEW r \in Rooms, NEW what \in Verdict \cup {"ready"}, Said(r, what)
  PROVE  /\ Len(published[r]) \in Nat /\ Len(published'[r]) = Len(published[r]) + 1
         /\ DOMAIN published[r] = 1..Len(published[r])
         /\ DOMAIN published'[r] = 1..(Len(published[r]) + 1)
         /\ published'[r][Len(published[r]) + 1] = what
         /\ \A i \in 1..Len(published[r]) : published'[r][i] = published[r][i]
         /\ \A q \in Rooms \ {r} : published'[q] = published[q]
<1> DEFINE word == published[r]
           longer == Append(word, what)
<1>1. /\ published \in [Rooms -> Seq(Verdict \cup {"ready"})]
      /\ published' = [published EXCEPT ![r] = Append(@, what)]
  BY DEF TypeOK, Said
<1>2. word \in Seq(Verdict \cup {"ready"}) /\ published'[r] = longer
  BY <1>1
<1>3. /\ longer \in Seq(Verdict \cup {"ready"}) /\ Len(longer) = Len(word) + 1
      /\ longer[Len(word) + 1] = what /\ \A i \in 1..Len(word) : longer[i] = word[i]
      /\ Len(word) \in Nat
  BY <1>2, Appended
<1>4. DOMAIN word = 1..Len(word) /\ DOMAIN longer = 1..Len(longer)
  BY <1>2, <1>3
<1> QED BY <1>1, <1>2, <1>3, <1>4

(* Nothing changes for a room that nobody speaks about and whose server    *)
(* and watchdog keep out of the way.                                       *)
LEMMA WordsKept ==
  ASSUME NEW r \in Rooms, WordsOf(r), Interrupted => Interrupted',
         EndsWell(r)' => EndsWell(r), At(r, "done")' <=> At(r, "done"),
         published'[r] = published[r]
  PROVE  WordsOf(r)'
  BY DEF WordsOf, Judged, OwnWord

(* "ready" may come at any time before the watchdog is done.               *)
LEMMA WordsReady ==
  ASSUME TypeOK, NEW r \in Rooms, WordsOf(r), Interrupted => Interrupted', Said(r, "ready"),
         EndsWell(r)' => EndsWell(r), ~At(r, "done"), ~At(r, "done")'
  PROVE  WordsOf(r)'
<1> DEFINE n == Len(published[r])
<1>1. /\ n \in Nat /\ DOMAIN published[r] = 1..n /\ DOMAIN published'[r] = 1..(n + 1)
      /\ published'[r][n + 1] = "ready" /\ \A i \in 1..n : published'[r][i] = published[r][i]
  BY OneMore DEF Verdict
<1> HIDE DEF n
<1> SUFFICES ASSUME EndsWell(r)' PROVE OwnWord(r)'
  BY DEF WordsOf
<1>2. PICK i \in 1..n : /\ published[r][i] = "finished"
                        /\ Interrupted \/ \A k \in 1..n : published[r][k] = "crashed" => k < i
  BY <1>1 DEF WordsOf, OwnWord
<1>3. i \in 1..(n + 1) /\ \A k \in 1..(n + 1) : k = n + 1 \/ k \in 1..n
  BY <1>1
<1> QED BY <1>1, <1>2, <1>3 DEF OwnWord

(* A clean-up may say "crashed" at any time.                               *)
LEMMA WordsCleanUp ==
  ASSUME TypeOK, NEW r \in Rooms, WordsOf(r), Interrupted', Said(r, "crashed"),
         UNCHANGED <<server, code, watchdog>>
  PROVE  WordsOf(r)'
<1> DEFINE n == Len(published[r])
<1>1. /\ n \in Nat /\ DOMAIN published[r] = 1..n /\ DOMAIN published'[r] = 1..(n + 1)
      /\ \A i \in 1..n : published'[r][i] = published[r][i]
  BY OneMore DEF Verdict
<1>2. \A i \in 1..n : i \in 1..(n + 1)
  BY <1>1
<1> HIDE DEF n
<1>3. Judged(r) => Judged(r)'
  BY <1>1, <1>2 DEF Judged, Closed
<1>4. OwnWord(r) => OwnWord(r)'
  BY <1>1, <1>2 DEF OwnWord
<1> QED BY <1>3, <1>4 DEF WordsOf, EndsWell, At

(* The watchdog's verdict.                                                 *)
LEMMA WordsReport ==
  ASSUME TypeOK, NEW r \in Rooms, WordsOf(r), NEW what \in Verdict, Said(r, what),
         EndsWell(r)' => EndsWell(r), Interrupted => Interrupted',
         ~At(r, "done"), At(r, "done")'
  PROVE  WordsOf(r)'
<1> DEFINE n == Len(published[r])
<1>1. /\ n \in Nat /\ DOMAIN published[r] = 1..n /\ DOMAIN published'[r] = 1..(n + 1)
      /\ Len(published'[r]) = n + 1
      /\ published'[r][n + 1] = what /\ \A i \in 1..n : published'[r][i] = published[r][i]
  BY OneMore
<1> HIDE DEF n
<1> SUFFICES ASSUME EndsWell(r)' PROVE Judged(r)'
  BY DEF WordsOf
<1>2. PICK i \in 1..n : /\ published[r][i] = "finished"
                        /\ Interrupted \/ \A k \in 1..n : published[r][k] = "crashed" => k < i
  BY <1>1 DEF WordsOf, OwnWord
<1>3. /\ i \in 1..(n + 1) /\ n + 1 \in 1..(n + 1) /\ i < n + 1
      /\ \A k \in 1..(n + 1) : k = n + 1 \/ k \in 1..n
  BY <1>1
<1>4. Closed(published'[r], i, n + 1)
  BY <1>1, <1>2, <1>3 DEF Closed
<1>5. Undisputed(published'[r], i, n + 1) \/ Interrupted'
  BY <1>1, <1>2, <1>3 DEF Undisputed
<1> QED BY <1>1, <1>3, <1>4, <1>5 DEF Judged

(* The server's own last word.                                             *)
LEMMA WordsFinish ==
  ASSUME TypeOK, NEW r \in Rooms, Said(r, "finished"), ~At(r, "done")'
  PROVE  WordsOf(r)'
<1> DEFINE n == Len(published[r])
<1>1. /\ n \in Nat /\ DOMAIN published'[r] = 1..(n + 1) /\ published'[r][n + 1] = "finished"
  BY OneMore DEF Verdict
<1> HIDE DEF n
<1>2. n + 1 \in 1..(n + 1) /\ \A k \in 1..(n + 1) : k = n + 1 \/ k < n + 1
  BY <1>1
<1> QED BY <1>1, <1>2 DEF WordsOf, OwnWord

(* A shell that cleans up does not go back to its poll loop.               *)
LEMMA StaysInterrupted ==
  ASSUME TypeOK, [Next]_vars
  PROVE  /\ Interrupted => Interrupted'
         /\ \A w \in Workers : Interrupt(w) \/ CleanUp(w) => Interrupted'
<1>0. shell \in [Workers -> Shells]
  BY DEF TypeOK, Shells
<1>1. ASSUME NEW w \in Workers, Interrupt(w) \/ CleanUp(w) PROVE Interrupted'
  <2>1. shell'[w].at \notin {"poll", "popped"}
    <3>1. CASE Interrupt(w)
      BY <1>0, <3>1 DEF Interrupt, Clean
    <3>2. CASE ListActive(w) \/ DropRoom(w) \/ TellCrash(w) \/ Leave(w)
      BY <1>0, <3>2 DEF ListActive, DropRoom, TellCrash, Leave, Clean
    <3>3. CASE KillRoom(w)
      BY <1>0, <3>3 DEF KillRoom, Clean
    <3> QED BY <1>1, <3>1, <3>2, <3>3 DEF CleanUp
  <2> QED BY <2>1 DEF Interrupted
<1>2. ASSUME NEW w \in Workers, Pop(w) \/ Spawn(w), Interrupted PROVE Interrupted'
  <2>1. /\ shell[w].at \in {"poll", "popped"}
        /\ \A v \in Workers \ {w} : shell'[v] = shell[v]
    BY <1>0, <1>2 DEF Pop, Spawn
  <2> QED BY <1>2, <2>1 DEF Interrupted
<1>3. ASSUME UNCHANGED shell, Interrupted PROVE Interrupted'
  BY <1>3 DEF Interrupted
<1>4. \A r \in Rooms : Request(r) \/ Room(r) \/ Server(r) => UNCHANGED shell
  BY DEF Request, Room, Fork, Register, MapWorker, Announce, EndGrace, NoticeExit, Wait,
         Unregister, Unmap, Report, Server, ServerReady, ServerThrows, ServerFinishes,
         ServerExits, ServerDies, shellVars
<1>5. UNCHANGED vars => UNCHANGED shell
  BY DEF vars, shellVars
<1> QED BY <1>1, <1>2, <1>3, <1>4, <1>5 DEF Next

(* A call that is lost is not forgotten.                                   *)
LEMMA FaultsGrow ==
  ASSUME TypeOK, [Next]_vars
  PROVE  /\ faults' = 0 => faults = 0
         /\ Lost => faults' # 0
<1>0. faults \in Nat
  BY Numbers DEF TypeOK
<1>1. \A r \in Rooms : Request(r) \/ Room(r) => UNCHANGED faults \/ Lost
  BY DEF Request, Room, Fork, Register, MapWorker, Announce, EndGrace, NoticeExit, Wait,
         Unregister, Unmap, Report, Stored, redisVars
<1>2. \A r \in Rooms : Server(r) => UNCHANGED faults \/ Lost
  BY DEF Server, ServerReady, ServerThrows, ServerFinishes, ServerExits, ServerDies, Stored, redisVars
<1>3. \A w \in Workers : Pop(w) \/ Spawn(w) \/ Interrupt(w) => UNCHANGED faults \/ Lost
  BY DEF Pop, Spawn, Interrupt, redisVars
<1>4. \A w \in Workers : CleanUp(w) => UNCHANGED faults \/ Lost
  BY DEF CleanUp, ListActive, KillRoom, DropRoom, TellCrash, Leave, Stored, redisVars
<1>5. UNCHANGED faults \/ Lost
  BY <1>1, <1>2, <1>3, <1>4 DEF Next, vars, redisVars
<1> QED BY <1>0, <1>5 DEF Lost

(* A watchdog's step: only Report ends the room's story.                   *)
LEMMA WordsRoom ==
  ASSUME IInv, Words, [Next]_vars, faults' = 0, NEW r \in Rooms, Room(r), NEW q \in Rooms
  PROVE  WordsOf(q)'
<1>0. TypeOK /\ (Interrupted => Interrupted')
  BY StaysInterrupted DEF IInv
<1>1. faults = 0 /\ ~Lost /\ WordsOf(q)
  BY <1>0, FaultsGrow DEF Words
<1>2. /\ watchdog \in [Rooms -> WatchdogPc] /\ published \in [Rooms -> Seq(Verdict \cup {"ready"})]
      /\ server \in [Rooms -> {"none", "starting", "up", "thrown", "closing", "exited"}]
  BY <1>0 DEF TypeOK
<1>3. CASE Fork(r)
  <2>1. /\ watchdog[r] = "fork" /\ watchdog' = [watchdog EXCEPT ![r] = "register"]
        /\ server' = [server EXCEPT ![r] = "starting"] /\ UNCHANGED <<published, code>>
    BY <1>3 DEF Fork, At, Goto, redisVars
  <2>2. (EndsWell(q)' => EndsWell(q)) /\ (At(q, "done")' <=> At(q, "done"))
    BY <1>2, <2>1 DEF EndsWell, At
  <2> QED BY <1>0, <1>1, <2>1, <2>2, WordsKept
<1>4. CASE Register(r) \/ MapWorker(r) \/ EndGrace(r) \/ NoticeExit(r) \/ Unregister(r) \/ Unmap(r)
  <2>1. /\ UNCHANGED <<server, code, published>> /\ watchdog[r] # "done"
        /\ \E pc \in WatchdogPc \ {"done"} : watchdog' = [watchdog EXCEPT ![r] = pc]
    BY <1>4 DEF Register, MapWorker, EndGrace, NoticeExit, Unregister, Unmap, At, Goto,
                serverVars, redisVars, WatchdogPc
  <2>2. EndsWell(q)' = EndsWell(q) /\ (At(q, "done")' <=> At(q, "done"))
    BY <1>2, <2>1 DEF EndsWell, At
  <2> QED BY <1>0, <1>1, <2>1, <2>2, WordsKept
<1>5. CASE Wait(r)
  <2>1. /\ UNCHANGED <<server, code, published>> /\ watchdog[r] = "wait"
        /\ watchdog' = [watchdog EXCEPT ![r] = IF code[r] = 0 THEN "unregister" ELSE "done"]
    BY <1>5 DEF Wait, At, Goto, serverVars, redisVars
  <2>2. EndsWell(q)' => EndsWell(q) /\ (At(q, "done")' <=> At(q, "done"))
    BY <1>2, <2>1 DEF EndsWell, At
  <2>3. CASE EndsWell(q)'
    BY <1>0, <1>1, <2>1, <2>2, <2>3, WordsKept
  <2> QED BY <2>3 DEF WordsOf
<1>6. CASE Announce(r)
  <2>1. /\ UNCHANGED <<server, code>> /\ watchdog[r] = "announce"
        /\ watchdog' = [watchdog EXCEPT ![r] = "grace"] /\ Said(r, "ready")
    BY <1>1, <1>6 DEF Announce, Stored, At, Goto, serverVars
  <2>2. EndsWell(q)' = EndsWell(q) /\ ~At(r, "done") /\ ~At(r, "done")'
    BY <1>2, <2>1 DEF EndsWell, At
  <2>3. CASE q = r
    BY <1>0, <1>1, <2>1, <2>2, <2>3, WordsReady
  <2>4. CASE q # r
    <3>1. published'[q] = published[q] /\ (At(q, "done")' <=> At(q, "done"))
      BY <1>2, <2>1, <2>4 DEF Said, At
    <3> QED BY <1>0, <1>1, <2>2, <3>1, WordsKept
  <2> QED BY <2>3, <2>4
<1>7. CASE Report(r)
  <2>1. /\ UNCHANGED <<server, code>> /\ watchdog[r] \in {"report", "report_early"}
        /\ watchdog' = [watchdog EXCEPT ![r] = "done"]
        /\ \E what \in Verdict : Said(r, what)
    BY <1>1, <1>7 DEF Report, Stored, At, Goto, serverVars, Verdict
  <2>2. EndsWell(q)' = EndsWell(q) /\ ~At(r, "done") /\ At(r, "done")'
    BY <1>2, <2>1 DEF EndsWell, At
  <2>3. CASE q = r
    BY <1>0, <1>1, <2>1, <2>2, <2>3, WordsReport
  <2>4. CASE q # r
    <3>1. published'[q] = published[q] /\ (At(q, "done")' <=> At(q, "done"))
      BY <1>2, <2>1, <2>4 DEF Said, At
    <3> QED BY <1>0, <1>1, <2>2, <3>1, WordsKept
  <2> QED BY <2>3, <2>4
<1> QED BY <1>3, <1>4, <1>5, <1>6, <1>7 DEF Room

(* A step of the server: it ends well only by saying so.                   *)
LEMMA WordsServer ==
  ASSUME IInv, Words, [Next]_vars, faults' = 0, NEW r \in Rooms, Server(r), NEW q \in Rooms
  PROVE  WordsOf(q)'
<1>0. /\ TypeOK /\ OverIsGone /\ (Interrupted => Interrupted')
  BY StaysInterrupted DEF IInv, Parts
<1>1. faults = 0 /\ ~Lost /\ WordsOf(q)
  BY <1>0, FaultsGrow DEF Words
<1>2. /\ published \in [Rooms -> Seq(Verdict \cup {"ready"})] /\ code \in [Rooms -> {0, 1}]
      /\ server \in [Rooms -> {"none", "starting", "up", "thrown", "closing", "exited"}]
  BY <1>0 DEF TypeOK
<1>3. UNCHANGED watchdog /\ \A p \in Rooms \ {r} :
        /\ server'[p] = server[p] /\ code'[p] = code[p] /\ published'[p] = published[p]
  <2>1. /\ \E s : server' = [server EXCEPT ![r] = s]
        /\ UNCHANGED code \/ \E c : code' = [code EXCEPT ![r] = c]
        /\ UNCHANGED published \/ \E what : Said(r, what)
        /\ UNCHANGED watchdog
    BY DEF Server, ServerReady, ServerThrows, ServerFinishes, ServerExits, ServerDies, Stored, redisVars
  <2> QED BY <1>2, <2>1 DEF Said
<1>4. CASE q # r
  BY <1>0, <1>1, <1>3, <1>4, WordsKept DEF EndsWell, At
<1>5. CASE q = r /\ (ServerReady(r) \/ ServerThrows(r) \/ ServerDies(r))
  <2>1. server'[r] \in {"up", "thrown"} \/ code'[r] = 1
    BY <1>2, <1>5 DEF ServerReady, ServerThrows, ServerDies
  <2> QED BY <1>5, <2>1 DEF WordsOf, EndsWell
<1>6. CASE q = r /\ ServerFinishes(r)
  <2>1. server[r] \in {"up", "thrown"} /\ Said(r, "finished")
    BY <1>1, <1>6 DEF ServerFinishes, Stored
  <2>2. ~At(r, "done")'
    BY <1>0, <1>3, <2>1 DEF OverIsGone, Over, Gone, At
  <2> QED BY <1>0, <1>6, <2>1, <2>2, WordsFinish
<1>7. CASE q = r /\ ServerExits(r)
  <2>1. server[r] = "closing" /\ UNCHANGED <<code, published>>
    BY <1>7 DEF ServerExits, redisVars
  <2> QED BY <1>0, <1>1, <1>3, <1>7, <2>1, WordsKept DEF EndsWell, At
<1> QED BY <1>4, <1>5, <1>6, <1>7 DEF Server

(* Every step keeps Words.                                                 *)
LEMMA WordsNext == IInv /\ Words /\ [Next]_vars => Words'
<1> SUFFICES ASSUME IInv, Words, [Next]_vars, faults' = 0, NEW q \in Rooms PROVE WordsOf(q)'
  BY DEF Words
<1>0. /\ TypeOK /\ HasRoom /\ TakenOnce /\ (Interrupted => Interrupted')
      /\ \A w \in Workers : Interrupt(w) \/ CleanUp(w) => Interrupted'
  BY StaysInterrupted DEF IInv, Parts
<1>1. faults = 0 /\ ~Lost /\ WordsOf(q)
  BY <1>0, FaultsGrow DEF Words
<1>2. CASE UNCHANGED <<published, server, code>> /\ (At(q, "done")' <=> At(q, "done"))
  BY <1>0, <1>1, <1>2, WordsKept DEF EndsWell
<1>3. ASSUME NEW w \in Workers, TellCrash(w) PROVE WordsOf(q)'
  <2> DEFINE r == shell[w].room
  <2>1. /\ r \in Rooms /\ Said(r, "crashed") /\ UNCHANGED <<server, code, watchdog>>
        /\ Interrupted'
    BY <1>0, <1>1, <1>3 DEF HasRoom, Busy, TellCrash, Stored, serverVars, CleanUp
  <2> HIDE DEF r
  <2>2. CASE q = r
    BY <1>0, <1>1, <2>1, <2>2, WordsCleanUp
  <2>3. CASE q # r
    <3>1. published'[q] = published[q]
      BY <1>0, <2>1, <2>3 DEF TypeOK, Said
    <3> QED BY <1>0, <1>1, <2>1, <3>1, WordsKept DEF EndsWell, At
  <2> QED BY <2>2, <2>3
<1>4. ASSUME NEW w \in Workers, ListActive(w) \/ KillRoom(w) \/ DropRoom(w) \/ Leave(w) \/ Pop(w)
                                \/ Interrupt(w)
      PROVE  UNCHANGED <<published, server, code, watchdog>>
  BY <1>4 DEF ListActive, KillRoom, DropRoom, Leave, Pop, Interrupt, redisVars, serverVars
<1>5. ASSUME NEW w \in Workers, Spawn(w)
      PROVE  UNCHANGED <<published, server, code>> /\ (At(q, "done")' <=> At(q, "done"))
  <2>1. /\ shell[w].room \in Rooms /\ watchdog[shell[w].room] = "none"
        /\ watchdog' = [watchdog EXCEPT ![shell[w].room] = "fork"]
        /\ UNCHANGED <<published, server, code>>
    BY <1>0, <1>5 DEF Spawn, TakenOnce, HasRoom, Busy, Popped, redisVars
  <2>2. watchdog \in [Rooms -> WatchdogPc]
    BY <1>0 DEF TypeOK
  <2> QED BY <2>1, <2>2 DEF At
<1>6. ASSUME NEW r \in Rooms, Request(r) PROVE UNCHANGED <<published, server, code, watchdog>>
  BY <1>6 DEF Request, serverVars
<1>7. UNCHANGED vars => UNCHANGED <<published, server, code, watchdog>>
  BY DEF vars, redisVars, serverVars
<1>8. UNCHANGED watchdog => (At(q, "done")' <=> At(q, "done"))
  BY DEF At
<1> QED BY <1>2, <1>3, <1>4, <1>5, <1>6, <1>7, <1>8, WordsRoom, WordsServer DEF Next, CleanUp

(* When no call is lost, the watchdog's verdict on a match that has ended  *)
(* well follows the server's own word, and unless somebody cleans up it is *)
(* the last and nobody has said "crashed" since but the verdict itself.    *)
THEOREM TheLastWord == Spec => []WatchdogHasTheLastWord
<1>1. Init => Words
  BY DEF Init, Words, WordsOf, EndsWell
<1>2. IInv /\ Words /\ [Next]_vars => Words'
  BY WordsNext
<1>3. IInv /\ Words => WatchdogHasTheLastWord
  <2> SUFFICES ASSUME IInv, Words, faults = 0, NEW r \in Rooms
               PROVE  /\ ~Interrupted /\ published[r] # <<>> => published[r][1] = "ready"
                      /\ At(r, "done") /\ code[r] = 0 => Judged(r)
    BY DEF WatchdogHasTheLastWord, Judged
  <2>1. At(r, "done") => Gone(r)
    BY DEF IInv, Parts, OverIsGone, Over, At
  <2> QED BY <2>1 DEF IInv, FirstAndLast, Words, WordsOf, EndsWell, Gone
<1> QED BY Invariance, <1>1, <1>2, <1>3, PTL DEF Spec

-----------------------------------------------------------------------------
(* Servers as RoomServer describes them.                                   *)

(* A publish that may be lost is what RoomServer calls Says.               *)
LEMMA SaysOf ==
  ASSUME TypeOK, NEW r \in Rooms, NEW what,
         Stored(Said(r, what)) \/ (Lost /\ UNCHANGED published)
  PROVE  published'[r] \in {published[r], Append(published[r], what)}
  BY DEF TypeOK, Stored, Said

(* A step of the system takes every server a step further in its life, or  *)
(* leaves it where it is.                                                  *)
LEMMA ServerStep ==
  ASSUME IInv, [Next]_vars, NEW q \in Rooms
  PROVE  server'[q] = server[q] \/ Life(q)!Next
<1>0. /\ TypeOK /\ NotStarted
      /\ server \in [Rooms -> {"none", "starting", "up", "thrown", "closing", "exited"}]
  BY DEF IInv, Parts, TypeOK
<1>1. ASSUME NEW r \in Rooms, Fork(r) PROVE server'[q] = server[q] \/ Life(q)!Next
  <2>1. /\ server[r] = "none" /\ server' = [server EXCEPT ![r] = "starting"]
        /\ UNCHANGED published
    BY <1>0, <1>1 DEF Fork, At, NotStarted, redisVars
  <2> QED BY <1>0, <2>1 DEF Life!Next, Life!Start, Life!Moves, Life!Silent
<1>2. ASSUME NEW r \in Rooms, ServerReady(r) PROVE server'[q] = server[q] \/ Life(q)!Next
  <2>1. server[r] = "starting" /\ server' = [server EXCEPT ![r] = "up"]
    BY <1>2 DEF ServerReady
  <2>2. published'[r] \in {published[r], Append(published[r], "ready")}
    BY <1>0, <1>2, SaysOf DEF ServerReady
  <2> QED BY <1>0, <2>1, <2>2 DEF Life!Next, Life!Ready, Life!Moves, Life!Says
<1>3. ASSUME NEW r \in Rooms, ServerThrows(r) PROVE server'[q] = server[q] \/ Life(q)!Next
  <2>1. server[r] = "up" /\ server' = [server EXCEPT ![r] = "thrown"]
    BY <1>3 DEF ServerThrows
  <2>2. published'[r] \in {published[r], Append(published[r], "crashed")}
    BY <1>0, <1>3, SaysOf DEF ServerThrows
  <2> QED BY <1>0, <2>1, <2>2 DEF Life!Next, Life!Throws, Life!Moves, Life!Says
<1>4. ASSUME NEW r \in Rooms, ServerFinishes(r) PROVE server'[q] = server[q] \/ Life(q)!Next
  <2>1. server[r] \in {"up", "thrown"} /\ server' = [server EXCEPT ![r] = "closing"]
    BY <1>4 DEF ServerFinishes
  <2>2. published'[r] \in {published[r], Append(published[r], "finished")}
    BY <1>0, <1>4, SaysOf DEF ServerFinishes
  <2> QED BY <1>0, <2>1, <2>2 DEF Life!Next, Life!Finishes, Life!Moves, Life!Says
<1>5. ASSUME NEW r \in Rooms, ServerExits(r) PROVE server'[q] = server[q] \/ Life(q)!Next
  <2>1. /\ server[r] = "closing" /\ server' = [server EXCEPT ![r] = "exited"]
        /\ UNCHANGED published
    BY <1>5 DEF ServerExits, redisVars
  <2> QED BY <1>0, <2>1 DEF Life!Next, Life!Exits, Life!Moves, Life!Silent
<1>6. ASSUME NEW r \in Rooms, ServerDies(r) PROVE server'[q] = server[q] \/ Life(q)!Next
  <2>1. /\ server[r] \in {"starting", "up", "thrown", "closing"}
        /\ server' = [server EXCEPT ![r] = "exited"] /\ UNCHANGED published
    BY <1>0, <1>6 DEF ServerDies, redisVars
  <2> QED BY <1>0, <2>1 DEF Life!Next, Life!Dies, Life!Moves, Life!Silent
<1>7. ASSUME NEW r \in Rooms, Room(r), ~Fork(r) PROVE server' = server
  BY <1>7 DEF Room, Register, MapWorker, Announce, EndGrace, NoticeExit, Wait, Unregister,
              Unmap, Report, serverVars
<1>8. ASSUME NEW w \in Workers, Pop(w) \/ Spawn(w) \/ Interrupt(w) \/ CleanUp(w)
      PROVE  server' = server
  BY <1>8 DEF Pop, Spawn, Interrupt, CleanUp, ListActive, KillRoom, DropRoom, TellCrash, Leave,
              serverVars
<1>9. ASSUME NEW r \in Rooms, Request(r) PROVE server' = server
  BY <1>9 DEF Request, serverVars
<1>10. UNCHANGED vars => server' = server
  BY DEF vars, serverVars
<1> QED BY <1>1, <1>2, <1>3, <1>4, <1>5, <1>6, <1>7, <1>8, <1>9, <1>10 DEF Next, Server

(* Every server lives the life of a RoomServer, which ImplementsServer of  *)
(* GameServerRefinement shows the gf_server to live: nothing the watchdogs *)
(* and clean-ups do takes a server through it in any other way.            *)
THEOREM ServersAreRoomServers == Spec => ServersLive
<1>1. Init => \A r \in Rooms : Life(r)!Init
  BY DEF Init, Life!Init
<1>2. IInv /\ [Next]_vars => [\A r \in Rooms : [Life(r)!Next]_(server[r])]_server
  BY ServerStep
<1> QED BY <1>1, <1>2, Invariance, PTL DEF Spec, ServersLive

-----------------------------------------------------------------------------
(* What EveryRoomIsSettled says of a room at rest.                         *)

(* A watchdog that has waited for its server has told its verdict, unless  *)
(* the call was lost or set -e had ended the subshell.                     *)
Reported ==
  \A r \in Rooms : At(r, "done") => Told(r, Verdict) \/ faults > 0 \/ code[r] # 0

(* The watchdog of a server that was gone early ends with gf.crashed, and  *)
(* gf.active has forgotten the room by then.                               *)
EarlyVerdict ==
  \A r \in Rooms : At(r, "report_early") /\ ~At(r, "report_early")' =>
    At(r, "done")' /\ ((Told(r, {"crashed"})' /\ active'[r] = NoPid) \/ faults' > 0)

(* What has been said about a room stays said.                             *)
LEMMA ToldOnce ==
  ASSUME TypeOK, NEW r \in Rooms, NEW what \in Verdict \cup {"ready"}, Said(r, what)
  PROVE  /\ \A verdicts : what \in verdicts => Told(r, verdicts)'
         /\ \A q \in Rooms : \A verdicts : Told(q, verdicts) => Told(q, verdicts)'
<1>1. /\ published \in [Rooms -> Seq(Verdict \cup {"ready"})]
      /\ published' = [published EXCEPT ![r] = Append(@, what)]
  BY DEF TypeOK, Said
<1>2. published[r] \in Seq(Verdict \cup {"ready"})
  BY <1>1
<1>3. /\ published'[r] = Append(published[r], what)
      /\ \A q \in Rooms \ {r} : published'[q] = published[q]
  BY <1>1
<1>4. /\ DOMAIN published[r] = 1..Len(published[r]) /\ Len(published[r]) \in Nat
      /\ DOMAIN published'[r] = 1..(Len(published[r]) + 1)
      /\ published'[r][Len(published[r]) + 1] = what
      /\ \A i \in 1..Len(published[r]) : published'[r][i] = published[r][i]
  BY <1>2, <1>3
<1>5. /\ Len(published[r]) + 1 \in DOMAIN published'[r]
      /\ \A i \in DOMAIN published[r] : i \in DOMAIN published'[r]
  BY <1>4
<1> QED BY <1>3, <1>4, <1>5 DEF Told

(* A call that may be lost either says it or costs a fault.                *)
LEMMA SaidOrLost ==
  ASSUME TypeOK, NEW r \in Rooms, NEW what \in Verdict \cup {"ready"},
         Stored(Said(r, what)) \/ (Lost /\ UNCHANGED published)
  PROVE  /\ faults' \in Nat /\ faults' >= faults
         /\ faults' > 0 \/ \A verdicts : what \in verdicts => Told(r, verdicts)'
         /\ \A q \in Rooms : \A verdicts : Told(q, verdicts) => Told(q, verdicts)'
<1>1. faults \in Nat
  BY Numbers DEF TypeOK
<1>2. CASE Stored(Said(r, what))
  BY <1>1, <1>2, ToldOnce DEF Stored
<1>3. CASE Lost /\ UNCHANGED published
  BY <1>1, <1>3 DEF Lost, Told
<1> QED BY <1>2, <1>3

(* No step takes back what was said, a fault or an exit code; and a        *)
(* watchdog that has not been at its verdict is not done with code 0.      *)
LEMMA NothingTakenBack ==
  ASSUME IInv, [Next]_vars
  PROVE  /\ faults' \in Nat /\ faults' >= faults
         /\ \A q \in Rooms : \A verdicts : Told(q, verdicts) => Told(q, verdicts)'
         /\ \A q \in Rooms : code[q] # 0 => code'[q] # 0
<1>0. TypeOK /\ faults \in Nat /\ code \in [Rooms -> {0, 1}]
  BY Numbers DEF IInv, TypeOK
<1>1. CASE UNCHANGED <<published, code>> /\ (Lost \/ UNCHANGED faults)
  BY <1>0, <1>1 DEF Told, Lost
<1>2. ASSUME NEW r \in Rooms, NEW what \in Verdict \cup {"ready"}, UNCHANGED code,
             Stored(Said(r, what)) \/ (Lost /\ UNCHANGED published)
      PROVE  /\ faults' \in Nat /\ faults' >= faults
             /\ \A q \in Rooms : \A verdicts : Told(q, verdicts) => Told(q, verdicts)'
             /\ \A q \in Rooms : code[q] # 0 => code'[q] # 0
  BY <1>0, <1>2, SaidOrLost
<1>3. "ready" \in Verdict \cup {"ready"} /\ "crashed" \in Verdict /\ "finished" \in Verdict
  BY DEF Verdict
<1> USE DEF serverVars, redisVars
<1>4. ASSUME NEW r \in Rooms, Room(r) PROVE UNCHANGED code
  BY <1>4 DEF Room, Fork, Register, MapWorker, Announce, EndGrace, NoticeExit, Wait, Unregister,
              Unmap, Report
<1>5. ASSUME NEW r \in Rooms, Room(r), ~Announce(r), ~Report(r)
      PROVE  UNCHANGED published /\ (Lost \/ UNCHANGED faults)
  BY <1>5 DEF Room, Fork, Register, MapWorker, EndGrace, NoticeExit, Wait, Unregister, Unmap,
              Stored
<1>6. ASSUME NEW r \in Rooms, Announce(r)
      PROVE  Stored(Said(r, "ready")) \/ (Lost /\ UNCHANGED published)
  BY <1>6 DEF Announce
<1>7. ASSUME NEW r \in Rooms, Report(r)
      PROVE  \E what \in Verdict : Stored(Said(r, what)) \/ (Lost /\ UNCHANGED published)
  BY <1>3, <1>7 DEF Report
<1>8. ASSUME NEW r \in Rooms, ServerReady(r) \/ ServerThrows(r) \/ ServerFinishes(r)
      PROVE  /\ UNCHANGED code
             /\ \E what \in Verdict \cup {"ready"} :
                  Stored(Said(r, what)) \/ (Lost /\ UNCHANGED published)
  BY <1>3, <1>8 DEF ServerReady, ServerThrows, ServerFinishes
<1>9. ASSUME NEW r \in Rooms, ServerExits(r) \/ ServerDies(r)
      PROVE  /\ UNCHANGED <<published, faults>>
             /\ \A q \in Rooms : code[q] # 0 => code'[q] # 0
  BY <1>0, <1>9 DEF ServerExits, ServerDies
<1>10. ASSUME NEW w \in Workers, TellCrash(w)
       PROVE  /\ UNCHANGED code /\ shell[w].room \in Rooms
              /\ Stored(Said(shell[w].room, "crashed")) \/ (Lost /\ UNCHANGED published)
  BY <1>10 DEF TellCrash, IInv, Parts, HasRoom, Busy
<1>11. ASSUME NEW w \in Workers, Pop(w) \/ Spawn(w) \/ Interrupt(w) \/ CleanUp(w), ~TellCrash(w)
       PROVE  UNCHANGED <<published, code>> /\ (Lost \/ UNCHANGED faults)
  BY <1>11 DEF Pop, Spawn, Interrupt, CleanUp, ListActive, KillRoom, DropRoom, Leave, Stored
<1>12. ASSUME NEW r \in Rooms, Request(r) PROVE UNCHANGED <<published, code, faults>>
  BY <1>12 DEF Request
<1>13. UNCHANGED vars => UNCHANGED <<published, code, faults>>
  BY DEF vars
<1>14. ASSUME NEW r \in Rooms, Room(r)
       PROVE  /\ faults' \in Nat /\ faults' >= faults
              /\ \A q \in Rooms : \A verdicts : Told(q, verdicts) => Told(q, verdicts)'
              /\ \A q \in Rooms : code[q] # 0 => code'[q] # 0
  <2>1. CASE Announce(r)
    BY <1>2, <1>3, <1>4, <1>6, <1>14, <2>1
  <2>2. CASE Report(r)
    BY <1>2, <1>4, <1>7, <1>14, <2>2
  <2> QED BY <1>1, <1>4, <1>5, <1>14, <2>1, <2>2
<1>15. ASSUME NEW r \in Rooms, Server(r)
       PROVE  /\ faults' \in Nat /\ faults' >= faults
              /\ \A q \in Rooms : \A verdicts : Told(q, verdicts) => Told(q, verdicts)'
              /\ \A q \in Rooms : code[q] # 0 => code'[q] # 0
  <2>1. CASE ServerReady(r) \/ ServerThrows(r) \/ ServerFinishes(r)
    BY <1>2, <1>8, <2>1
  <2>2. CASE ServerExits(r) \/ ServerDies(r)
    BY <1>0, <1>9, <2>2 DEF Told
  <2> QED BY <1>15, <2>1, <2>2 DEF Server
<1>16. ASSUME NEW w \in Workers, Pop(w) \/ Spawn(w) \/ Interrupt(w) \/ CleanUp(w)
       PROVE  /\ faults' \in Nat /\ faults' >= faults
              /\ \A q \in Rooms : \A verdicts : Told(q, verdicts) => Told(q, verdicts)'
              /\ \A q \in Rooms : code[q] # 0 => code'[q] # 0
  <2>1. CASE TellCrash(w)
    BY <1>2, <1>3, <1>10, <2>1
  <2> QED BY <1>1, <1>11, <1>16, <2>1
<1>17. UNCHANGED <<published, code, faults>> =>
         /\ faults' \in Nat /\ faults' >= faults
         /\ \A q \in Rooms : \A verdicts : Told(q, verdicts) => Told(q, verdicts)'
         /\ \A q \in Rooms : code[q] # 0 => code'[q] # 0
  BY <1>0 DEF Told
<1> QED BY <1>12, <1>13, <1>14, <1>15, <1>16, <1>17 DEF Next

(* Where a step can take a watchdog to its end, or from its early verdict. *)
LEMMA WatchdogEnds ==
  ASSUME IInv, [Next]_vars, NEW r \in Rooms, watchdog'[r] # watchdog[r],
         watchdog'[r] = "done" \/ watchdog[r] = "report_early"
  PROVE  Wait(r) \/ Report(r)
<1>0. TypeOK /\ TakenOnce /\ HasRoom
  BY DEF IInv, Parts
<1>1. watchdog \in [Rooms -> WatchdogPc]
  BY <1>0 DEF TypeOK
<1>2. ASSUME NEW q \in Rooms, Room(q) PROVE Wait(r) \/ Report(r)
  <2>1. \A pc : Goto(q, pc) => /\ q # r => watchdog'[r] = watchdog[r]
                               /\ q = r => watchdog'[r] = pc
    BY <1>1 DEF Goto
  <2>2. q = r
    <3> SUFFICES ASSUME q # r PROVE FALSE
      OBVIOUS
    <3> QED BY <1>2, <2>1 DEF Room, Fork, Register, MapWorker, Announce, EndGrace, NoticeExit,
                              Wait, Unregister, Unmap, Report
  <2>3. ~(Fork(r) \/ Register(r) \/ MapWorker(r) \/ Announce(r) \/ EndGrace(r) \/ NoticeExit(r))
    <3>1. \A pc : Goto(r, pc) => watchdog'[r] = pc
      BY <1>1 DEF Goto
    <3> QED BY <3>1 DEF At, Fork, Register, MapWorker, Announce, EndGrace, NoticeExit
  <2>4. ~(Unregister(r) \/ Unmap(r))
    <3>1. \A pc : Goto(r, pc) => watchdog'[r] = pc
      BY <1>1 DEF Goto
    <3> QED BY <3>1 DEF At, Unregister, Unmap
  <2> QED BY <1>2, <2>2, <2>3, <2>4 DEF Room
<1>3. ASSUME NEW q \in Rooms, Request(q) \/ Server(q) PROVE watchdog' = watchdog
  BY <1>3 DEF Request, Server, ServerReady, ServerThrows, ServerFinishes, ServerExits, ServerDies
<1>4. ASSUME NEW w \in Workers, Pop(w) \/ Interrupt(w) \/ CleanUp(w) PROVE watchdog' = watchdog
  BY <1>4 DEF Pop, Interrupt, CleanUp, ListActive, KillRoom, DropRoom, TellCrash, Leave
<1>5. ASSUME NEW w \in Workers, Spawn(w) PROVE FALSE
  <2>1. /\ shell[w].room \in Rooms /\ watchdog[shell[w].room] = "none"
    BY <1>0, <1>5 DEF Spawn, TakenOnce, HasRoom, Busy, Popped
  <2>2. watchdog' = [watchdog EXCEPT ![shell[w].room] = "fork"]
    BY <1>5 DEF Spawn
  <2> QED BY <1>1, <2>1, <2>2
<1>6. UNCHANGED vars => watchdog' = watchdog
  BY DEF vars
<1> QED BY <1>2, <1>3, <1>4, <1>5, <1>6 DEF Next

(* The safety half of EveryRoomIsSettled's first part: a watchdog does not *)
(* come to its end without its verdict, whatever clean-ups did meanwhile.  *)
THEOREM DoneIsReported == Spec => []Reported
<1>1. Init => Reported
  BY DEF Init, Reported, At
<1>2. IInv /\ Reported /\ [Next]_vars => Reported'
  <2> SUFFICES ASSUME IInv, Reported, [Next]_vars, NEW r \in Rooms, watchdog'[r] = "done"
               PROVE  Told(r, Verdict)' \/ faults' > 0 \/ code'[r] # 0
    BY DEF Reported, At
  <2>0. /\ faults' \in Nat /\ faults' >= faults /\ faults \in Nat /\ TypeOK
        /\ Told(r, Verdict) => Told(r, Verdict)'
        /\ code[r] # 0 => code'[r] # 0
    BY NothingTakenBack, Numbers DEF IInv, TypeOK
  <2>1. CASE watchdog[r] = "done"
    <3>1. Told(r, Verdict) \/ faults > 0 \/ code[r] # 0
      BY <2>1 DEF Reported, At
    <3>2. faults > 0 => faults' > 0
      BY <2>0
    <3> QED BY <2>0, <3>1, <3>2
  <2>2. CASE watchdog[r] # "done"
    <3>1. Wait(r) \/ Report(r)
      BY <2>2, WatchdogEnds
    <3>2. CASE Wait(r)
      <4>1. code' = code /\ Goto(r, IF code[r] = 0 THEN "unregister" ELSE "done")
        BY <3>2 DEF Wait, serverVars
      <4>2. watchdog'[r] = IF code[r] = 0 THEN "unregister" ELSE "done"
        BY <2>0, <4>1 DEF Goto, TypeOK
      <4> QED BY <4>1, <4>2
    <3>3. CASE Report(r)
      <4>1. PICK what \in Verdict : Stored(Said(r, what)) \/ (Lost /\ UNCHANGED published)
        BY <3>3 DEF Report, Verdict
      <4> QED BY <2>0, <4>1, SaidOrLost
    <3> QED BY <3>1, <3>2, <3>3
  <2> QED BY <2>1, <2>2
<1> QED BY <1>1, <1>2, Invariance, PTL DEF Spec

(* The safety half of its second part: the watchdog of a server that was   *)
(* gone within the grace period, of whatever code, ends with gf.crashed    *)
(* and with the room out of gf.active.                                     *)
THEOREM EarlyExitIsReported == Spec => [][EarlyVerdict]_vars
<1>1. IInv /\ [Next]_vars => [EarlyVerdict]_vars
  <2> SUFFICES ASSUME IInv, [Next]_vars, NEW r \in Rooms, At(r, "report_early"),
                      ~At(r, "report_early")'
               PROVE  /\ At(r, "done")'
                      /\ (Told(r, {"crashed"})' /\ active'[r] = NoPid) \/ faults' > 0
    BY DEF EarlyVerdict
  <2>0. TypeOK /\ (faults = 0 => active[r] = NoPid) /\ faults \in Nat
    BY Numbers DEF IInv, Parts, Removed, At, TypeOK
  <2>1. Report(r)
    <3>1. Wait(r) \/ Report(r)
      BY WatchdogEnds DEF At
    <3> QED BY <3>1 DEF Wait, At
  <2>2. active' = active /\ Goto(r, "done")
        /\ (Stored(Said(r, "crashed")) \/ (Lost /\ UNCHANGED published))
    BY <2>1 DEF Report, At
  <2>3. watchdog'[r] = "done"
    BY <2>0, <2>2 DEF Goto, TypeOK
  <2>4. "crashed" \in Verdict
    BY DEF Verdict
  <2>5. faults' \in Nat /\ faults' >= faults /\ (Told(r, {"crashed"})' \/ faults' > 0)
    BY <2>0, <2>2, <2>4, SaidOrLost
  <2> QED BY <2>0, <2>2, <2>3, <2>5 DEF At
<1> QED BY <1>1, Invariance, PTL DEF Spec

-----------------------------------------------------------------------------
(* What EveryRoomIsSettled and the end of a clean-up rest on besides       *)
(* fairness: there is only so much to do.                                  *)

Commands(pc) ==  \* of a watchdog, until its end
  CASE pc = "none" -> 11 [] pc = "fork" -> 10 [] pc = "register" -> 9 [] pc = "map" -> 8
    [] pc = "announce" -> 7 [] pc = "grace" -> 6 [] pc = "watch" -> 5 [] pc = "wait" -> 4
    [] pc \in {"unregister", "unregister_early"} -> 3 [] pc \in {"unmap", "unmap_early"} -> 2
    [] pc \in {"report", "report_early"} -> 1 [] pc = "done" -> 0

Stages(s) ==  \* of a server
  CASE s = "none" -> 5 [] s = "starting" -> 4 [] s = "up" -> 3 [] s = "thrown" -> 2
    [] s = "closing" -> 1 [] s = "exited" -> 0

RoomLeft(r) == Commands(watchdog[r]) + Stages(server[r])

CleanLeft(w) ==  \* of a clean-up: three commands a room, one to list, one to leave
  CASE shell[w].at = "list" -> 3 * Cardinality(Rooms) + 2
    [] shell[w].at = "next" -> 3 * Cardinality(todo[w]) + 1
    [] shell[w].at = "drop" -> 3 * Cardinality(todo[w]) + 3
    [] shell[w].at = "tell" -> 3 * Cardinality(todo[w]) + 2
    [] OTHER -> 0

RoomsDescend ==
  \A r \in Rooms : /\ Room(r) \/ Server(r) => RoomLeft(r)' < RoomLeft(r)
                   /\ RoomLeft(r)' <= RoomLeft(r)
CleanUpsDescend ==
  \A w \in Workers : shell[w].at \notin {"poll", "popped"} =>
    /\ CleanUp(w) => CleanLeft(w)' < CleanLeft(w)
    /\ CleanLeft(w)' <= CleanLeft(w)

(* The two summands are numbers.                                           *)
LEMMA LeftIsNatural ==
  ASSUME TypeOK, NEW r \in Rooms
  PROVE  Commands(watchdog[r]) \in 0..11 /\ Stages(server[r]) \in 0..5
<1>1. /\ watchdog[r] \in WatchdogPc
      /\ server[r] \in {"none", "starting", "up", "thrown", "closing", "exited"}
  BY DEF TypeOK
<1>2. Commands(watchdog[r]) \in 0..11
  BY <1>1 DEF Commands, WatchdogPc
<1>3. Stages(server[r]) \in 0..5
  BY <1>1 DEF Stages
<1> QED BY <1>2, <1>3

(* A command of the watchdog brings it nearer to its end.                  *)
LEMMA WatchdogDescends ==
  ASSUME IInv, NEW r \in Rooms, Room(r)
  PROVE  /\ Commands(watchdog'[r]) < Commands(watchdog[r])
         /\ Stages(server'[r]) <= Stages(server[r])
         /\ \A q \in Rooms \ {r} : watchdog'[q] = watchdog[q] /\ server'[q] = server[q]
<1>0. /\ watchdog \in [Rooms -> WatchdogPc] /\ TypeOK
      /\ server \in [Rooms -> {"none", "starting", "up", "thrown", "closing", "exited"}]
      /\ watchdog[r] = "fork" => server[r] = "none"
  BY DEF IInv, Parts, TypeOK, NotStarted
<1>1. \A pc : Goto(r, pc) => /\ watchdog'[r] = pc
                             /\ \A q \in Rooms \ {r} : watchdog'[q] = watchdog[q]
  BY <1>0 DEF Goto
<1>2. CASE Fork(r)
  <2>1. /\ watchdog[r] = "fork" /\ Goto(r, "register")
        /\ server' = [server EXCEPT ![r] = "starting"]
    BY <1>2 DEF Fork, At
  <2>2. Commands("register") < Commands("fork") /\ Stages("starting") <= Stages("none")
    BY DEF Commands, Stages
  <2> QED BY <1>0, <1>1, <2>1, <2>2
<1>3. CASE ~Fork(r)
  <2>1. server' = server
    BY <1>3 DEF Room, Register, MapWorker, Announce, EndGrace, NoticeExit, Wait, Unregister,
                Unmap, Report, serverVars
  <2>2. Stages(server'[r]) <= Stages(server[r])
    BY <2>1, <1>0, LeftIsNatural
  <2>3. \E pc \in WatchdogPc : Goto(r, pc) /\ Commands(pc) < Commands(watchdog[r])
    <3>1. CASE Register(r) \/ MapWorker(r) \/ Announce(r)
      BY <3>1 DEF Register, MapWorker, Announce, At, Commands, WatchdogPc
    <3>2. CASE EndGrace(r)
      BY <3>2 DEF EndGrace, At, Commands, WatchdogPc
    <3>3. CASE NoticeExit(r) \/ Wait(r)
      BY <3>3 DEF NoticeExit, Wait, At, Commands, WatchdogPc
    <3>4. CASE Unregister(r) \/ Unmap(r)
      BY <3>4 DEF Unregister, Unmap, At, Commands, WatchdogPc
    <3>5. CASE Report(r)
      BY <3>5 DEF Report, At, Commands, WatchdogPc
    <3> QED BY <1>3, <3>1, <3>2, <3>3, <3>4, <3>5 DEF Room
  <2> QED BY <1>1, <2>1, <2>2, <2>3
<1> QED BY <1>2, <1>3

(* And a step of the server brings the server nearer to its end.           *)
LEMMA ServerDescends ==
  ASSUME IInv, NEW r \in Rooms, Server(r)
  PROVE  /\ Stages(server'[r]) < Stages(server[r]) /\ watchdog' = watchdog
         /\ \A q \in Rooms \ {r} : server'[q] = server[q]
<1>0. /\ server \in [Rooms -> {"none", "starting", "up", "thrown", "closing", "exited"}]
  BY DEF IInv, TypeOK
<1>1. watchdog' = watchdog
  BY DEF Server, ServerReady, ServerThrows, ServerFinishes, ServerExits, ServerDies
<1>2. /\ Stages("none") = 5 /\ Stages("starting") = 4 /\ Stages("up") = 3
      /\ Stages("thrown") = 2 /\ Stages("closing") = 1 /\ Stages("exited") = 0
  BY DEF Stages
<1>3. \E s : server' = [server EXCEPT ![r] = s] /\ Stages(s) < Stages(server[r])
  <2>1. CASE ServerReady(r)
    <3>1. server[r] = "starting" /\ server' = [server EXCEPT ![r] = "up"]
      BY <2>1 DEF ServerReady
    <3>2. Stages("up") < Stages(server[r])
      BY <1>2, <3>1
    <3> QED BY <3>1, <3>2
  <2>2. CASE ServerThrows(r)
    <3>1. server[r] = "up" /\ server' = [server EXCEPT ![r] = "thrown"]
      BY <2>2 DEF ServerThrows
    <3>2. Stages("thrown") < Stages(server[r])
      BY <1>2, <3>1
    <3> QED BY <3>1, <3>2
  <2>3. CASE ServerFinishes(r)
    <3>1. server[r] \in {"up", "thrown"} /\ server' = [server EXCEPT ![r] = "closing"]
      BY <2>3 DEF ServerFinishes
    <3>2. Stages("closing") < Stages(server[r])
      BY <1>2, <3>1
    <3> QED BY <3>1, <3>2
  <2>4. CASE ServerExits(r) \/ ServerDies(r)
    <3>1. /\ server[r] \in {"starting", "up", "thrown", "closing"}
          /\ server' = [server EXCEPT ![r] = "exited"]
      BY <1>0, <2>4 DEF ServerExits, ServerDies
    <3>2. Stages("exited") < Stages(server[r])
      BY <1>2, <3>1
    <3> QED BY <3>1, <3>2
  <2> QED BY <2>1, <2>2, <2>3, <2>4 DEF Server
<1> QED BY <1>0, <1>1, <1>3

(* Every command of a watchdog and every step of a server brings the room  *)
(* nearer to its rest, and nothing else anybody does takes it away from    *)
(* there: a room takes at most 16 steps.                                   *)
THEOREM RoomsRunDown == Spec => [](\A r \in Rooms : RoomLeft(r) \in 0..16) /\ [][RoomsDescend]_vars
<1>1. IInv => \A r \in Rooms : RoomLeft(r) \in 0..16
  <2> SUFFICES ASSUME IInv, NEW r \in Rooms PROVE RoomLeft(r) \in 0..16
    OBVIOUS
  <2>1. Commands(watchdog[r]) \in 0..11 /\ Stages(server[r]) \in 0..5
    BY LeftIsNatural DEF IInv
  <2> QED BY <2>1 DEF RoomLeft
<1>2. IInv /\ [Next]_vars => [RoomsDescend]_vars
  <2> SUFFICES ASSUME IInv, Next, NEW q \in Rooms
               PROVE  /\ Room(q) \/ Server(q) => RoomLeft(q)' < RoomLeft(q)
                      /\ RoomLeft(q)' <= RoomLeft(q)
    BY DEF RoomsDescend
  <2>0. /\ TypeOK /\ HasRoom /\ TakenOnce /\ IInv'
        /\ watchdog \in [Rooms -> WatchdogPc]
    BY NextIInv DEF IInv, Parts, TypeOK
  <2>n. /\ Commands(watchdog[q]) \in Nat /\ Stages(server[q]) \in Nat
        /\ Commands(watchdog'[q]) \in Nat /\ Stages(server'[q]) \in Nat
    <3>1. Commands(watchdog[q]) \in 0..11 /\ Stages(server[q]) \in 0..5
      BY <2>0, LeftIsNatural
    <3>2. Commands(watchdog'[q]) \in 0..11 /\ Stages(server'[q]) \in 0..5
      <4>1. /\ watchdog'[q] \in WatchdogPc
            /\ server'[q] \in {"none", "starting", "up", "thrown", "closing", "exited"}
        BY <2>0 DEF IInv, TypeOK
      <4>2. Commands(watchdog'[q]) \in 0..11
        BY <4>1 DEF Commands, WatchdogPc
      <4> QED BY <4>1, <4>2 DEF Stages
    <3> QED BY <3>1, <3>2
  <2>1. Room(q) => RoomLeft(q)' < RoomLeft(q)
    BY <2>n, WatchdogDescends DEF RoomLeft
  <2>2. Server(q) => RoomLeft(q)' < RoomLeft(q)
    BY <2>n, ServerDescends DEF RoomLeft
  <2>3. RoomLeft(q) \in Nat /\ RoomLeft(q)' \in Nat
    BY <2>n DEF RoomLeft
  <2>4. ASSUME NEW r \in Rooms, Request(r) \/ Room(r) \/ Server(r) PROVE RoomLeft(q)' <= RoomLeft(q)
    <3>1. CASE r = q /\ ~Request(r)
      BY <2>1, <2>2, <2>3, <2>4, <3>1
    <3>2. CASE r # q \/ Request(r)
      <4>1. watchdog'[q] = watchdog[q] /\ server'[q] = server[q]
        BY <2>4, <3>2, WatchdogDescends, ServerDescends DEF Request, serverVars
      <4> QED BY <2>3, <4>1 DEF RoomLeft
    <3> QED BY <3>1, <3>2
  <2>5. ASSUME NEW w \in Workers, Pop(w) \/ Interrupt(w) \/ CleanUp(w)
        PROVE  RoomLeft(q)' <= RoomLeft(q)
    <3>1. UNCHANGED <<watchdog, server>>
      BY <2>5 DEF Pop, Interrupt, CleanUp, ListActive, KillRoom, DropRoom, TellCrash, Leave,
                  serverVars
    <3> QED BY <2>3, <3>1 DEF RoomLeft
  <2>6. ASSUME NEW w \in Workers, Spawn(w) PROVE RoomLeft(q)' <= RoomLeft(q)
    <3>1. /\ shell[w].room \in Rooms /\ watchdog[shell[w].room] = "none"
      BY <2>0, <2>6 DEF Spawn, TakenOnce, HasRoom, Busy, Popped
    <3>2. watchdog' = [watchdog EXCEPT ![shell[w].room] = "fork"] /\ server' = server
      BY <2>6 DEF Spawn
    <3>3. Commands("fork") <= Commands("none")
      BY DEF Commands
    <3>4. Commands(watchdog'[q]) <= Commands(watchdog[q]) /\ server'[q] = server[q]
      BY <2>0, <2>n, <3>1, <3>2, <3>3
    <3> QED BY <2>n, <3>4 DEF RoomLeft
  <2> QED BY <2>1, <2>2, <2>4, <2>5, <2>6 DEF Next
<1> QED BY <1>1, <1>2, Invariance, PTL DEF Spec

(* The numbers of a clean-up.                                              *)
LEMMA TodoType ==
  ASSUME TypeOK, NEW w \in Workers
  PROVE  /\ IsFiniteSet(todo[w]) /\ Cardinality(todo[w]) \in Nat
         /\ Cardinality(todo[w]) <= Cardinality(Rooms) /\ Cardinality(Rooms) \in Nat
<1>1. todo[w] \subseteq Rooms
  BY DEF TypeOK
<1> QED BY <1>1, Numbers, FS_Subset, FS_CardinalityType

(* Every command of a clean-up brings it nearer to its exit, however many  *)
(* rooms it has found and whatever else removes from or adds to gf.active  *)
(* meanwhile: it deals with every listed room once, and then leaves.       *)
THEOREM CleanUpsRunDown ==
  Spec => [](\A w \in Workers : CleanLeft(w) \in Nat) /\ [][CleanUpsDescend]_vars
<1>1. TypeOK => \A w \in Workers : CleanLeft(w) \in Nat
  BY TodoType DEF CleanLeft
<1>2. IInv /\ [Next]_vars => [CleanUpsDescend]_vars
  <2> SUFFICES ASSUME IInv, Next, NEW w \in Workers, shell[w].at \notin {"poll", "popped"}
               PROVE  /\ CleanUp(w) => CleanLeft(w)' < CleanLeft(w)
                      /\ CleanLeft(w)' <= CleanLeft(w)
    BY DEF CleanUpsDescend
  <2> DEFINE n == Cardinality(todo[w])
             m == Cardinality(todo'[w])
  <2>0. /\ TypeOK /\ TypeOK' /\ shell \in [Workers -> Shells]
        /\ todo \in [Workers -> SUBSET Rooms]
    BY NextIInv DEF IInv, TypeOK, Shells
  <2>n. /\ n \in Nat /\ n <= Cardinality(Rooms) /\ Cardinality(Rooms) \in Nat
        /\ IsFiniteSet(todo[w])
    BY <2>0, TodoType
  <2>m. /\ m \in Nat /\ m <= Cardinality(Rooms)
    <3>1. todo'[w] \subseteq Rooms
      BY <2>0 DEF TypeOK
    <3> QED BY <3>1, Numbers, FS_Subset, FS_CardinalityType
  <2>s. \A at, room : Clean(w, at, room) => shell'[w].at = at
    BY <2>0 DEF Clean
  <2>c. /\ CleanLeft(w) = CASE shell[w].at = "list" -> 3 * Cardinality(Rooms) + 2
                            [] shell[w].at = "next" -> 3 * n + 1
                            [] shell[w].at = "drop" -> 3 * n + 3
                            [] shell[w].at = "tell" -> 3 * n + 2
                            [] OTHER -> 0
        /\ CleanLeft(w)' = CASE shell'[w].at = "list" -> 3 * Cardinality(Rooms) + 2
                             [] shell'[w].at = "next" -> 3 * m + 1
                             [] shell'[w].at = "drop" -> 3 * m + 3
                             [] shell'[w].at = "tell" -> 3 * m + 2
                             [] OTHER -> 0
    BY DEF CleanLeft
  <2> HIDE DEF n, m
  <2>1. CASE CleanUp(w)
    <3>1. CASE ListActive(w)
      <4>1. shell[w].at = "list" /\ shell'[w].at = "next"
        BY <2>s, <3>1 DEF ListActive
      <4> QED BY <2>n, <2>m, <2>c, <4>1
    <3>2. CASE KillRoom(w)
      <4>1. PICK r \in todo[w] : /\ todo' = [todo EXCEPT ![w] = @ \ {r}]
                                 /\ Clean(w, "drop", r) \/ UNCHANGED shell
        BY <3>2 DEF KillRoom
      <4>2. shell[w].at = "next" /\ shell'[w].at \in {"drop", "next"}
        BY <2>s, <3>2, <4>1 DEF KillRoom
      <4>3. m = n - 1
        <5>1. todo'[w] = todo[w] \ {r}
          BY <2>0, <4>1
        <5> QED BY <2>n, <4>1, <5>1, FS_RemoveElement DEF n, m
      <4> QED BY <2>n, <2>m, <2>c, <4>2, <4>3
    <3>3. CASE DropRoom(w)
      <4>1. shell[w].at = "drop" /\ shell'[w].at = "tell" /\ m = n
        BY <2>s, <3>3 DEF DropRoom, n, m
      <4> QED BY <2>n, <2>c, <4>1
    <3>4. CASE TellCrash(w)
      <4>1. shell[w].at = "tell" /\ shell'[w].at = "next" /\ m = n
        BY <2>s, <3>4 DEF TellCrash, n, m
      <4> QED BY <2>n, <2>c, <4>1
    <3>5. CASE Leave(w)
      <4>1. shell[w].at = "next" /\ shell'[w].at = "exited"
        BY <2>s, <3>5 DEF Leave
      <4> QED BY <2>n, <2>c, <4>1
    <3>6. CleanLeft(w)' < CleanLeft(w)
      BY <2>1, <3>1, <3>2, <3>3, <3>4, <3>5 DEF CleanUp
    <3>7. CleanLeft(w) \in Nat /\ CleanLeft(w)' \in Nat
      BY <2>n, <2>m, <2>c
    <3> QED BY <3>6, <3>7
  <2>2. CASE ~CleanUp(w)
    <3>1. shell'[w] = shell[w] /\ todo'[w] = todo[w]
      <4>1. ASSUME NEW r \in Rooms, Request(r) \/ Room(r) \/ Server(r) PROVE UNCHANGED shellVars
        BY <4>1 DEF Request, Room, Fork, Register, MapWorker, Announce, EndGrace, NoticeExit, Wait,
                    Unregister, Unmap, Report, Server, ServerReady, ServerThrows, ServerFinishes,
                    ServerExits, ServerDies
      <4>2. ASSUME NEW v \in Workers, Pop(v) \/ Spawn(v) \/ Interrupt(v)
            PROVE  v # w /\ todo' = todo
                   /\ \E s : shell' = [shell EXCEPT ![v] = s]
        BY <4>2 DEF Pop, Spawn, Interrupt, Clean
      <4>3. ASSUME NEW v \in Workers, CleanUp(v), v # w
            PROVE  /\ todo' = todo \/ \E t : todo' = [todo EXCEPT ![v] = t]
                   /\ shell' = shell \/ \E s : shell' = [shell EXCEPT ![v] = s]
        BY <4>3 DEF CleanUp, ListActive, KillRoom, DropRoom, TellCrash, Leave, Clean, Stored
      <4> QED BY <2>0, <2>2, <4>1, <4>2, <4>3 DEF Next, shellVars
    <3>2. CleanLeft(w) \in Nat /\ CleanLeft(w)' = CleanLeft(w)
      <4>1. m = n
        BY <3>1 DEF m, n
      <4> QED BY <2>n, <2>c, <3>1, <4>1
    <3> QED BY <2>2, <3>2
  <2> QED BY <2>1, <2>2
<1> QED BY <1>1, <1>2, Invariance, Typed, PTL DEF Spec
=============================================================================
