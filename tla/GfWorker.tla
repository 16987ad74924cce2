------------------------------ MODULE GfWorker ------------------------------
(***************************************************************************)
(* scripts/gf-worker.sh on several machines that share one Redis: the poll *)
(* loop that takes spawn requests, the watchdog subshell of every room,    *)
(* the clean-up on SIGINT or SIGTERM, and the gf_server processes, seen    *)
(* through what they publish and how they exit.  The heartbeat subshell,   *)
(* which touches only gf.workers, is left out.                             *)
(*                                                                         *)
(* A watchdog is followed command by command:                              *)
(*   fork -> register -> map -> announce -> grace -> watch -> wait         *)
(*     -> unregister -> unmap -> report -> done                            *)
(* Every redis-cli call ends in "|| true": a call may be lost.             *)
(***************************************************************************)
EXTENDS Integers, Sequences, FiniteSets

CONSTANTS
  Workers,
  Rooms,          \* every room is requested once, in any order
  MaxFaults,      \* bound: redis-cli calls that are lost
  MaxSignals,     \* bound: workers that receive SIGINT or SIGTERM
  MaxEarlyExits,  \* bound: servers that are gone before the 5 s grace is over
  CanDie          \* whether a server may exit with a code other than 0

ASSUME WorkerAssumption ==
  /\ Workers # {} /\ IsFiniteSet(Workers) /\ IsFiniteSet(Rooms)
  /\ MaxFaults \in Nat /\ MaxSignals \in Nat /\ MaxEarlyExits \in Nat
  /\ CanDie \in BOOLEAN

NoRoom == [none |-> "room"]
NoWorker == [none |-> "worker"]
NoPid == 0

VARIABLES
  spawn,      \* Redis list gf.spawn, oldest request first
  requested,  \* rooms ever pushed to it
  active,     \* Redis hash gf.active: room to process id
  workerMap,  \* Redis hash gf.worker_map: room to worker
  published,  \* what has been published about each room, in order
  shell,      \* the worker's shell: what it does, and for which room
  todo,       \* rooms that a clean-up has listed and not dealt with
  watchdog,   \* the room's subshell
  host,       \* the worker that took the request for the room
  pid,        \* process id of the room's server on its host
  server,     \* the room's gf_server
  code,       \* its exit code
  signalled,  \* history: rooms whose server has been sent SIGTERM
  faults, early

redisVars == <<spawn, requested, active, workerMap, published, faults>>
shellVars == <<shell, todo>>
serverVars == <<host, pid, server, code, signalled, early>>
vars == <<redisVars, shellVars, watchdog, serverVars>>

Init ==
  /\ spawn = <<>> /\ requested = {}
  /\ active = [r \in Rooms |-> NoPid] /\ workerMap = [r \in Rooms |-> NoWorker]
  /\ published = [r \in Rooms |-> <<>>] /\ faults = 0
  /\ shell = [w \in Workers |-> [at |-> "poll", room |-> NoRoom]]
  /\ todo = [w \in Workers |-> {}]
  /\ watchdog = [r \in Rooms |-> "none"]
  /\ host = [r \in Rooms |-> NoWorker] /\ pid = [r \in Rooms |-> NoPid]
  /\ server = [r \in Rooms |-> "none"] /\ code = [r \in Rooms |-> 0]
  /\ signalled = {} /\ early = 0

-----------------------------------------------------------------------------
(* Redis calls: one that takes effect, or one that is lost.                *)

Lost == faults < MaxFaults /\ faults' = faults + 1
Stored(done) == done /\ UNCHANGED faults

Said(r, what) == published' = [published EXCEPT ![r] = Append(@, what)]

Unregistered(r) == active' = [active EXCEPT ![r] = NoPid]

(* The session service asks for a room.                                    *)
Request(r) ==
  /\ r \notin requested
  /\ requested' = requested \cup {r} /\ spawn' = Append(spawn, r)
  /\ UNCHANGED <<active, workerMap, published, faults, shellVars,
                 watchdog, serverVars>>

-----------------------------------------------------------------------------
(* The poll loop.                                                          *)

(* BRPOP: the request is gone from Redis before the shell has looked at it.*)
Pop(w) ==
  /\ shell[w].at = "poll" /\ spawn # <<>>
  /\ shell' = [shell EXCEPT ![w] = [at |-> "popped", room |-> Head(spawn)]]
  /\ spawn' = Tail(spawn)
  /\ UNCHANGED <<requested, active, workerMap, published, faults,
                 todo, watchdog, serverVars>>

Spawn(w) ==
  /\ shell[w].at = "popped"
  /\ watchdog' = [watchdog EXCEPT ![shell[w].room] = "fork"]
  /\ host' = [host EXCEPT ![shell[w].room] = w]
  /\ shell' = [shell EXCEPT ![w] = [at |-> "poll", room |-> NoRoom]]
  /\ UNCHANGED <<redisVars, todo, pid, server, code, signalled, early>>

-----------------------------------------------------------------------------
(* The watchdog of room r.                                                 *)

At(r, pc) == watchdog[r] = pc
Goto(r, pc) == watchdog' = [watchdog EXCEPT ![r] = pc]
Gone(r) == server[r] = "exited"

\* Mutant of Fork: $! is read before the server is started.
Fork_NoPid(r) ==
  /\ At(r, "fork") /\ Goto(r, "register")
  /\ server' = [server EXCEPT ![r] = "starting"]
  /\ UNCHANGED <<redisVars, shellVars, host, pid, code, signalled, early>>

(* Process ids count up on each machine and are not used twice.            *)
Fork(r) ==
  /\ At(r, "fork") /\ Goto(r, "register")
  /\ server' = [server EXCEPT ![r] = "starting"]
  /\ pid' = [pid EXCEPT ![r] =
       1 + Cardinality({q \in Rooms : host[q] = host[r] /\ pid[q] # NoPid})]
  /\ UNCHANGED <<redisVars, shellVars, host, code, signalled, early>>

Register(r) ==
  /\ At(r, "register") /\ Goto(r, "map")
  /\ \/ Stored(active' = [active EXCEPT ![r] = pid[r]])
     \/ Lost /\ UNCHANGED active
  /\ UNCHANGED <<spawn, requested, workerMap, published, shellVars,
                 serverVars>>

MapWorker(r) ==
  /\ At(r, "map") /\ Goto(r, "announce")
  /\ \/ Stored(workerMap' = [workerMap EXCEPT ![r] = host[r]])
     \/ Lost /\ UNCHANGED workerMap
  /\ UNCHANGED <<spawn, requested, active, published, shellVars, serverVars>>

Announce(r) ==
  /\ At(r, "announce") /\ Goto(r, "grace")
  /\ Stored(Said(r, "ready")) \/ (Lost /\ UNCHANGED published)
  /\ UNCHANGED <<spawn, requested, active, workerMap, shellVars, serverVars>>

\* Mutant of EndGrace: the test without its "!".
EndGrace_Inverted(r) ==
  /\ At(r, "grace")
  /\ Goto(r, IF Gone(r) THEN "watch" ELSE "unregister_early")
  /\ UNCHANGED <<redisVars, shellVars, serverVars>>

(* After sleep 5: is the server still there?                               *)
EndGrace(r) ==
  /\ At(r, "grace")
  /\ Goto(r, IF Gone(r) THEN "unregister_early" ELSE "watch")
  /\ UNCHANGED <<redisVars, shellVars, serverVars>>

NoticeExit(r) ==
  /\ At(r, "watch") /\ Gone(r) /\ Goto(r, "wait")
  /\ UNCHANGED <<redisVars, shellVars, serverVars>>

(* wait "$PID" under "set -e": any code but 0 ends the subshell here.      *)
Wait(r) ==
  /\ At(r, "wait")
  /\ Goto(r, IF code[r] = 0 THEN "unregister" ELSE "done")
  /\ UNCHANGED <<redisVars, shellVars, serverVars>>

\* Mutant of Unregister: gf.active is left as it is.
Unregister_Forgets(r) ==
  /\ \/ At(r, "unregister") /\ Goto(r, "unmap")
     \/ At(r, "unregister_early") /\ Goto(r, "unmap_early")
  /\ UNCHANGED <<redisVars, shellVars, serverVars>>
Unregister(r) ==
  /\ \/ At(r, "unregister") /\ Goto(r, "unmap")
     \/ At(r, "unregister_early") /\ Goto(r, "unmap_early")
  /\ Stored(Unregistered(r)) \/ (Lost /\ UNCHANGED active)
  /\ UNCHANGED <<spawn, requested, workerMap, published, shellVars,
                 serverVars>>

Unmap(r) ==
  /\ \/ At(r, "unmap") /\ Goto(r, "report")
     \/ At(r, "unmap_early") /\ Goto(r, "report_early")
  /\ \/ Stored(workerMap' = [workerMap EXCEPT ![r] = NoWorker])
     \/ Lost /\ UNCHANGED workerMap
  /\ UNCHANGED <<spawn, requested, active, published, shellVars, serverVars>>

\* Mutant of Report: a server that is gone early is not reported.
Report_LateOnly(r) ==
  /\ At(r, "report") /\ Goto(r, "done")
  /\ Stored(Said(r, "finished")) \/ (Lost /\ UNCHANGED published)
  /\ UNCHANGED <<spawn, requested, active, workerMap, shellVars, serverVars>>
Report(r) ==
  /\ At(r, "report") \/ At(r, "report_early")
  /\ Goto(r, "done")
  /\ \/ Stored(Said(r, IF At(r, "report_early") \/ code[r] # 0
                         THEN "crashed" ELSE "finished"))
     \/ Lost /\ UNCHANGED published
  /\ UNCHANGED <<spawn, requested, active, workerMap, shellVars, serverVars>>

-----------------------------------------------------------------------------
(* The room's gf_server (module GameServer), as the worker sees it.        *)

ServerReady(r) ==
  /\ server[r] = "starting" /\ server' = [server EXCEPT ![r] = "up"]
  /\ Stored(Said(r, "ready")) \/ (Lost /\ UNCHANGED published)
  /\ UNCHANGED <<spawn, requested, active, workerMap, shellVars,
                 watchdog, host, pid, code, signalled, early>>

\* Mutant of ServerThrows: gf.crashed is the last word.
ServerThrows_Closes(r) ==
  /\ server[r] = "up" /\ server' = [server EXCEPT ![r] = "closing"]
  /\ Stored(Said(r, "crashed")) \/ (Lost /\ UNCHANGED published)
  /\ UNCHANGED <<spawn, requested, active, workerMap, shellVars,
                 watchdog, host, pid, code, signalled, early>>
(* tick() threw: gf.crashed, then on to the end like any other match.      *)
ServerThrows(r) ==
  /\ server[r] = "up" /\ server' = [server EXCEPT ![r] = "thrown"]
  /\ Stored(Said(r, "crashed")) \/ (Lost /\ UNCHANGED published)
  /\ UNCHANGED <<spawn, requested, active, workerMap, shellVars,
                 watchdog, host, pid, code, signalled, early>>

ServerFinishes(r) ==
  /\ server[r] \in {"up", "thrown"}
  /\ server' = [server EXCEPT ![r] = "closing"]
  /\ Stored(Said(r, "finished")) \/ (Lost /\ UNCHANGED published)
  /\ UNCHANGED <<spawn, requested, active, workerMap, shellVars,
                 watchdog, host, pid, code, signalled, early>>

(* Most matches outlast the grace period.                                  *)
InTime(r) ==
  IF watchdog[r] \in {"register", "map", "announce", "grace"}
    THEN early < MaxEarlyExits /\ early' = early + 1 ELSE UNCHANGED early

ServerExits(r) ==
  /\ server[r] = "closing" /\ InTime(r)
  /\ server' = [server EXCEPT ![r] = "exited"]
  /\ UNCHANGED <<redisVars, shellVars, watchdog, host, pid, code, signalled>>

(* A fault, the kernel, or a SIGTERM before main() has set its handler.    *)
ServerDies(r) ==
  /\ CanDie /\ server[r] \notin {"none", "exited"} /\ InTime(r)
  /\ server' = [server EXCEPT ![r] = "exited"] /\ code' = [code EXCEPT ![r] = 1]
  /\ UNCHANGED <<redisVars, shellVars, watchdog, host, pid, signalled>>

-----------------------------------------------------------------------------
(* cleanup().  The trap runs between two commands of the main shell.       *)

Clean(w, at, r) == shell' = [shell EXCEPT ![w] = [at |-> at, room |-> r]]

Interrupt(w) ==
  /\ shell[w].at \in {"poll", "popped"}
  /\ Cardinality({v \in Workers : shell[v].at \notin {"poll", "popped"}}) < MaxSignals
  /\ Clean(w, "list", NoRoom)
  /\ UNCHANGED <<redisVars, todo, watchdog, serverVars>>

(* HKEYS gf.active: the rooms of every worker.                             *)
ListActive(w) ==
  /\ shell[w].at = "list" /\ Clean(w, "next", NoRoom)
  /\ \/ Stored(todo' = [todo EXCEPT ![w] = {r \in Rooms : active[r] # NoPid}])
     \/ Lost /\ UNCHANGED todo
  /\ UNCHANGED <<spawn, requested, active, workerMap, published,
                 watchdog, serverVars>>

(* HGET, then kill: the number is looked up on this machine.               *)
KillRoom(w) ==
  /\ shell[w].at = "next"
  /\ \E r \in todo[w] :
       /\ todo' = [todo EXCEPT ![w] = @ \ {r}]
       /\ \/ /\ active[r] # NoPid /\ UNCHANGED faults
             /\ signalled' = signalled \cup
                  {q \in Rooms : host[q] = w /\ pid[q] = active[r] /\ ~Gone(q)}
             /\ Clean(w, "drop", r)
          \/ /\ active[r] = NoPid /\ UNCHANGED <<faults, signalled, shell>>
          \/ /\ Lost /\ UNCHANGED <<signalled, shell>>
  /\ UNCHANGED <<spawn, requested, active, workerMap, published,
                 watchdog, host, pid, server, code, early>>

DropRoom(w) ==
  /\ shell[w].at = "drop" /\ Clean(w, "tell", shell[w].room)
  /\ Stored(Unregistered(shell[w].room)) \/ (Lost /\ UNCHANGED active)
  /\ UNCHANGED <<spawn, requested, workerMap, published, todo,
                 watchdog, serverVars>>

TellCrash(w) ==
  /\ shell[w].at = "tell" /\ Clean(w, "next", NoRoom)
  /\ Stored(Said(shell[w].room, "crashed")) \/ (Lost /\ UNCHANGED published)
  /\ UNCHANGED <<spawn, requested, active, workerMap, todo,
                 watchdog, serverVars>>

Leave(w) ==
  /\ shell[w].at = "next" /\ todo[w] = {} /\ Clean(w, "exited", NoRoom)
  /\ UNCHANGED <<redisVars, todo, watchdog, serverVars>>
-----------------------------------------------------------------------------
Room(r) ==
  \/ Fork(r) \/ Register(r) \/ MapWorker(r) \/ Announce(r) \/ EndGrace(r)
  \/ NoticeExit(r) \/ Wait(r) \/ Unregister(r) \/ Unmap(r) \/ Report(r)
Server(r) ==
  \/ ServerReady(r) \/ ServerThrows(r) \/ ServerFinishes(r) \/ ServerExits(r)
  \/ ServerDies(r)
CleanUp(w) ==
  ListActive(w) \/ KillRoom(w) \/ DropRoom(w) \/ TellCrash(w) \/ Leave(w)

Next ==
  \/ \E r \in Rooms : Request(r) \/ Room(r) \/ Server(r)
  \/ \E w \in Workers : Pop(w) \/ Spawn(w) \/ Interrupt(w) \/ CleanUp(w)

Spec == Init /\ [][Next]_vars

(* Shells and servers are processes the machines schedule; a match has a   *)
(* duration, so a server comes to its end (GameServer, Terminates).        *)
Fairness ==
  /\ \A r \in Rooms : WF_vars(Room(r)) /\ WF_vars(Server(r))
  /\ \A w \in Workers : WF_vars(Pop(w) \/ Spawn(w)) /\ WF_vars(CleanUp(w))
FairSpec == Spec /\ Fairness

-----------------------------------------------------------------------------
(* What has to hold.                                                       *)

WatchdogPc == {"none", "fork", "register", "map", "announce", "grace", "watch",
               "wait", "unregister", "unregister_early", "unmap", "unmap_early",
               "report", "report_early", "done"}
Verdict == {"finished", "crashed"}

\* Every variable keeps its type; gf.active and gf.worker_map hold what the
\* room's watchdog wrote there or nothing, and a started server has its id.
TypeOK ==
  /\ spawn \in Seq(Rooms) /\ requested \subseteq Rooms
  /\ active \in [Rooms -> Nat] /\ workerMap \in [Rooms -> Workers \cup {NoWorker}]
  /\ \A r \in Rooms : /\ active[r] \in {NoPid, pid[r]}
                      /\ workerMap[r] \in {NoWorker, host[r]}
                      /\ (server[r] # "none" => pid[r] # NoPid)
  /\ published \in [Rooms -> Seq(Verdict \cup {"ready"})]
  /\ shell \in [Workers -> [at : {"poll", "popped", "list", "next", "drop", "tell",
                                  "exited"}, room : Rooms \cup {NoRoom}]]
  /\ todo \in [Workers -> SUBSET Rooms]
  /\ watchdog \in [Rooms -> WatchdogPc]
  /\ host \in [Rooms -> Workers \cup {NoWorker}] /\ pid \in [Rooms -> Nat]
  /\ server \in [Rooms -> {"none", "starting", "up", "thrown", "closing", "exited"}]
  /\ code \in [Rooms -> {0, 1}] /\ signalled \subseteq Rooms
  /\ faults \in 0..MaxFaults /\ early \in 0..MaxEarlyExits

Told(r, verdicts) == \E i \in DOMAIN published[r] : published[r][i] \in verdicts

Interrupted == \E w \in Workers : shell[w].at \notin {"poll", "popped"}

\* Once a room's watchdog is done with a server that exited with code 0,
\* neither gf.active nor gf.worker_map knows the room, whatever the clean-ups
\* of this or other workers did meanwhile.
NoStaleRoom ==
  \A r \in Rooms : (faults = 0 /\ At(r, "done") /\ code[r] = 0) =>
                     active[r] = NoPid /\ workerMap[r] = NoWorker

\* A server that runs is in gf.active, unless its watchdog is about to enter
\* it there or a worker is cleaning up.
RunningIsRegistered ==
  (faults = 0 /\ ~Interrupted) =>
    \A r \in Rooms : server[r] \notin {"none", "exited"} =>
                       active[r] = pid[r] \/ At(r, "register")

(* A verdict at j after the server's own "finished" at i; between the two, *)
(* and after them, nobody says "crashed".                                  *)
Closed(word, i, j) == i < j /\ word[i] = "finished" /\ word[j] \in Verdict
Undisputed(word, i, j) ==
  j = Len(word) /\ \A k \in DOMAIN word : word[k] = "crashed" => k < i \/ k = j

\* Whoever else speaks about a room, the watchdog's verdict on a server that
\* exits with code 0 follows the server's own "finished".  Without a clean-up
\* a room is ready first, "crashed" is always taken back by the server that
\* said it, and so the verdict is the last word and the one that stands.
WatchdogHasTheLastWord ==
  faults = 0 =>
    \A r \in Rooms :
      LET word == published[r] IN
      /\ ~Interrupted /\ word # <<>> => word[1] = "ready"
      /\ At(r, "done") /\ code[r] = 0 =>
           \E i, j \in DOMAIN word :
             Closed(word, i, j) /\ (Undisputed(word, i, j) \/ Interrupted)

\* Every room taken from gf.spawn comes to rest, and unless a call was lost or
\* its server died, it has been reported as finished or crashed.  A server that
\* has died by the end of the grace period is reported too, and forgotten.
EveryRoomIsSettled ==
  \A r \in Rooms :
    /\ host[r] # NoWorker ~>
         At(r, "done") /\ (Told(r, Verdict) \/ faults > 0 \/ code[r] # 0)
    /\ (At(r, "grace") /\ Gone(r) /\ code[r] # 0) ~>
         (Told(r, {"crashed"}) /\ active[r] = NoPid) \/ faults > 0

\* What this module takes a server to be is a RoomServer, in whatever order the
\* watchdog, the clean-ups and the server itself speak about the room.
Life(r) == INSTANCE RoomServer WITH state <- server[r], said <- published[r]
ServersLive ==
  /\ \A r \in Rooms : Life(r)!Init
  /\ [][\A r \in Rooms : [Life(r)!Next]_(server[r])]_server

\* "Circuit complet: heartbeat, ready signal, crash detection": when a server
\* has died and its watchdog is done, gf.crashed has been published.
CrashIsDetected ==
  \A r \in Rooms :
    (faults = 0 /\ At(r, "done") /\ code[r] # 0) => Told(r, {"crashed"})
=============================================================================
