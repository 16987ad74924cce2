--------------------------- MODULE SelectionProofs ---------------------------
(* Theorems of Selection, for teams of every size.                         *)
EXTENDS Selection, FiniteSetTheorems, TLAPS

(* The parts of the inductive invariant beyond the properties.             *)
Manned == active # {}

Beginning ==
  /\ inPlay => started
  /\ stops = 0 /\ ~inPlay => ~started
  /\ ~started => booked = {} /\ active = Players

Selecting == at \in {"players", "cards", "button"} /\ inPlay => selected # NoOne

Turning == at = "cards" => turn \in active

Cleared == at # "input" /\ moved => ~switch

Resting ==
  ~inPlay /\ started /\ (at \in {"input", "referee", "designate"} \/ (at = "switch" /\ prepared >= 2))
    => selected = NoOne

OffPitchDesignation == designated \in active \/ stray \/ (designated = 1 /\ stops > 0)

IInv ==
  /\ TypeOK /\ BooksAgree /\ OneGoalkeeper /\ Manned /\ Beginning /\ Selecting
  /\ Turning /\ Cleared /\ Resting /\ OffPitchSelection /\ OffPitchDesignation

-----------------------------------------------------------------------------
(* The sizes of the team as numbers.                                       *)
LEMMA Numbers ==
  /\ TeamSize \in Nat /\ TeamSize > 0 /\ MaxStops \in Nat
  /\ 1 \in Players /\ NoOne \notin Players /\ Players \subseteq Nat
  BY SelectionAssumption DEF Players, NoOne

(* After SelectPlayer and its kin the books tell of the new player.        *)
LEMMA SetSelectedBooks ==
  ASSUME TypeOK, BooksAgree, NEW p \in Players \cup {NoOne}, SetSelected(p)
  PROVE  /\ selected' = p /\ external' = {p} \ {NoOne}
         /\ external' \subseteq Players
         /\ switch' \in BOOLEAN /\ moved' \in BOOLEAN
         /\ (moved => ~switch) => (moved' => ~switch')
<1>0. /\ external = {selected} \ {NoOne} /\ switch \in BOOLEAN /\ moved \in BOOLEAN
      /\ selected \in Players \cup {NoOne}
  BY DEF TypeOK, BooksAgree
<1>1. CASE p \in external \cup {selected} /\ UNCHANGED <<selected, external, switch, moved>>
  BY <1>0, <1>1, Numbers
<1>2. CASE /\ p \notin external \cup {selected} /\ selected' = p
           /\ external' = (external \ {selected}) \cup ({p} \ {NoOne})
           /\ switch' = (switch /\ p = NoOne) /\ moved' = (moved \/ p # NoOne)
  <2>1. external' = {p} \ {NoOne}
    BY <1>0, <1>2
  <2>2. (moved => ~switch) => (moved' => ~switch')
    BY <1>0, <1>2, Zenon
  <2> QED BY <1>0, <1>2, <2>1, <2>2, Numbers
<1> QED BY <1>1, <1>2 DEF SetSelected

(* SelectAnyone and DeselectPlayer choose among the active players.        *)
LEMMA ClosestIsActive ==
  ASSUME NEW e, TypeOK, NEW p \in Closest(e)
  PROVE  /\ p \in active \cup {NoOne} /\ p \in Players \cup {NoOne}
         /\ p \in e => p = NoOne
         /\ (\E q \in active : q \notin external /\ q \notin e) => p \in active
  BY DEF Closest, Controlled, TypeOK

(* A team of several has a player besides any given one.                   *)
LEMMA AnotherOne ==
  ASSUME NEW p, Cardinality(active) > 1
  PROVE  \E q \in active : q # p
<1> SUFFICES ASSUME \A q \in active : q = p PROVE FALSE
  OBVIOUS
<1>1. active = {} \/ active = {p}
  OBVIOUS
<1>2. Cardinality({p}) = 1
  BY FS_Singleton
<1>3. Cardinality({}) = 0
  BY FS_EmptySet
<1> QED BY <1>1, <1>2, <1>3

-----------------------------------------------------------------------------
(* The first player is designated and the gamer has him.                   *)
LEMMA InitIInv == Init => IInv
<1> SUFFICES ASSUME Init PROVE IInv
  OBVIOUS
<1>0. /\ turn \in 1..(TeamSize + 1) /\ prepared \in 0..3 /\ stops \in 0..MaxStops
  BY Numbers DEF Init
<1>5. active \subseteq Players /\ keepers \subseteq Players /\ booked \subseteq Players
  BY Numbers DEF Init
<1>1. TypeOK
  BY <1>0, <1>5 DEF Init, TypeOK, Stages
<1>4. BooksAgree /\ Manned
  BY Numbers DEF Init, BooksAgree, Manned
<1>2. OneGoalkeeper
  BY Numbers DEF Init, OneGoalkeeper, IsFirst, Players
<1>3. Beginning /\ Selecting /\ Turning /\ Cleared /\ Resting /\ OffPitchSelection /\ OffPitchDesignation
  BY Numbers DEF Init, Beginning, Selecting, Turning, Cleared, Resting, OffPitchSelection,
                 OffPitchDesignation
<1> QED BY <1>1, <1>2, <1>3, <1>4 DEF IInv

(* The steps that select nobody.                                           *)
LEMMA InputStep == IInv /\ Input => IInv'
<1> SUFFICES ASSUME IInv, Input PROVE IInv'
  OBVIOUS
<1>1. TypeOK'
  BY DEF IInv, Input, TypeOK, clock, squad
<1>2. BooksAgree' /\ OneGoalkeeper' /\ Manned' /\ Beginning'
  BY DEF IInv, Input, BooksAgree, OneGoalkeeper, IsFirst, Manned, Beginning, clock, squad
<1>3. Selecting' /\ Turning' /\ Cleared' /\ Resting' /\ OffPitchSelection' /\ OffPitchDesignation'
  BY DEF IInv, Input, Selecting, Turning, Cleared, Resting, OffPitchSelection, OffPitchDesignation,
         clock, squad
<1> QED BY <1>1, <1>2, <1>3 DEF IInv

(* A step in play begins with the selection it ended with.                 *)
LEMMA BeginStepStep == IInv /\ BeginStep => IInv'
<1> SUFFICES ASSUME IInv, BeginStep PROVE IInv'
  OBVIOUS
<1>1. TypeOK'
  BY DEF IInv, BeginStep, TypeOK, clock, squad, Stages
<1>2. BooksAgree' /\ OneGoalkeeper' /\ Manned' /\ Beginning'
  BY DEF IInv, BeginStep, BooksAgree, OneGoalkeeper, IsFirst, Manned, Beginning, clock, squad
<1>3. Selecting' /\ Turning' /\ Cleared' /\ Resting' /\ OffPitchSelection' /\ OffPitchDesignation'
  BY DEF IInv, BeginStep, Selecting, Turning, Cleared, Resting, OffPitchSelection,
         OffPitchDesignation, clock, squad
<1> QED BY <1>1, <1>2, <1>3 DEF IInv

(* A step on hold ends without touching the selection.                     *)
LEMMA HoldStep == IInv /\ Hold => IInv'
  BY DEF IInv, Hold, TypeOK, BooksAgree, OneGoalkeeper, IsFirst, Manned, Beginning, Selecting,
         Turning, Cleared, Resting, OffPitchSelection, OffPitchDesignation, clock, squad, books, Stages

(* A player who is not on the pitch is skipped.                            *)
LEMMA SkipStep == IInv /\ Skip => IInv'
  BY Numbers
     DEF IInv, Skip, TypeOK, BooksAgree, OneGoalkeeper, IsFirst, Manned, Beginning, Selecting,
         Turning, Cleared, Resting, OffPitchSelection, OffPitchDesignation, clock, squad, books

(* The team goes on when its players are done.                             *)
LEMMA PlayersDoneStep == IInv /\ PlayersDone => IInv'
  BY Numbers
     DEF IInv, PlayersDone, TypeOK, BooksAgree, OneGoalkeeper, IsFirst, Manned, Beginning,
         Selecting, Turning, Cleared, Resting, OffPitchSelection, OffPitchDesignation, clock, squad,
         books, Stages

(* The designated player is one of the active ones.                        *)
LEMMA DesignateStep == IInv /\ Designate => IInv'
  BY DEF IInv, Designate, TypeOK, BooksAgree, OneGoalkeeper, IsFirst, Manned, Beginning,
         Selecting, Turning, Cleared, Resting, OffPitchSelection, OffPitchDesignation, clock, squad, Stages

(* The referee's: preparation designates the first of the list, who may    *)
(* have left only if play has stopped before.                              *)
LEMMA RefereeStep == IInv /\ RefereeProcess => IInv'
<1> SUFFICES ASSUME IInv, RefereeProcess PROVE IInv'
  OBVIOUS
<1>0. /\ TypeOK /\ Beginning /\ Resting /\ stops \in Nat /\ prepared \in 0..3
      /\ UNCHANGED <<turn, squad, main, selected, external, moved, disabled, stray>>
      /\ at = "referee" /\ at' = "switch" /\ switch' \in BOOLEAN /\ (switch' => switch)
  <2>1. UNCHANGED <<turn, squad, main, selected, external, moved, disabled, stray>>
    BY DEF RefereeProcess
  <2>2. switch' = switch \/ switch' = (switch /\ active \cap Controlled = {})
    BY DEF RefereeProcess, StopPlay, Prepare, Wait, StartPlay, TakeSetPiece
  <2>3. switch \in BOOLEAN
    BY DEF IInv, TypeOK
  <2>4. switch' \in BOOLEAN
    BY <2>2, <2>3
  <2>6. switch' => switch
    BY <2>2, Zenon
  <2>5. /\ TypeOK /\ Beginning /\ Resting /\ stops \in Nat /\ prepared \in 0..3
        /\ at = "referee" /\ at' = "switch"
    BY Numbers DEF IInv, TypeOK, RefereeProcess
  <2> QED BY <2>1, <2>4, <2>5, <2>6
<1>1. /\ inPlay' \in BOOLEAN /\ inSetPiece' \in BOOLEAN /\ started' \in BOOLEAN
      /\ prepared' \in 0..3 /\ stops' \in 0..MaxStops /\ booked' \subseteq Players
      /\ designated' \in Players /\ pass' \in [by : Players, to : Players] \cup {NoPass}
  <2>1. CASE StopPlay
    <3>1. stops' \in 0..MaxStops /\ prepared' \in 0..3
      BY <1>0, <2>1, Numbers DEF StopPlay
    <3> QED BY <1>0, <2>1, <3>1 DEF StopPlay, TypeOK
  <2>2. CASE Prepare
    BY <1>0, <2>2, Numbers DEF Prepare, TypeOK
  <2>3. CASE Wait
    BY <1>0, <2>3 DEF Wait, TypeOK
  <2>4. CASE StartPlay
    BY <1>0, <2>4 DEF StartPlay, TypeOK
  <2>5. CASE TakeSetPiece
    BY <1>0, <2>5 DEF TakeSetPiece, TypeOK
  <2> QED BY <2>1, <2>2, <2>3, <2>4, <2>5 DEF RefereeProcess
<1>2. TypeOK'
  BY <1>0, <1>1 DEF TypeOK, squad, books, Stages
<1>3. BooksAgree' /\ OneGoalkeeper' /\ Manned' /\ Selecting' /\ Turning' /\ Cleared'
  BY <1>0 DEF IInv, BooksAgree, OneGoalkeeper, IsFirst, Manned, Selecting, Turning, Cleared, squad, books
<1>4. Beginning' /\ Resting' /\ OffPitchSelection' /\ OffPitchDesignation'
  <2>0. stops' >= stops /\ UNCHANGED <<active, selected, stray>>
    BY <1>0 DEF squad, books, RefereeProcess, StopPlay, Prepare, Wait, StartPlay, TakeSetPiece
  <2>1. OffPitchSelection'
    BY <1>0, <1>1, <2>0 DEF IInv, OffPitchSelection
  <2>2. CASE StopPlay
    BY <1>0, <2>0, <2>1, <2>2 DEF IInv, StopPlay, Beginning, Resting, OffPitchDesignation
  <2>3. CASE Prepare
    BY <1>0, <2>0, <2>1, <2>3, Numbers
       DEF IInv, Prepare, Beginning, Resting, OffPitchDesignation
  <2>4. CASE Wait
    <3>1. UNCHANGED <<inPlay, started, stops, designated, booked, active, selected, stray>>
      BY <2>0, <2>4 DEF Wait
    <3>2. Beginning' /\ OffPitchDesignation'
      BY <3>1 DEF IInv, Beginning, OffPitchDesignation
    <3>3. Resting'
      <4> SUFFICES ASSUME ~inPlay, started PROVE selected = NoOne
        BY <3>1 DEF Resting
      <4> QED BY <1>0 DEF Resting
    <3> QED BY <2>1, <3>2, <3>3
  <2>5. CASE StartPlay
    BY <1>0, <2>0, <2>1, <2>5 DEF IInv, StartPlay, Beginning, Resting, OffPitchDesignation
  <2>6. CASE TakeSetPiece
    BY <1>0, <2>0, <2>1, <2>6 DEF IInv, TakeSetPiece, Beginning, Resting, OffPitchDesignation
  <2> QED BY <2>2, <2>3, <2>4, <2>5, <2>6 DEF RefereeProcess
<1> QED BY <1>2, <1>3, <1>4 DEF IInv

(* What a step is that may select somebody who may be designated: the      *)
(* books move together, the others of the team stay.                       *)
Selects ==
  /\ UNCHANGED <<clock, squad, booked, disabled>>
  /\ main' = selected' /\ external' = {selected'} \ {NoOne}
  /\ selected' \in Players \cup {NoOne} /\ external' \subseteq Players
  /\ switch' \in BOOLEAN /\ moved' \in BOOLEAN /\ stray' \in BOOLEAN
  /\ designated' \in Players /\ (stray => stray')
  /\ (moved => ~switch) => (moved' => ~switch')
  /\ selected' \in {selected, NoOne, designated'} \cup active \/ stray'

(* A selection by any of its callers keeps the books.                      *)
LEMMA SelectsKeeps ==
  ASSUME IInv, Selects, at # "input", at' # "input", at' \in Stages,
         turn' \in 1..(TeamSize + 1), OffPitchDesignation',
         pass' \in [by : Players, to : Players] \cup {NoPass}
  PROVE  /\ TypeOK' /\ BooksAgree' /\ OneGoalkeeper' /\ Manned' /\ Beginning' /\ Cleared'
         /\ OffPitchSelection'
<1>1. TypeOK'
  BY DEF IInv, TypeOK, Selects, clock, squad
<1>2. BooksAgree' /\ OneGoalkeeper' /\ Manned' /\ Beginning'
  BY DEF IInv, Selects, BooksAgree, OneGoalkeeper, IsFirst, Manned, Beginning, clock, squad
<1>3. Cleared' /\ OffPitchSelection'
  BY DEF IInv, Selects, Cleared, OffPitchSelection, OffPitchDesignation, clock, squad
<1> QED BY <1>1, <1>2, <1>3

(* The same for a step that leaves the books alone.                        *)
LEMMA NothingSelected ==
  ASSUME IInv, UNCHANGED <<clock, squad, booked, disabled, books, stray, designated>>
  PROVE  Selects /\ OffPitchDesignation'
<1>1. OffPitchDesignation'
  BY DEF IInv, OffPitchDesignation, clock, squad
<1>2. Selects
  BY DEF IInv, TypeOK, BooksAgree, Selects, clock, squad, books
<1> QED BY <1>1, <1>2

(* And for one that selects p.                                             *)
LEMMA OneSelected ==
  ASSUME IInv, UNCHANGED <<clock, squad, booked, disabled>>,
         NEW p \in Players \cup {NoOne}, main' = p, SetSelected(p),
         designated' \in Players, stray' \in BOOLEAN, stray => stray',
         p \in {selected, NoOne, designated'} \cup active \/ stray'
  PROVE  Selects
<1>1. /\ selected' = p /\ external' = {p} \ {NoOne}
      /\ external' \subseteq Players
      /\ switch' \in BOOLEAN /\ moved' \in BOOLEAN
      /\ (moved => ~switch) => (moved' => ~switch')
  BY SetSelectedBooks DEF IInv
<1> QED BY <1>1 DEF Selects

(* In play the designated player may be selected, unless he is a goalkeeper. *)
LEMMA UpdateSwitchStep == IInv /\ UpdateSwitch => IInv'
<1> SUFFICES ASSUME IInv, UpdateSwitch PROVE IInv'
  OBVIOUS
<1>0. /\ at = "switch" /\ at' = "select" /\ at' \in Stages
      /\ UNCHANGED <<turn, clock, squad, booked, disabled, pass, stray>>
      /\ turn \in 1..(TeamSize + 1) /\ pass \in [by : Players, to : Players] \cup {NoPass}
      /\ designated \in Players /\ stray \in BOOLEAN
  BY DEF UpdateSwitch, IInv, TypeOK, Stages
<1>1. Selects /\ OffPitchDesignation'
  <2>1. CASE UNCHANGED <<designated, books>>
    BY <1>0, <2>1, NothingSelected DEF books
  <2>2. CASE SelectPlayer(designated)
    <3>1. Selects
      BY <1>0, <2>2, OneSelected DEF SelectPlayer
    <3>2. OffPitchDesignation'
      BY <1>0, <2>2 DEF IInv, SelectPlayer, OffPitchDesignation, clock, squad
    <3> QED BY <3>1, <3>2
  <2> QED BY <2>1, <2>2 DEF UpdateSwitch
<1>2. /\ TypeOK' /\ BooksAgree' /\ OneGoalkeeper' /\ Manned' /\ Beginning' /\ Cleared'
      /\ OffPitchSelection'
  BY <1>0, <1>1, SelectsKeeps
<1>3. Selecting' /\ Turning' /\ Resting'
  BY <1>0 DEF Selecting, Turning, Resting
<1> QED BY <1>1, <1>2, <1>3 DEF IInv

(* In play a gamer without a player gets one who is free.                  *)
LEMMA SelectAnyoneStep == IInv /\ HumanGamersSelectAnyone => IInv'
<1> SUFFICES ASSUME IInv, HumanGamersSelectAnyone PROVE IInv'
  OBVIOUS
<1>0. /\ at = "select" /\ at' = "players" /\ at' \in Stages
      /\ UNCHANGED <<turn, clock, squad, booked, designated, disabled, pass, stray>>
      /\ turn \in 1..(TeamSize + 1) /\ pass \in [by : Players, to : Players] \cup {NoPass}
      /\ designated \in Players /\ stray \in BOOLEAN /\ TypeOK /\ BooksAgree
      /\ active \subseteq Players
  BY DEF HumanGamersSelectAnyone, IInv, TypeOK, Stages
<1>1. OffPitchDesignation'
  BY <1>0 DEF IInv, OffPitchDesignation, clock, squad
<1>2. Selects /\ (inPlay => selected' # NoOne)
  <2>1. CASE UNCHANGED books /\ ~inPlay
    BY <1>0, <2>1, NothingSelected
  <2>2. CASE inPlay
    <3>1. PICK p \in Closest({}) :
            /\ main' = IF main = NoOne THEN p ELSE main
            /\ IF selected = NoOne /\ p # NoOne THEN SetSelected(p)
               ELSE UNCHANGED <<selected, external, switch, moved>>
      BY <2>2 DEF HumanGamersSelectAnyone
    <3>2. p \in active \cup {NoOne} /\ p \in Players \cup {NoOne}
      BY <1>0, <3>1, ClosestIsActive
    <3>3. selected = NoOne => p \in active
      <4> SUFFICES ASSUME selected = NoOne PROVE p \in active
        OBVIOUS
      <4>1. external = {} /\ active # {}
        BY DEF IInv, BooksAgree, Manned
      <4> QED BY <1>0, <3>1, <4>1, ClosestIsActive
    <3>4. CASE selected = NoOne
      <4>1. p # NoOne /\ main' = p /\ SetSelected(p) /\ p \in active
        BY <1>0, <3>1, <3>3, <3>4, Numbers DEF BooksAgree
      <4>2. Selects
        BY <1>0, <3>2, <4>1, OneSelected
      <4>3. selected' = p
        BY <1>0, <3>2, <4>1, SetSelectedBooks
      <4> QED BY <4>1, <4>2, <4>3
    <3>5. CASE selected # NoOne
      <4>1. UNCHANGED books
        BY <1>0, <3>1, <3>5 DEF BooksAgree, books
      <4> QED BY <1>0, <3>5, <4>1, NothingSelected DEF books
    <3> QED BY <3>4, <3>5
  <2> QED BY <2>1, <2>2 DEF HumanGamersSelectAnyone
<1>3. /\ TypeOK' /\ BooksAgree' /\ OneGoalkeeper' /\ Manned' /\ Beginning' /\ Cleared'
      /\ OffPitchSelection'
  BY <1>0, <1>1, <1>2, SelectsKeeps
<1>4. Selecting' /\ Turning' /\ Resting'
  BY <1>0, <1>2 DEF Selecting, Turning, Resting, clock
<1> QED BY <1>1, <1>3, <1>4 DEF IInv

(* A pass selects its target, if it is still there.                        *)
LEMMA PlayerProcessStep == IInv /\ PlayerProcess => IInv'
<1> SUFFICES ASSUME IInv, PlayerProcess PROVE IInv'
  OBVIOUS
<1>0. /\ at = "players" /\ at' = "cards" /\ at' \in Stages /\ turn \in active
      /\ UNCHANGED <<turn, clock, squad, booked, disabled>>
      /\ turn \in 1..(TeamSize + 1) /\ pass \in [by : Players, to : Players] \cup {NoPass}
      /\ designated \in Players /\ stray \in BOOLEAN /\ TypeOK /\ BooksAgree
      /\ active \subseteq Players
  BY DEF PlayerProcess, IInv, TypeOK, Stages
<1>1. /\ Selects /\ OffPitchDesignation'
      /\ pass' \in [by : Players, to : Players] \cup {NoPass}
      /\ selected' # NoOne \/ selected' = selected
  <2>1. CASE UNCHANGED <<pass, designated, books, stray>>
    BY <1>0, <2>1, NothingSelected DEF books
  <2>2. CASE Command
    <3>1. pass' \in [by : Players, to : Players]
      BY <1>0, <2>2 DEF Command
    <3> QED BY <1>0, <2>2, <3>1, NothingSelected DEF Command, books
  <2>3. CASE Touch
    <3>1. PICK p \in active \cup {pass.to} :
            SelectPlayer(p) /\ stray' = (stray \/ p \notin active)
      BY <2>3 DEF Touch
    <3>2. pass' = NoPass /\ pass.by = turn
      BY <2>3 DEF Touch
    <3>3. pass.to \in Players
      <4>1. pass # NoPass
        BY <1>0, <3>2, Numbers DEF NoPass
      <4> QED BY <1>0, <4>1
    <3>4. p \in Players /\ designated' = p /\ main' = p /\ SetSelected(p)
      BY <1>0, <3>1, <3>3 DEF SelectPlayer
    <3>5. stray' \in BOOLEAN /\ (stray => stray') /\ (p \in active \/ stray')
      BY <1>0, <3>1
    <3>6. Selects
      BY <1>0, <3>4, <3>5, OneSelected
    <3>7. selected' = p
      BY <1>0, <3>4, SetSelectedBooks
    <3>8. OffPitchDesignation'
      BY <1>0, <3>4, <3>5 DEF OffPitchDesignation, squad
    <3> QED BY <3>2, <3>4, <3>6, <3>7, <3>8, Numbers
  <2> QED BY <2>1, <2>2, <2>3 DEF PlayerProcess
<1>2. /\ TypeOK' /\ BooksAgree' /\ OneGoalkeeper' /\ Manned' /\ Beginning' /\ Cleared'
      /\ OffPitchSelection'
  BY <1>0, <1>1, SelectsKeeps
<1>3. Selecting' /\ Turning' /\ Resting'
  BY <1>0, <1>1 DEF IInv, Selecting, Turning, Resting, squad, clock
<1> QED BY <1>1, <1>2, <1>3 DEF IInv

(* A press of Switch exchanges the selection.                              *)
LEMMA ButtonStep == IInv /\ Button => IInv'
<1> SUFFICES ASSUME IInv, Button PROVE IInv'
  OBVIOUS
<1>0. /\ at = "button" /\ at' = "designate" /\ at' \in Stages
      /\ UNCHANGED <<turn, clock, squad, booked, designated, disabled, pass, stray>>
      /\ turn \in 1..(TeamSize + 1) /\ pass \in [by : Players, to : Players] \cup {NoPass}
      /\ designated \in Players /\ stray \in BOOLEAN /\ TypeOK /\ BooksAgree
      /\ active \subseteq Players
  BY DEF Button, IInv, TypeOK, Stages
<1>1. OffPitchDesignation'
  BY <1>0 DEF IInv, OffPitchDesignation, clock, squad
<1>2. Selects /\ (~inPlay /\ started => selected' = NoOne)
  <2>1. CASE UNCHANGED books /\ (inPlay \/ ~started)
    BY <1>0, <2>1, NothingSelected
  <2>2. CASE ~inPlay /\ NobodySelected
    <3>1. Selects
      BY <1>0, <2>2, OneSelected DEF NobodySelected
    <3>2. selected' = NoOne
      BY <1>0, <2>2, SetSelectedBooks DEF NobodySelected
    <3> QED BY <3>1, <3>2
  <2>3. CASE inPlay /\ SwitchButton
    <3>1. PICK p \in Players : /\ p \in active \cup {designated}
                               /\ main' = p /\ SetSelected(p)
      BY <1>0, <2>3 DEF SwitchButton, SwitchTargets
    <3>2. Selects
      BY <1>0, <3>1, OneSelected
    <3> QED BY <2>3, <3>2
  <2> QED BY <2>1, <2>2, <2>3 DEF Button
<1>3. /\ TypeOK' /\ BooksAgree' /\ OneGoalkeeper' /\ Manned' /\ Beginning' /\ Cleared'
      /\ OffPitchSelection'
  BY <1>0, <1>1, <1>2, SelectsKeeps
<1>4. Selecting' /\ Turning' /\ Resting'
  BY <1>0, <1>2 DEF Selecting, Turning, Resting, clock
<1> QED BY <1>1, <1>3, <1>4 DEF IInv

(* The sending-off: the books move while he is still active, then he goes. *)
LEMMA SendOffStep ==
  ASSUME IInv, at = "cards", NEW p \in active, SendOff(p),
         UNCHANGED <<clock, booked, disabled, stray>>
  PROVE  /\ active' \subseteq Players /\ keepers' \subseteq Players /\ designated' \in Players
         /\ main' \in Players \cup {NoOne} /\ selected' \in Players \cup {NoOne}
         /\ external' \subseteq Players /\ switch' \in BOOLEAN /\ moved' \in BOOLEAN
         /\ pass' \in [by : Players, to : Players] \cup {NoPass}
         /\ BooksAgree' /\ OneGoalkeeper' /\ Manned' /\ Beginning'
         /\ (inPlay => selected' # NoOne) /\ (moved' => ~switch')
         /\ OffPitchSelection' /\ OffPitchDesignation'
<1>0. /\ TypeOK /\ BooksAgree /\ active \subseteq Players /\ keepers \subseteq Players
      /\ p \in booked /\ p \in Players /\ p # NoOne /\ designated' \in active' /\ active' = active \ {p}
      /\ switch \in BOOLEAN /\ moved \in BOOLEAN /\ (moved => ~switch)
      /\ main = selected /\ external = {selected} \ {NoOne}
      /\ selected \in Players \cup {NoOne}
  BY Numbers DEF IInv, TypeOK, BooksAgree, SendOff, Cleared
<1>1. \E q \in active : q # p
  BY AnotherOne DEF SendOff
<1>2. /\ main' = selected' /\ external' = {selected'} \ {NoOne}
      /\ selected' \in Players \cup {NoOne} /\ external' \subseteq Players
      /\ switch' \in BOOLEAN /\ moved' \in BOOLEAN /\ (moved' => ~switch')
      /\ selected' # p
      /\ \/ selected' \in active /\ selected' # NoOne
         \/ selected' = selected
  <2>1. CASE selected = p
    <3>1. PICK q \in Closest({p}) : main' = q /\ SetSelected(q)
      BY <2>1 DEF SendOff, DeselectPlayer
    <3>2. external = {p}
      BY <1>0, <2>1
    <3>3. q \in active /\ q # p /\ q \in Players /\ q # NoOne
      BY <1>0, <1>1, <3>1, <3>2, ClosestIsActive, Numbers
    <3>4. /\ selected' = q /\ external' = {q} \ {NoOne}
          /\ external' \subseteq Players
          /\ switch' \in BOOLEAN /\ moved' \in BOOLEAN
          /\ (moved => ~switch) => (moved' => ~switch')
      BY <1>0, <3>1, <3>3, SetSelectedBooks
    <3> QED BY <1>0, <3>1, <3>3, <3>4
  <2>2. CASE selected # p
    <3>1. external' = external \ {p} /\ UNCHANGED <<main, selected, switch, moved>>
      BY <2>2 DEF SendOff, DeselectPlayer
    <3> QED BY <1>0, <2>2, <3>1, Numbers
  <2> QED BY <2>1, <2>2
<1>3. OneGoalkeeper' /\ keepers' \subseteq Players
  <2>0. /\ \A r \in active : r \in keepers <=> IsFirst(r, active)
        /\ \A r \in active : r \in Nat
    BY <1>0, Numbers DEF IInv, OneGoalkeeper
  <2>1. CASE p \in keepers
    <3>1. PICK q \in active' : IsFirst(q, active') /\ keepers' = keepers \cup {q}
      BY <2>1 DEF SendOff
    <3>2. ASSUME NEW r \in active' PROVE r \notin keepers
      BY <1>0, <2>0, <2>1, <3>2 DEF IsFirst
    <3>3. ASSUME NEW r \in active' PROVE r \in keepers' <=> IsFirst(r, active')
      BY <1>0, <2>0, <3>1, <3>2 DEF IsFirst
    <3>4. keepers' \subseteq Players
      BY <1>0, <3>1
    <3> QED BY <3>3, <3>4 DEF OneGoalkeeper, IsFirst
  <2>2. CASE p \notin keepers
    <3>1. keepers' = keepers
      BY <2>2 DEF SendOff
    <3>2. ASSUME NEW r \in active' PROVE IsFirst(r, active) <=> IsFirst(r, active')
      <4>1. PICK s \in active : s < p
        BY <1>0, <2>0, <2>2 DEF IsFirst
      <4> QED BY <1>0, <2>0, <4>1 DEF IsFirst
    <3> QED BY <1>0, <2>0, <3>1, <3>2 DEF OneGoalkeeper, IsFirst
  <2> QED BY <2>1, <2>2
<1>4. Manned'
  BY <1>0, <1>1 DEF Manned
<1>5. Beginning'
  <2>1. started
    BY <1>0 DEF IInv, Beginning
  <2> QED BY <2>1 DEF IInv, Beginning, clock
<1>6. OffPitchSelection' /\ OffPitchDesignation'
  BY <1>0, <1>2 DEF IInv, OffPitchSelection, OffPitchDesignation, clock
<1>7. inPlay => selected' # NoOne
  BY <1>2 DEF IInv, Selecting
<1>8. pass' \in [by : Players, to : Players] \cup {NoPass}
  BY <1>0 DEF SendOff, TypeOK
<1> QED BY <1>0, <1>2, <1>3, <1>4, <1>5, <1>6, <1>7, <1>8 DEF BooksAgree

(* A sending-off takes the player out of the list and the books.           *)
LEMMA CheckCardsStep == IInv /\ CheckCards => IInv'
<1> SUFFICES ASSUME IInv, CheckCards PROVE IInv'
  OBVIOUS
<1>0. /\ at = "cards" /\ at' = "players" /\ at' \in Stages /\ turn' = turn + 1
      /\ UNCHANGED <<clock, booked, disabled, stray>>
  BY DEF CheckCards, Stages
<1>3. Resting' /\ Turning'
  BY <1>0 DEF Resting, Turning
<1>4. turn \in active
  BY <1>0 DEF IInv, Turning
<1>5. turn' \in 1..(TeamSize + 1)
  BY <1>0, <1>4, Numbers DEF IInv, TypeOK, Players
<1>1. CASE SendOff(turn)
  <2>2. /\ active' \subseteq Players /\ keepers' \subseteq Players /\ designated' \in Players
        /\ main' \in Players \cup {NoOne} /\ selected' \in Players \cup {NoOne}
        /\ external' \subseteq Players /\ switch' \in BOOLEAN /\ moved' \in BOOLEAN
        /\ pass' \in [by : Players, to : Players] \cup {NoPass}
        /\ BooksAgree' /\ OneGoalkeeper' /\ Manned' /\ Beginning'
        /\ (inPlay => selected' # NoOne) /\ (moved' => ~switch')
        /\ OffPitchSelection' /\ OffPitchDesignation'
    BY <1>0, <1>1, <1>4, SendOffStep
  <2>3. TypeOK'
    BY <1>0, <1>5, <2>2 DEF IInv, TypeOK, clock
  <2>4. Selecting' /\ Cleared'
    BY <1>0, <2>2 DEF Selecting, Cleared, clock
  <2> QED BY <1>3, <2>2, <2>3, <2>4 DEF IInv
<1>2. CASE UNCHANGED <<squad, designated, books, pass>>
  <2>1. TypeOK'
    BY <1>0, <1>2, <1>5 DEF IInv, TypeOK, clock, squad, books
  <2>2. BooksAgree' /\ OneGoalkeeper' /\ Manned' /\ Beginning'
    BY <1>0, <1>2 DEF IInv, BooksAgree, OneGoalkeeper, IsFirst, Manned, Beginning, clock,
                      squad, books
  <2>3. Selecting' /\ Cleared' /\ OffPitchSelection' /\ OffPitchDesignation'
    BY <1>0, <1>2 DEF IInv, Selecting, Cleared, OffPitchSelection, OffPitchDesignation,
                      clock, squad, books
  <2> QED BY <1>3, <2>1, <2>2, <2>3 DEF IInv
<1> QED BY <1>1, <1>2 DEF CheckCards

(* Every step keeps the invariant.                                         *)
LEMMA StepIInv == IInv /\ [Next]_vars => IInv'
<1> SUFFICES ASSUME IInv, [Next]_vars PROVE IInv'
  OBVIOUS
<1>1. CASE UNCHANGED vars
  BY <1>1 DEF IInv, vars, TypeOK, BooksAgree, OneGoalkeeper, IsFirst, Manned, Beginning,
              Selecting, Turning, Cleared, Resting, OffPitchSelection, OffPitchDesignation,
              clock, squad, books
<1> QED
  BY <1>1, InputStep, BeginStepStep, RefereeStep, HoldStep, UpdateSwitchStep, SelectAnyoneStep,
     SkipStep, PlayerProcessStep, CheckCardsStep, PlayersDoneStep, ButtonStep, DesignateStep
     DEF Next

(* The inductive invariant holds in every run.                             *)
THEOREM Invariance == Spec => []IInv
  BY InitIInv, StepIInv, PTL DEF Spec

-----------------------------------------------------------------------------
(* The variables of Selection keep their types.                            *)
THEOREM Typed == Spec => []TypeOK
<1>1. IInv => TypeOK
  BY DEF IInv
<1> QED BY <1>1, Invariance, PTL

(* The gamer, the player and the team tell of the same selected player,    *)
(* whatever passes, presses, restarts and sendings-off there are.          *)
THEOREM TheBooksAgree == Spec => []BooksAgree
<1>1. IInv => BooksAgree
  BY DEF IInv
<1> QED BY <1>1, Invariance, PTL

(* CalculateDynamicRoles() finds the goalkeeper where it looks for him.    *)
THEOREM TheGoalkeeperIsFirst == Spec => []OneGoalkeeper
<1>1. IInv => OneGoalkeeper
  BY DEF IInv
<1> QED BY <1>1, Invariance, PTL

(* Team::Process() does not dereference a null selectedPlayer in play, and *)
(* leaves the gamer without a player out of play.                          *)
THEOREM SelectionIsInStep == Spec => []SelectionFollowsPlay
<1>1. IInv => SelectionFollowsPlay
  BY DEF IInv, Selecting, Resting, SwitchHasASelection, NobodySelectedOutOfPlay,
         SelectionFollowsPlay
<1> QED BY <1>1, Invariance, PTL

(* A press of Switch does not move a selection just moved by the engine.   *)
THEOREM PressesAreCleared == Spec => []PressIsForOneSelection
<1>1. IInv => PressIsForOneSelection
  BY DEF IInv, Cleared, PressIsForOneSelection
<1> QED BY <1>1, Invariance, PTL

(* The two ways in which somebody off the pitch comes to be selected are   *)
(* the only ones, however many are sent off and however often play stops.  *)
THEOREM WhoIsSelectedOffThePitch == Spec => []OffPitchSelection
<1>1. IInv => OffPitchSelection
  BY DEF IInv
<1> QED BY <1>1, Invariance, PTL
=============================================================================
