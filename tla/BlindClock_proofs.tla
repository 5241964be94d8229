-------------------------- MODULE BlindClock_proofs --------------------------
(***************************************************************************)
(* Theorems about BlindClock, for any number of ticks of the poller, any   *)
(* lengths and counts of levels, any breaks, and however often the server  *)
(* restarts.                                                               *)
(*                                                                         *)
(*   OnlyAdvances  the poller's update never takes a level back and never  *)
(*                 goes past the last level (PollerOnlyAdvances), with any *)
(*                 number of staff requests in flight                      *)
(*   PausesFit     a session has been paused for no longer than it has     *)
(*                 lasted (PausedTimeIsReal)                               *)
(*   TypeCorrect   TypeOK                                                  *)
(*                                                                         *)
(* What a tick is about to write was compared with the row it loaded, and  *)
(* the condition of the UPDATE compares that row with the one that is      *)
(* there.  So it is enough that a tick which has decided holds a structure *)
(* whose round is beyond the one it loaded and within its own levels.      *)
(*                                                                         *)
(* The pauses fit into the session when what a request loaded stays true   *)
(* until it saves, so the last two take staff requests one at a time, and  *)
(* no edit that makes a tournament "scheduled" again.  TypeOK bounds the   *)
(* time that was paused, so it rests on the same invariant.                *)
(***************************************************************************)
EXTENDS BlindClock, Sums

\* The shapes of the row and of what is in flight.  The bounds that keep a run
\* finite are left out.
Structure == [current_round : Nat, minutes_per_level : Lengths, number_of_levels : LevelCounts]

Row == [status : Statuses, session_started_at : Nat \cup {Never}, paused_at : Nat \cup {Never},
        total_paused : Int, structure : Structure]

Seen == [pc : {"check"}, seen : Row]

Decided == {d \in [pc : {"update"}, from : Nat \ {0}, structure : Structure] :
              /\ d.structure.current_round > d.from
              /\ d.structure.current_round <= d.structure.number_of_levels}

Kept == [pc : {"start", "increaseBlind", "updateTournament"}, structure : Structure]
Request == {Idle} \cup Kept \cup [pc : {"pause"}, at : Nat]
           \cup [pc : {"resume"}, total_paused : Int] \cup [pc : {"stop"}]

IInv ==
  /\ now \in Nat
  /\ row \in Row
  /\ polls \in [Pollers -> {Idle} \cup Seen \cup Decided]
  /\ req \in [Handlers -> Request]

-----------------------------------------------------------------------------
(* The poller.                                                             *)

\* The level a session should be at is one of its levels.
LEMMA ExpectedIsALevel ==
  ASSUME NEW t \in Row, NEW at
  PROVE  calcExpectedRound(t, at) \in 1..t.structure.number_of_levels
<1> DEFINE s == t.structure
           elapsed == at - t.session_started_at - t.total_paused
           open == {l \in 1..s.number_of_levels : elapsed < LevelOver(s, l)}
<1>1. s.number_of_levels \in Nat \ {0}
  BY ClockAssumption DEF Row, Structure
<1>2. CASE elapsed <= 0
  BY <1>1, <1>2 DEF calcExpectedRound
<1>3. CASE ~(elapsed <= 0) /\ open = {}
  BY <1>1, <1>3 DEF calcExpectedRound
<1>4. CASE ~(elapsed <= 0) /\ open # {}
  <2>1. open \in SUBSET Nat
    BY <1>1
  <2>2. PICK x \in open : \A y \in open : x <= y
    <3> HIDE DEF open
    <3> QED
      BY <1>4, <2>1, Least
  <2>3. calcExpectedRound(t, at) = CHOOSE l \in open : \A k \in open : l <= k
    BY <1>4, Zenon DEF calcExpectedRound
  <2>4. calcExpectedRound(t, at) \in open
    <3> HIDE DEF open
    <3> QED
      BY <2>2, <2>3, Zenon
  <2> QED
    BY <2>4
<1> QED
  BY <1>2, <1>3, <1>4

\* A tick that decides to write holds a round beyond the one it loaded.
LEMMA OverdueDecides ==
  ASSUME NEW t \in Row, NEW at, Overdue(t, at)
  PROVE  [pc |-> "update", from |-> CurrentRound(t),
          structure |-> [t.structure EXCEPT !.current_round = calcExpectedRound(t, at)]]
           \in Decided
<1> DEFINE e == calcExpectedRound(t, at)
           new == [t.structure EXCEPT !.current_round = e]
<1>1. t.structure \in Structure /\ t.structure.number_of_levels \in Nat
  BY ClockAssumption DEF Row, Structure
<1>2. e \in Nat /\ e <= t.structure.number_of_levels
  BY <1>1, ExpectedIsALevel
<1>3. e > CurrentRound(t)
  BY DEF Overdue
<1>4. CurrentRound(t) \in Nat \ {0}
  BY <1>1 DEF CurrentRound, Structure
<1> HIDE DEF e
<1>5. new \in Structure /\ new.current_round = e
      /\ new.number_of_levels = t.structure.number_of_levels
  BY <1>1, <1>2 DEF Structure
<1> HIDE DEF new
<1> QED
  BY <1>2, <1>3, <1>4, <1>5 DEF Decided, e, new

-----------------------------------------------------------------------------
(* Every step keeps IInv.                                                  *)

LEMMA PollKeeps ==
  ASSUME IInv, NEW p \in Pollers, Poll(p)
  PROVE  IInv'
<1>1. CASE PollRead(p)
  <2>1. [pc |-> "check", seen |-> row] \in Seen
    BY DEF IInv, Seen
  <2> QED
    BY <1>1, <2>1 DEF PollRead, IInv
<1>2. CASE PollCheck(p)
  <2> DEFINE seen == polls[p].seen
             new == IF Overdue(seen, now)
                    THEN [pc |-> "update", from |-> CurrentRound(seen),
                          structure |-> [seen.structure EXCEPT
                                           !.current_round = calcExpectedRound(seen, now)]]
                    ELSE Idle
  <2>1. polls[p].pc = "check" /\ polls' = [polls EXCEPT ![p] = new]
        /\ UNCHANGED <<now, row, req>>
    BY <1>2, Zenon DEF PollCheck
  <2>2. seen \in Row
    BY <2>1 DEF IInv, Seen, Decided, Idle
  <2>3. new \in {Idle} \cup Decided
    BY <2>2, OverdueDecides
  <2> HIDE DEF new
  <2> QED
    BY <2>1, <2>3 DEF IInv
<1>3. CASE PollUpdate(p)
  <2>1. polls[p].pc = "update" /\ UNCHANGED <<now, req>>
        /\ polls' = [polls EXCEPT ![p] = Idle]
        /\ (row' = row \/ row' = [row EXCEPT !.structure = polls[p].structure])
    BY <1>3, Zenon DEF PollUpdate
  <2>2. polls[p].structure \in Structure
    BY <2>1 DEF IInv, Seen, Decided, Idle
  <2>3. row' \in Row
    BY <2>1, <2>2 DEF IInv, Row
  <2> QED
    BY <2>1, <2>3 DEF IInv
<1> QED
  BY <1>1, <1>2, <1>3 DEF Poll

\* A request loads, and holds what it will save.
LEMMA LoadKeeps ==
  ASSUME IInv, NEW h \in Handlers, NEW op, NEW kept \in Request, Load(h, op, kept)
  PROVE  IInv'
BY DEF Load, IInv

\* A request saves a row of the same shape.
LEMMA SaveKeeps ==
  ASSUME IInv, NEW h \in Handlers, NEW op, NEW t \in Row, Save(h, op, t)
  PROVE  IInv'
BY DEF Save, IInv, Request

\* The structure a request holds.
LEMMA KeptStructure ==
  ASSUME IInv, NEW h \in Handlers,
         req[h].pc \in {"start", "increaseBlind", "updateTournament"}
  PROVE  req[h].structure \in Structure
BY DEF IInv, Request, Kept, Idle

LEMMA LoadStructureKeeps ==
  ASSUME IInv, NEW h \in Handlers,
         NEW op \in {"start", "increaseBlind", "updateTournament"}, LoadStructure(h, op)
  PROVE  IInv'
<1>1. [pc |-> op, structure |-> row.structure] \in Request
  BY DEF IInv, Row, Request, Kept
<1> QED
  BY <1>1, LoadKeeps DEF LoadStructure

LEMMA StaffReads ==
  ASSUME IInv, NEW h \in Handlers,
         \/ StartTournamentRead(h) \/ IncreaseBlindRead(h) \/ UpdateTournamentRead(h)
         \/ PauseTournamentRead(h) \/ ResumeTournamentRead(h) \/ StopTournamentRead(h)
  PROVE  IInv'
<1>1. CASE StartTournamentRead(h)
  BY <1>1, LoadStructureKeeps DEF StartTournamentRead
<1>2. CASE IncreaseBlindRead(h)
  BY <1>2, LoadStructureKeeps DEF IncreaseBlindRead
<1>3. CASE UpdateTournamentRead(h)
  BY <1>3, LoadStructureKeeps DEF UpdateTournamentRead
<1>4. CASE PauseTournamentRead(h)
  <2>1. [pc |-> "pause", at |-> now] \in Request
    BY DEF IInv, Request
  <2> QED
    BY <1>4, <2>1, LoadKeeps DEF PauseTournamentRead
<1>5. CASE ResumeTournamentRead(h)
  <2>1. row.paused_at # Never
    BY <1>5 DEF ResumeTournamentRead
  <2>2. PausedUntil(now) \in Int
    BY <2>1 DEF IInv, Row, PausedUntil
  <2>3. [pc |-> "resume", total_paused |-> PausedUntil(now)] \in Request
    BY <2>2 DEF Request
  <2> QED
    BY <1>5, <2>3, LoadKeeps DEF ResumeTournamentRead
<1>6. CASE StopTournamentRead(h)
  <2>1. [pc |-> "stop"] \in Request
    BY DEF Request
  <2> QED
    BY <1>6, <2>1, LoadKeeps DEF StopTournamentRead
<1> QED
  BY <1>1, <1>2, <1>3, <1>4, <1>5, <1>6

LEMMA StaffWrites ==
  ASSUME IInv, NEW h \in Handlers,
         \/ StartTournamentWrite(h) \/ IncreaseBlindWrite(h) \/ UpdateTournamentWrite(h)
         \/ PauseTournamentWrite(h) \/ ResumeTournamentWrite(h) \/ StopTournamentWrite(h)
  PROVE  IInv'
<1>1. now \in Nat /\ row \in Row
  BY DEF IInv
<1>2. CASE StartTournamentWrite(h)
  <2> DEFINE s == [req[h].structure EXCEPT !.current_round = 1]
             t == [row EXCEPT !.status = "active", !.session_started_at = now, !.structure = s]
  <2>1. Save(h, "start", t)
    BY <1>2 DEF StartTournamentWrite
  <2>2. req[h].pc = "start"
    BY <2>1 DEF Save
  <2>3. s \in Structure
    BY <2>2, KeptStructure DEF Structure
  <2> HIDE DEF s
  <2>4. t \in Row
    BY <1>1, <2>3 DEF Row, Statuses
  <2> HIDE DEF t
  <2> QED
    BY <2>1, <2>4, SaveKeeps
<1>3. CASE IncreaseBlindWrite(h)
  <2> DEFINE s == [req[h].structure EXCEPT !.current_round = @ + 1]
             t == [row EXCEPT !.structure = s]
  <2>1. Save(h, "increaseBlind", t)
    BY <1>3 DEF IncreaseBlindWrite
  <2>2. req[h].pc = "increaseBlind"
    BY <2>1 DEF Save
  <2>3. s \in Structure
    BY <2>2, KeptStructure DEF Structure
  <2> HIDE DEF s
  <2>4. t \in Row
    BY <1>1, <2>3 DEF Row
  <2> HIDE DEF t
  <2> QED
    BY <2>1, <2>4, SaveKeeps
<1>4. CASE UpdateTournamentWrite(h)
  <2>1. PICK len \in Lengths, levels \in LevelCounts, st \in {row.status} \cup EditStatuses :
          Save(h, "updateTournament",
               [row EXCEPT !.status = st,
                           !.structure = [req[h].structure EXCEPT
                               !.minutes_per_level = len, !.number_of_levels = levels]])
    BY <1>4 DEF UpdateTournamentWrite
  <2> DEFINE s == [req[h].structure EXCEPT !.minutes_per_level = len, !.number_of_levels = levels]
             t == [row EXCEPT !.status = st, !.structure = s]
  <2>2. req[h].pc = "updateTournament"
    BY <2>1 DEF Save
  <2>3. s \in Structure
    BY <2>2, KeptStructure DEF Structure
  <2>4. Save(h, "updateTournament", t)
    BY <2>1
  <2> HIDE DEF s
  <2>5. t \in Row
    BY <1>1, <2>3, ClockAssumption DEF Row
  <2> HIDE DEF t
  <2> QED
    BY <2>4, <2>5, SaveKeeps
<1>5. CASE PauseTournamentWrite(h)
  <2> DEFINE t == [row EXCEPT !.paused_at = req[h].at]
  <2>1. Save(h, "pause", t)
    BY <1>5 DEF PauseTournamentWrite
  <2>2. req[h].at \in Nat
    BY <2>1 DEF Save, IInv, Request, Kept, Idle
  <2>3. t \in Row
    BY <1>1, <2>2 DEF Row
  <2> HIDE DEF t
  <2> QED
    BY <2>1, <2>3, SaveKeeps
<1>6. CASE ResumeTournamentWrite(h)
  <2> DEFINE t == [row EXCEPT !.paused_at = Never, !.total_paused = req[h].total_paused]
  <2>1. Save(h, "resume", t)
    BY <1>6 DEF ResumeTournamentWrite
  <2>2. req[h].total_paused \in Int
    BY <2>1 DEF Save, IInv, Request, Kept, Idle
  <2>3. t \in Row
    BY <1>1, <2>2 DEF Row
  <2> HIDE DEF t
  <2> QED
    BY <2>1, <2>3, SaveKeeps
<1>7. CASE StopTournamentWrite(h)
  <2> DEFINE t == [row EXCEPT !.status = "completed", !.paused_at = Never]
  <2>1. Save(h, "stop", t)
    BY <1>7 DEF StopTournamentWrite
  <2>2. t \in Row
    BY <1>1 DEF Row, Statuses
  <2> HIDE DEF t
  <2> QED
    BY <2>1, <2>2, SaveKeeps
<1> QED
  BY <1>2, <1>3, <1>4, <1>5, <1>6, <1>7

LEMMA StaffAtOnce ==
  ASSUME IInv, NEW h \in Handlers, EndTournament(h) \/ EditStatus(h)
  PROVE  IInv'
<1>1. row' \in Row
  BY ClockAssumption DEF IInv, Row, Statuses, EndTournament, EditStatus
<1> QED
  BY <1>1 DEF IInv, EndTournament, EditStatus

LEMMA Invariant == Spec => []IInv
<1>1. Init => IInv
  <2> SUFFICES ASSUME Init PROVE IInv
    OBVIOUS
  <2>1. row \in Row
    BY DEF Init, Row, Structure, Statuses
  <2> QED
    BY <2>1 DEF Init, IInv, Request
<1>2. IInv /\ [Next]_vars => IInv'
  <2> SUFFICES ASSUME IInv, [Next]_vars PROVE IInv'
    OBVIOUS
  <2>1. ASSUME NEW p \in Pollers, Poll(p) PROVE IInv'
    BY <2>1, PollKeeps
  <2>2. ASSUME NEW h \in Handlers, Staff(h) PROVE IInv'
    BY <2>2, StaffReads, StaffWrites, StaffAtOnce DEF Staff
  <2>3. CASE Tick
    BY <2>3 DEF Tick, IInv
  <2>4. CASE Restart
    BY <2>4 DEF Restart, IInv, Request
  <2>5. CASE UNCHANGED vars
    BY <2>5 DEF vars, IInv
  <2> QED
    BY <2>1, <2>2, <2>3, <2>4, <2>5 DEF Next
<1> QED
  BY <1>1, <1>2, PTL DEF Spec

-----------------------------------------------------------------------------
\* The poller's update moves the level forward, never past the last one, or
\* changes nothing, whatever other ticks, staff and restarts came between its
\* loading the tournament and its update (checkAndAdvanceTournamentBlind).
THEOREM OnlyAdvances == Spec => PollerOnlyAdvances
<1> DEFINE Forward == \A p \in Pollers : PollUpdate(p) =>
             \/ UNCHANGED row
             \/ /\ row'.structure.current_round > row.structure.current_round
                /\ row'.structure.current_round <= row'.structure.number_of_levels
<1>1. IInv /\ [Next]_vars => [Forward]_vars
  <2> SUFFICES ASSUME IInv, NEW p \in Pollers, PollUpdate(p), row' # row
               PROVE  /\ row'.structure.current_round > row.structure.current_round
                      /\ row'.structure.current_round <= row'.structure.number_of_levels
    OBVIOUS
  <2>1. row' = [row EXCEPT !.structure = polls[p].structure]
        /\ row.structure.current_round = polls[p].from /\ polls[p].pc = "update"
    BY DEF PollUpdate, Behind
  <2>2. polls[p] \in Decided
    BY <2>1 DEF IInv, Seen, Idle
  <2>3. row'.structure = polls[p].structure
    BY <2>1 DEF IInv, Row
  <2> QED
    BY <2>1, <2>2, <2>3 DEF Decided
<1> QED
  BY <1>1, Invariant, PTL DEF Spec, PollerOnlyAdvances
-----------------------------------------------------------------------------
(* The session and its pauses.                                             *)

\* What the row says of the session: from when it counts, and until when.
Since == IF row.session_started_at = Never THEN 0 ELSE row.session_started_at
Until == IF row.paused_at = Never THEN now ELSE row.paused_at

\* What a request in flight loaded is still what the row says.
Holds(h) ==
  /\ req[h].pc = "start" => row.status = "scheduled"
  /\ req[h].pc = "pause" =>
       /\ row.status = "active" /\ row.paused_at = Never
       /\ req[h].at <= now /\ row.total_paused <= req[h].at - Since
  /\ req[h].pc = "resume" =>
       row.paused_at # Never /\ 0 <= req[h].total_paused /\ req[h].total_paused <= now - Since

\* Before it starts a tournament was never paused; the pauses of a session fit
\* into it.
SessionInv ==
  /\ row.status = "scheduled" =>
       row.session_started_at = Never /\ row.paused_at = Never /\ row.total_paused = 0
  /\ Until <= now /\ 0 <= row.total_paused /\ row.total_paused <= Until - Since
  /\ \A h \in Handlers : Holds(h)

\* The part of the row that says so.
SameSession ==
  /\ row'.status = row.status /\ row'.session_started_at = row.session_started_at
  /\ row'.paused_at = row.paused_at /\ row'.total_paused = row.total_paused

LEMMA NeverIsNoTime == Never \notin Nat
BY ClockAssumption

LEMMA SessionFacts ==
  ASSUME IInv
  PROVE  /\ now \in Nat /\ row.total_paused \in Int /\ Since \in Nat /\ Until \in Nat
         /\ row.session_started_at \in Nat \cup {Never} /\ row.paused_at \in Nat \cup {Never}
BY DEF IInv, Row, Since, Until

\* Requests that load and save nothing about the session, the poller, time.
LEMMA SessionLeftAlone ==
  ASSUME IInv, IInv', SessionInv, SameSession, now' >= now,
         \A h \in Handlers : req'[h] = req[h] \/ req'[h].pc \notin {"start", "pause", "resume"}
  PROVE  SessionInv'
<1>1. Since' = Since
  BY DEF Since, SameSession
<1>2. ASSUME NEW h \in Handlers
      PROVE  Holds(h)'
  <2>1. CASE req'[h].pc \notin {"start", "pause", "resume"}
    BY <2>1 DEF Holds
  <2>2. CASE req'[h] = req[h]
    <3>1. Holds(h) /\ now \in Nat /\ now' \in Nat /\ Since \in Nat /\ req[h] \in Request
      BY SessionFacts DEF SessionInv, IInv
    <3>2. /\ req[h].pc = "pause" => req[h].at \in Nat
          /\ req[h].pc = "resume" => req[h].total_paused \in Int
      BY <3>1 DEF Request, Kept, Idle
    <3> QED
      BY <1>1, <2>2, <3>1, <3>2 DEF Holds, SameSession
  <2> QED
    BY <2>1, <2>2
<1>3. Until' <= now' /\ 0 <= row'.total_paused /\ row'.total_paused <= Until' - Since'
  <2>1. /\ row'.paused_at = row.paused_at /\ row'.total_paused = row.total_paused
        /\ now \in Nat /\ now' \in Nat /\ Since \in Nat /\ Until \in Nat /\ row.total_paused \in Int
    BY SessionFacts DEF SameSession, IInv
  <2>2. Until <= now /\ 0 <= row.total_paused /\ row.total_paused <= Until - Since
    BY DEF SessionInv
  <2>3. Until' = Until \/ (Until = now /\ Until' = now')
    BY <2>1 DEF Until
  <2> QED
    BY <1>1, <2>1, <2>2, <2>3
<1> QED
  BY <1>2, <1>3 DEF SessionInv, SameSession

LEMMA PollSession ==
  ASSUME IInv, NEW p \in Pollers, Poll(p)
  PROVE  SameSession /\ now' = now /\ req' = req
<1>1. CASE PollRead(p) \/ PollCheck(p)
  BY <1>1, Zenon DEF PollRead, PollCheck, SameSession
<1>2. CASE PollUpdate(p)
  BY <1>2 DEF PollUpdate, SameSession, IInv, Row
<1> QED
  BY <1>1, <1>2 DEF Poll

\* Staff one request at a time: what a request loads stays true until it saves.
OneAtATime == \A g, h \in Handlers : g = h

LEMMA LoadSession ==
  ASSUME OneAtATime, IInv, IInv', SessionInv, NEW h \in Handlers,
         \/ StartTournamentRead(h) \/ IncreaseBlindRead(h) \/ UpdateTournamentRead(h)
         \/ PauseTournamentRead(h) \/ ResumeTournamentRead(h) \/ StopTournamentRead(h)
  PROVE  SessionInv'
<1>1. req \in [Handlers -> Request] /\ row \in Row
  BY DEF IInv
<1>2. \A g \in Handlers : g = h
  BY DEF OneAtATime
<1>3. ASSUME NEW op, NEW kept, Load(h, op, kept)
      PROVE  row' = row /\ now' = now /\ req'[h] = kept
  BY <1>1, <1>3 DEF Load
<1>4. ASSUME row' = row, now' = now, Holds(h)'
      PROVE  SessionInv'
  BY <1>2, <1>4 DEF SessionInv, Since, Until
<1>5. CASE StartTournamentRead(h)
  <2>1. row.status = "scheduled"
    BY <1>1, <1>5 DEF StartTournamentRead, Row, Statuses
  <2>2. Load(h, "start", [pc |-> "start", structure |-> row.structure])
    BY <1>5 DEF StartTournamentRead, LoadStructure
  <2> QED
    BY <1>3, <1>4, <2>1, <2>2 DEF Holds
<1>6. ASSUME NEW op \in {"increaseBlind", "updateTournament"}, LoadStructure(h, op)
      PROVE  SessionInv'
  <2>1. Load(h, op, [pc |-> op, structure |-> row.structure])
    BY <1>6 DEF LoadStructure
  <2> QED
    BY <1>3, <1>4, <2>1 DEF Holds
<1>7. CASE PauseTournamentRead(h)
  <2>1. /\ row.status = "active" /\ row.paused_at = Never
        /\ Load(h, "pause", [pc |-> "pause", at |-> now])
    BY <1>7 DEF PauseTournamentRead
  <2>2. row' = row /\ now' = now /\ req'[h].pc = "pause" /\ req'[h].at = now
    BY <1>3, <2>1
  <2>3. Since' = Since /\ row.total_paused <= now - Since
    BY <2>1, <2>2 DEF Since, Until, SessionInv
  <2>4. now <= now
    BY SessionFacts
  <2> QED
    BY <1>4, <2>1, <2>2, <2>3, <2>4 DEF Holds
<1>8. CASE ResumeTournamentRead(h)
  <2>1. row.paused_at # Never
        /\ Load(h, "resume", [pc |-> "resume", total_paused |-> PausedUntil(now)])
    BY <1>8 DEF ResumeTournamentRead
  <2>2. row' = row /\ now' = now /\ req'[h].pc = "resume" /\ req'[h].total_paused = PausedUntil(now)
    BY <1>3, <2>1
  <2>3. Until = row.paused_at
    BY <2>1 DEF Until
  <2>4. PausedUntil(now) = row.total_paused + (now - Until)
    BY <2>3 DEF PausedUntil
  <2>5. 0 <= PausedUntil(now) /\ PausedUntil(now) <= now - Since
    BY <2>4, SessionFacts DEF SessionInv
  <2>6. Since' = Since
    BY <2>2 DEF Since
  <2> QED
    BY <1>4, <2>1, <2>2, <2>5, <2>6 DEF Holds
<1>9. CASE StopTournamentRead(h)
  <2>1. Load(h, "stop", [pc |-> "stop"])
    BY <1>9 DEF StopTournamentRead
  <2> QED
    BY <1>3, <1>4, <2>1 DEF Holds
<1> QED
  BY <1>5, <1>6, <1>7, <1>8, <1>9 DEF IncreaseBlindRead, UpdateTournamentRead

\* Where the pause a row is in ends, the time paused so far still fits.
LEMMA EndsInTime ==
  ASSUME IInv, SessionInv
  PROVE  now <= now /\ 0 <= row.total_paused /\ row.total_paused <= now - Since
BY SessionFacts DEF SessionInv

LEMMA SaveSession ==
  ASSUME OneAtATime, "scheduled" \notin EditStatuses, IInv, IInv', SessionInv, NEW h \in Handlers,
         \/ StartTournamentWrite(h) \/ IncreaseBlindWrite(h) \/ UpdateTournamentWrite(h)
         \/ PauseTournamentWrite(h) \/ ResumeTournamentWrite(h) \/ StopTournamentWrite(h)
  PROVE  SessionInv'
<1>1. req \in [Handlers -> Request] /\ row \in Row
  BY DEF IInv
<1>2. \A g \in Handlers : g = h
  BY DEF OneAtATime
<1>3. ASSUME NEW op, NEW t, Save(h, op, t)
      PROVE  row' = t /\ now' = now /\ req[h].pc = op /\ Holds(h)'
  BY <1>1, <1>3 DEF Save, Holds, Idle
<1>4. SessionInv' <=>
        /\ row'.status = "scheduled" =>
             row'.session_started_at = Never /\ row'.paused_at = Never /\ row'.total_paused = 0
        /\ Until' <= now' /\ 0 <= row'.total_paused /\ row'.total_paused <= Until' - Since'
        /\ Holds(h)'
  BY <1>2 DEF SessionInv
<1>5. Holds(h) /\ now \in Nat /\ Never \notin Nat
  BY SessionFacts, NeverIsNoTime DEF SessionInv
<1>6. CASE StartTournamentWrite(h)
  <2> DEFINE s == [req[h].structure EXCEPT !.current_round = 1]
             t == [row EXCEPT !.status = "active", !.session_started_at = now, !.structure = s]
  <2>1. Save(h, "start", t)
    BY <1>6 DEF StartTournamentWrite
  <2>2. /\ t.status = "active" /\ t.session_started_at = now
        /\ t.paused_at = row.paused_at /\ t.total_paused = row.total_paused
    BY <1>1 DEF Row
  <2> HIDE DEF t
  <2>3. row' = t /\ now' = now /\ row.status = "scheduled" /\ Holds(h)'
    BY <1>3, <1>5, <2>1 DEF Holds
  <2>4. row'.status = "active" /\ row'.total_paused = 0 /\ Until' = now /\ Since' = now
    BY <1>5, <2>2, <2>3 DEF SessionInv, Until, Since
  <2> QED
    BY <1>4, <1>5, <2>3, <2>4
<1>7. ASSUME NEW t, SessionInv, row' = t, now' = now, Holds(h)', t.status # "scheduled" \/ t.status = row.status,
             t.session_started_at = row.session_started_at,
             t.paused_at = row.paused_at, t.total_paused = row.total_paused
      PROVE  SessionInv'
  <2>1. Until' = Until /\ Since' = Since
    BY <1>7 DEF Until, Since
  <2> QED
    BY <1>4, <1>7, <2>1 DEF SessionInv
<1>8. CASE IncreaseBlindWrite(h)
  <2> DEFINE t == [row EXCEPT !.structure = [req[h].structure EXCEPT !.current_round = @ + 1]]
  <2>1. Save(h, "increaseBlind", t)
    BY <1>8 DEF IncreaseBlindWrite
  <2>2. /\ t.status = row.status /\ t.session_started_at = row.session_started_at
        /\ t.paused_at = row.paused_at /\ t.total_paused = row.total_paused
    BY <1>1 DEF Row
  <2> HIDE DEF t
  <2> QED
    BY <1>3, <1>7, <2>1, <2>2
<1>9. ASSUME NEW len \in Lengths, NEW levels \in LevelCounts, NEW st \in {row.status} \cup EditStatuses,
             Save(h, "updateTournament",
                  [row EXCEPT !.status = st,
                              !.structure = [req[h].structure EXCEPT
                                  !.minutes_per_level = len, !.number_of_levels = levels]])
      PROVE  SessionInv'
  <2> DEFINE t == [row EXCEPT !.status = st,
                              !.structure = [req[h].structure EXCEPT
                                  !.minutes_per_level = len, !.number_of_levels = levels]]
  <2>1. Save(h, "updateTournament", t)
    BY <1>9
  <2>2. /\ t.status = st /\ t.session_started_at = row.session_started_at
        /\ t.paused_at = row.paused_at /\ t.total_paused = row.total_paused
    BY <1>1 DEF Row
  <2> HIDE DEF t
  <2>3. st # "scheduled" \/ st = row.status
    OBVIOUS
  <2> QED
    BY <1>3, <1>7, <2>1, <2>2, <2>3
<1>10. CASE PauseTournamentWrite(h)
  <2> DEFINE t == [row EXCEPT !.paused_at = req[h].at]
  <2>1. Save(h, "pause", t)
    BY <1>10 DEF PauseTournamentWrite
  <2>2. /\ t.status = row.status /\ t.session_started_at = row.session_started_at
        /\ t.paused_at = req[h].at /\ t.total_paused = row.total_paused
    BY <1>1 DEF Row
  <2> HIDE DEF t
  <2>3. row' = t /\ now' = now /\ req[h].pc = "pause" /\ Holds(h)'
    BY <1>3, <2>1
  <2>4. req[h].at \in Nat
    BY <1>1, <2>3 DEF Request, Kept, Idle
  <2>5. Until' = req[h].at /\ Since' = Since
    BY <1>5, <2>2, <2>3, <2>4 DEF Until, Since
  <2>6. row.status # "scheduled"
    BY <1>5, <2>3 DEF Holds
  <2> QED
    BY <1>4, <1>5, <2>2, <2>3, <2>5, <2>6 DEF Holds, SessionInv
<1>11. CASE ResumeTournamentWrite(h)
  <2> DEFINE t == [row EXCEPT !.paused_at = Never, !.total_paused = req[h].total_paused]
  <2>1. Save(h, "resume", t)
    BY <1>11 DEF ResumeTournamentWrite
  <2>2. /\ t.status = row.status /\ t.session_started_at = row.session_started_at
        /\ t.paused_at = Never /\ t.total_paused = req[h].total_paused
    BY <1>1 DEF Row
  <2> HIDE DEF t
  <2>3. row' = t /\ now' = now /\ req[h].pc = "resume" /\ Holds(h)'
    BY <1>3, <2>1
  <2>4. Until' = now /\ Since' = Since /\ now <= now
    BY <1>5, <2>2, <2>3 DEF Until, Since
  <2>5. row.status # "scheduled"
    BY <1>5, <2>3 DEF Holds, SessionInv
  <2> QED
    BY <1>4, <1>5, <2>2, <2>3, <2>4, <2>5 DEF Holds
<1>12. CASE StopTournamentWrite(h)
  <2> DEFINE t == [row EXCEPT !.status = "completed", !.paused_at = Never]
  <2>1. Save(h, "stop", t)
    BY <1>12 DEF StopTournamentWrite
  <2>2. /\ t.status = "completed" /\ t.session_started_at = row.session_started_at
        /\ t.paused_at = Never /\ t.total_paused = row.total_paused
    BY <1>1 DEF Row
  <2> HIDE DEF t
  <2>3. row' = t /\ now' = now /\ Holds(h)'
    BY <1>3, <2>1
  <2>4. Until' = now /\ Since' = Since
    BY <2>2, <2>3 DEF Until, Since
  <2> QED
    BY <1>4, <2>2, <2>3, <2>4, EndsInTime
<1> QED
  BY <1>6, <1>8, <1>9, <1>10, <1>11, <1>12 DEF UpdateTournamentWrite

LEMMA AtOnceSession ==
  ASSUME "scheduled" \notin EditStatuses, OneAtATime, IInv, IInv', SessionInv, NEW h \in Handlers,
         EndTournament(h) \/ EditStatus(h)
  PROVE  SessionInv'
<1>1. row \in Row
  BY DEF IInv
<1>2. req[h] = Idle /\ req' = req /\ now' = now
  BY Zenon DEF EndTournament, EditStatus
<1>3. \A g \in Handlers : Holds(g)'
  BY <1>2 DEF OneAtATime, Holds, Idle
<1>4. CASE EndTournament(h)
  <2> DEFINE t == [row EXCEPT !.status = "completed", !.paused_at = Never]
  <2>1. row' = t
    BY <1>4 DEF EndTournament
  <2>2. /\ t.status = "completed" /\ t.session_started_at = row.session_started_at
        /\ t.paused_at = Never /\ t.total_paused = row.total_paused
    BY <1>1 DEF Row
  <2> HIDE DEF t
  <2>3. Until' = now /\ Since' = Since
    BY <1>2, <2>1, <2>2 DEF Until, Since
  <2> QED
    BY <1>2, <1>3, <2>1, <2>2, <2>3, EndsInTime DEF SessionInv
<1>5. ASSUME NEW st \in EditStatuses, row' = [row EXCEPT !.status = st]
      PROVE  SessionInv'
  <2>1. /\ row'.status = st /\ row'.session_started_at = row.session_started_at
        /\ row'.paused_at = row.paused_at /\ row'.total_paused = row.total_paused
    BY <1>1, <1>5 DEF Row
  <2>2. Until' = Until /\ Since' = Since /\ st # "scheduled"
    BY <1>2, <2>1 DEF Until, Since
  <2> QED
    BY <1>2, <1>3, <2>1, <2>2 DEF SessionInv
<1> QED
  BY <1>4, <1>5 DEF EditStatus

LEMMA SessionStep ==
  ASSUME "scheduled" \notin EditStatuses, OneAtATime, IInv, IInv', SessionInv, [Next]_vars
  PROVE  SessionInv'
<1>1. now \in Nat
  BY DEF IInv
<1>2. ASSUME NEW p \in Pollers, Poll(p) PROVE SessionInv'
  BY <1>1, <1>2, PollSession, SessionLeftAlone
<1>3. ASSUME NEW h \in Handlers, Staff(h) PROVE SessionInv'
  BY <1>3, LoadSession, SaveSession, AtOnceSession DEF Staff
<1>4. CASE Tick
  BY <1>1, <1>4, SessionLeftAlone DEF Tick, SameSession
<1>5. CASE Restart
  <2>1. \A h \in Handlers : req'[h] = Idle
    BY <1>5 DEF Restart
  <2> QED
    BY <1>1, <1>5, <2>1, SessionLeftAlone DEF Restart, SameSession, Idle
<1>6. CASE UNCHANGED vars
  BY <1>1, <1>6, SessionLeftAlone DEF vars, SameSession
<1> QED
  BY <1>2, <1>3, <1>4, <1>5, <1>6 DEF Next

LEMMA SessionInit == Init => SessionInv
<1> SUFFICES ASSUME Init PROVE SessionInv
  OBVIOUS
<1>1. /\ row.session_started_at = Never /\ row.paused_at = Never /\ row.total_paused = 0
      /\ now = 0 /\ \A h \in Handlers : req[h] = Idle
  BY DEF Init
<1> QED
  BY <1>1 DEF SessionInv, Since, Until, Holds, Idle

\* The pauses of a session fit into it: pauseTournament and resumeTournament,
\* one request at a time, and as long as no edit makes a started tournament
\* "scheduled" again, which would let startTournament keep its old pauses.
THEOREM PausesFit ==
  ASSUME OneAtATime, "scheduled" \notin EditStatuses
  PROVE  Spec => []PausedTimeIsReal
<1>1. SessionInv /\ IInv /\ IInv' /\ [Next]_vars => SessionInv'
  BY SessionStep
<1>2. SessionInv => PausedTimeIsReal
  BY DEF SessionInv, PausedTimeIsReal, Since, Until
<1> QED
  BY SessionInit, Invariant, <1>1, <1>2, PTL DEF Spec

-----------------------------------------------------------------------------
(* Types, with the bounds of a run.                                        *)

\* The rounds that are stored, or about to be, and the bounds on the rest; the
\* times follow from SessionInv.
Round(st) == st.current_round <= MaxRound

Bounds ==
  /\ now <= MaxTime /\ restarts \in 0 .. MaxRestarts /\ Round(row.structure)
  /\ \A p \in Pollers : polls[p].pc = "check" => polls[p].seen \in Rows
  /\ \A h \in Handlers :
       /\ req[h].pc \in {"start", "updateTournament"} => Round(req[h].structure)
       /\ req[h].pc = "increaseBlind" => req[h].structure.current_round < MaxRound

LEMMA MaxRoundIsOne == MaxRound \in Nat /\ MaxTime \in Nat /\ 1 <= MaxRound
<1>1. PICK n \in LevelCounts : n \in Nat \ {0} /\ n <= MaxRound
  BY ClockAssumption
<1> QED
  BY <1>1, ClockAssumption

LEMMA InStructures ==
  ASSUME NEW st \in Structure, Round(st)
  PROVE  st \in Structures
BY MaxRoundIsOne DEF Structure, Structures, Round

LEMMA RowInRows ==
  ASSUME IInv, SessionInv, Bounds
  PROVE  row \in Rows
<1>1. /\ now \in Nat /\ MaxTime \in Nat /\ now <= MaxTime /\ Until <= now /\ 0 <= row.total_paused
      /\ row.total_paused <= Until - Since
  BY SessionFacts, MaxRoundIsOne DEF SessionInv, Bounds
<1>2. row.total_paused \in Times /\ Since \in Times /\ Until \in Times
  BY <1>1, SessionFacts DEF Times
<1>3. row.session_started_at \in Times \cup {Never} /\ row.paused_at \in Times \cup {Never}
  BY <1>2, SessionFacts DEF Since, Until
<1>4. row.structure \in Structures
  BY InStructures DEF IInv, Row, Bounds
<1> QED
  BY <1>2, <1>3, <1>4 DEF IInv, Row, Rows

\* A tick holds a level of the tournament, and those are bounded.
LEMMA DecidedBounded ==
  ASSUME NEW d \in Decided
  PROVE  d.from \in 1 .. MaxRound /\ d.structure \in Structures
<1>1. d.structure \in Structure /\ d.from \in Nat \ {0} /\ d.structure.current_round > d.from
      /\ d.structure.current_round <= d.structure.number_of_levels
  BY DEF Decided
<1>2. /\ d.structure.current_round \in Nat /\ d.structure.number_of_levels \in Nat
      /\ d.structure.number_of_levels <= MaxRound
  BY <1>1, ClockAssumption DEF Structure
<1> QED
  BY <1>1, <1>2, MaxRoundIsOne, InStructures DEF Round

LEMMA BoundsAreTypes ==
  ASSUME IInv, SessionInv, Bounds
  PROVE  TypeOK
<1>1. now \in Times
  BY SessionFacts, MaxRoundIsOne DEF Bounds, Times
<1>2. ASSUME NEW p \in Pollers
      PROVE  \/ polls[p] = Idle
             \/ polls[p].pc = "check" /\ polls[p].seen \in Rows
             \/ /\ polls[p].pc = "update"
                /\ polls[p].from \in 1 .. MaxRound
                /\ polls[p].structure \in Structures
  <2>1. polls[p] = Idle \/ polls[p] \in Seen \/ polls[p] \in Decided
    BY DEF IInv
  <2>2. CASE polls[p] \in Seen
    BY <2>2 DEF Seen, Bounds
  <2>3. CASE polls[p] \in Decided
    BY <2>3, DecidedBounded DEF Decided
  <2> QED
    BY <2>1, <2>2, <2>3
<1>3. ASSUME NEW h \in Handlers
      PROVE  \/ req[h] = Idle
             \/ req[h].pc = "stop"
             \/ req[h].pc = "pause" /\ req[h].at \in Times
             \/ req[h].pc = "resume" /\ req[h].total_paused \in Times
             \/ /\ req[h].pc \in {"start", "increaseBlind", "updateTournament"}
                /\ req[h].structure \in Structures
  <2>1. /\ req[h] \in Request /\ Holds(h) /\ now \in Nat /\ now <= MaxTime
        /\ Since \in Nat /\ MaxTime \in Nat
    BY SessionFacts, MaxRoundIsOne DEF IInv, SessionInv, Bounds
  <2>2. CASE req[h] \in [pc : {"pause"}, at : Nat]
    BY <2>1, <2>2 DEF Holds, Times
  <2>3. CASE req[h] \in [pc : {"resume"}, total_paused : Int]
    BY <2>1, <2>3 DEF Holds, Times
  <2>4. CASE req[h] \in Kept
    <3>1. /\ req[h].structure \in Structure /\ req[h].structure.current_round \in Nat
          /\ req[h].pc \in {"start", "increaseBlind", "updateTournament"}
      BY <2>4 DEF Kept, Structure
    <3>2. Round(req[h].structure)
      BY <3>1, MaxRoundIsOne DEF Bounds, Round
    <3> QED
      BY <3>1, <3>2, InStructures
  <2> QED
    BY <2>1, <2>2, <2>3, <2>4 DEF Request
<1>4. row \in Rows /\ restarts \in 0 .. MaxRestarts
  BY RowInRows DEF Bounds
<1> QED
  BY <1>1, <1>2, <1>3, <1>4 DEF TypeOK

LEMMA BoundsPoll ==
  ASSUME IInv, SessionInv, Bounds, NEW p \in Pollers, Poll(p)
  PROVE  Bounds'
<1>1. polls \in [Pollers -> {Idle} \cup Seen \cup Decided]
  BY DEF IInv
<1>2. now' = now /\ restarts' = restarts /\ req' = req
  BY Zenon DEF Poll, PollRead, PollCheck, PollUpdate
<1>3. CASE PollRead(p)
  <2>1. row' = row /\ polls' = [polls EXCEPT ![p] = [pc |-> "check", seen |-> row]] /\ row \in Rows
    BY <1>3, RowInRows DEF PollRead
  <2> QED
    BY <1>1, <1>2, <2>1 DEF Bounds
<1>4. CASE PollCheck(p)
  <2> DEFINE seen == polls[p].seen
             d == IF Overdue(seen, now)
                  THEN [pc |-> "update", from |-> CurrentRound(seen),
                        structure |-> [seen.structure EXCEPT
                                         !.current_round = calcExpectedRound(seen, now)]]
                  ELSE Idle
  <2>1. row' = row /\ polls' = [polls EXCEPT ![p] = d]
    BY <1>4, Zenon DEF PollCheck
  <2>2. d.pc # "check"
    BY DEF Idle
  <2> HIDE DEF d
  <2> QED
    BY <1>1, <1>2, <2>1, <2>2 DEF Bounds
<1>5. CASE PollUpdate(p)
  <2>1. /\ polls[p].pc = "update" /\ polls' = [polls EXCEPT ![p] = Idle]
        /\ row' = row \/ row' = [row EXCEPT !.structure = polls[p].structure]
    BY <1>5 DEF PollUpdate
  <2>2. polls[p].structure \in Structures
    BY <1>1, <2>1, DecidedBounded DEF Seen, Idle
  <2>3. Round(row'.structure)
    BY <2>1, <2>2, MaxRoundIsOne DEF Bounds, IInv, Row, Round, Structures
  <2> QED
    BY <1>1, <1>2, <2>1, <2>3 DEF Bounds, Idle
<1> QED
  BY <1>3, <1>4, <1>5 DEF Poll

\* The writes that leave the structure alone.
LEMMA SameStructure ==
  ASSUME row \in Row, NEW h,
         PauseTournamentWrite(h) \/ ResumeTournamentWrite(h) \/ StopTournamentWrite(h)
  PROVE  \E op, t : Save(h, op, t) /\ t.structure = row.structure
<1>1. CASE PauseTournamentWrite(h)
  <2> DEFINE t == [row EXCEPT !.paused_at = req[h].at]
  <2>1. Save(h, "pause", t)
    BY <1>1 DEF PauseTournamentWrite
  <2>2. t.structure = row.structure
    BY DEF Row
  <2> HIDE DEF t
  <2> QED
    BY <2>1, <2>2
<1>2. CASE ResumeTournamentWrite(h)
  <2> DEFINE t == [row EXCEPT !.paused_at = Never, !.total_paused = req[h].total_paused]
  <2>1. Save(h, "resume", t)
    BY <1>2 DEF ResumeTournamentWrite
  <2>2. t.structure = row.structure
    BY DEF Row
  <2> HIDE DEF t
  <2> QED
    BY <2>1, <2>2
<1>3. CASE StopTournamentWrite(h)
  <2> DEFINE t == [row EXCEPT !.status = "completed", !.paused_at = Never]
  <2>1. Save(h, "stop", t)
    BY <1>3 DEF StopTournamentWrite
  <2>2. t.structure = row.structure
    BY DEF Row
  <2> HIDE DEF t
  <2> QED
    BY <2>1, <2>2
<1> QED
  BY <1>1, <1>2, <1>3

LEMMA BoundsStaff ==
  ASSUME IInv, Bounds, NEW h \in Handlers, Staff(h)
  PROVE  Bounds'
<1>1. req \in [Handlers -> Request] /\ row \in Row /\ Round(row.structure)
  BY DEF IInv, Bounds
<1>2. now' = now /\ restarts' = restarts /\ polls' = polls
  BY Zenon DEF Staff, StartTournamentRead, StartTournamentWrite, PauseTournamentRead,
     PauseTournamentWrite, ResumeTournamentRead, ResumeTournamentWrite, StopTournamentRead,
     StopTournamentWrite, EndTournament, IncreaseBlindRead, IncreaseBlindWrite, UpdateTournamentRead,
     UpdateTournamentWrite, EditStatus, LoadStructure, Load, Save
<1>3. ASSUME NEW op, NEW kept, Load(h, op, kept),
             kept.pc \in {"start", "updateTournament"} => Round(kept.structure),
             kept.pc = "increaseBlind" => kept.structure.current_round < MaxRound
      PROVE  Bounds'
  <2>1. row' = row /\ req' = [req EXCEPT ![h] = kept]
    BY <1>3 DEF Load
  <2> QED
    BY <1>1, <1>2, <1>3, <2>1 DEF Bounds
<1>4. ASSUME NEW op, NEW t, Save(h, op, t), Round(t.structure)
      PROVE  Bounds'
  <2>1. row' = t /\ req' = [req EXCEPT ![h] = Idle]
    BY <1>4 DEF Save
  <2> QED
    BY <1>1, <1>2, <1>4, <2>1 DEF Bounds, Idle
<1>5. CASE StartTournamentRead(h) \/ IncreaseBlindRead(h) \/ UpdateTournamentRead(h)
  <2>1. \E op \in {"start", "updateTournament", "increaseBlind"} :
          /\ Load(h, op, [pc |-> op, structure |-> row.structure])
          /\ op = "increaseBlind" => row.structure.current_round < MaxRound
    BY <1>5 DEF StartTournamentRead, IncreaseBlindRead, UpdateTournamentRead, LoadStructure
  <2> QED
    BY <1>1, <1>3, <2>1
<1>6. CASE PauseTournamentRead(h) \/ ResumeTournamentRead(h) \/ StopTournamentRead(h)
  <2>1. \E op, kept : Load(h, op, kept) /\ kept.pc \in {"pause", "resume", "stop"}
    BY <1>6 DEF PauseTournamentRead, ResumeTournamentRead, StopTournamentRead
  <2> QED
    BY <1>3, <2>1
<1>7. CASE StartTournamentWrite(h)
  <2> DEFINE s == [req[h].structure EXCEPT !.current_round = 1]
             t == [row EXCEPT !.status = "active", !.session_started_at = now, !.structure = s]
  <2>1. Save(h, "start", t)
    BY <1>7 DEF StartTournamentWrite
  <2>2. req[h].pc = "start"
    BY <2>1 DEF Save
  <2>3. s.current_round = 1
    BY <2>2, KeptStructure DEF Structure
  <2> HIDE DEF s
  <2>4. t.structure = s
    BY <1>1 DEF Row
  <2> HIDE DEF t
  <2> QED
    BY <1>4, <2>1, <2>3, <2>4, MaxRoundIsOne DEF Round
<1>8. CASE IncreaseBlindWrite(h)
  <2> DEFINE s == [req[h].structure EXCEPT !.current_round = @ + 1]
             t == [row EXCEPT !.structure = s]
  <2>1. Save(h, "increaseBlind", t)
    BY <1>8 DEF IncreaseBlindWrite
  <2>2. req[h].pc = "increaseBlind"
    BY <2>1 DEF Save
  <2>3. /\ s.current_round = req[h].structure.current_round + 1
        /\ req[h].structure.current_round \in Nat
    BY <2>2, KeptStructure DEF Structure
  <2> HIDE DEF s
  <2>4. t.structure = s
    BY <1>1 DEF Row
  <2>5. req[h].structure.current_round < MaxRound
    BY <2>2 DEF Bounds
  <2> HIDE DEF t
  <2>6. Round(t.structure)
    BY <2>3, <2>4, <2>5, MaxRoundIsOne DEF Round
  <2> QED
    BY <1>4, <2>1, <2>6
<1>9. ASSUME NEW len, NEW levels, NEW st,
             Save(h, "updateTournament",
                  [row EXCEPT !.status = st,
                              !.structure = [req[h].structure EXCEPT
                                  !.minutes_per_level = len, !.number_of_levels = levels]])
      PROVE  Bounds'
  <2> DEFINE s == [req[h].structure EXCEPT !.minutes_per_level = len, !.number_of_levels = levels]
             t == [row EXCEPT !.status = st, !.structure = s]
  <2>1. Save(h, "updateTournament", t)
    BY <1>9
  <2>2. req[h].pc = "updateTournament"
    BY <2>1 DEF Save
  <2>3. s.current_round = req[h].structure.current_round
    BY <2>2, KeptStructure DEF Structure
  <2> HIDE DEF s
  <2>4. t.structure = s
    BY <1>1 DEF Row
  <2> HIDE DEF t
  <2> QED
    BY <1>4, <2>1, <2>2, <2>3, <2>4 DEF Bounds, Round
<1>10. CASE PauseTournamentWrite(h) \/ ResumeTournamentWrite(h) \/ StopTournamentWrite(h)
  <2>1. PICK op, t : Save(h, op, t) /\ t.structure = row.structure
    BY <1>1, <1>10, SameStructure
  <2> QED
    BY <1>1, <1>4, <2>1
<1>11. CASE EndTournament(h) \/ EditStatus(h)
  <2>1. row'.structure = row.structure /\ req' = req
    BY <1>1, <1>11 DEF EndTournament, EditStatus, Row
  <2> QED
    BY <1>1, <1>2, <2>1 DEF Bounds
<1> QED
  BY <1>5, <1>6, <1>7, <1>8, <1>9, <1>10, <1>11 DEF Staff, UpdateTournamentWrite

LEMMA BoundsStep ==
  ASSUME IInv, SessionInv, Bounds, [Next]_vars
  PROVE  Bounds'
<1>1. ASSUME NEW p \in Pollers, Poll(p) PROVE Bounds'
  BY <1>1, BoundsPoll
<1>2. ASSUME NEW h \in Handlers, Staff(h) PROVE Bounds'
  BY <1>2, BoundsStaff
<1>3. CASE Tick
  <2>1. now' <= MaxTime
    BY <1>3, MaxRoundIsOne DEF Tick, IInv
  <2> QED
    BY <1>3, <2>1 DEF Tick, Bounds
<1>4. CASE Restart
  <2>1. restarts' \in 0 .. MaxRestarts
    BY <1>4, ClockAssumption DEF Restart, Bounds
  <2> QED
    BY <1>4, <2>1 DEF Restart, Bounds, Idle
<1>5. CASE UNCHANGED vars
  BY <1>5 DEF vars, Bounds
<1> QED
  BY <1>1, <1>2, <1>3, <1>4, <1>5 DEF Next

LEMMA BoundsInit == Init => Bounds
<1> SUFFICES ASSUME Init PROVE Bounds
  OBVIOUS
<1>1. /\ now = 0 /\ restarts = 0 /\ row.structure.current_round = 0
      /\ (\A p \in Pollers : polls[p] = Idle) /\ (\A h \in Handlers : req[h] = Idle)
  BY DEF Init
<1>2. 0 <= MaxTime /\ 0 \in 0 .. MaxRestarts /\ 0 <= MaxRound
  BY ClockAssumption
<1> QED
  BY <1>1, <1>2 DEF Bounds, Round, Idle

\* The row and what is in flight keep their shapes: the paused time that a
\* resume is about to save is never negative nor longer than the run, and no
\* one stores a level past the last.
THEOREM TypeCorrect ==
  ASSUME OneAtATime, "scheduled" \notin EditStatuses
  PROVE  Spec => []TypeOK
<1>1. SessionInv /\ IInv /\ IInv' /\ [Next]_vars => SessionInv'
  BY SessionStep
<1>2. Bounds /\ SessionInv /\ IInv /\ [Next]_vars => Bounds'
  BY BoundsStep
<1>3. IInv /\ SessionInv /\ Bounds => TypeOK
  BY BoundsAreTypes
<1> QED
  BY SessionInit, BoundsInit, Invariant, <1>1, <1>2, <1>3, PTL DEF Spec
=============================================================================
