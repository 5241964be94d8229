------------------------------ MODULE BlindClock ------------------------------
(***************************************************************************)
(* The blind clock of one tournament (clubs/services/tournaments.service). *)
(*                                                                         *)
(* Everything the clock needs is in the tournament's row: when the session *)
(* started, since when it is paused, how long it has been paused before,   *)
(* and, in the JSON column `structure', the level being played.  Staff     *)
(* write the row (start, pause, resume, stop, end, raise the blinds, edit) *)
(* through handlers that load it, decide on what they loaded, and save.    *)
(* A poller, run by an interval in every server process and not awaited,   *)
(* loads the running tournaments, works out the level the elapsed time     *)
(* calls for, and moves the row forward when it is behind.                 *)
(*                                                                         *)
(* Time is counted in minutes.  The amounts of the blinds, which double at *)
(* every level, are left out, and so is scheduleNextBlindIncrease: the     *)
(* timer it sets only deletes its own handle and logs.                     *)
(***************************************************************************)
EXTENDS Naturals, Integers, FiniteSets

CONSTANTS
    Handlers,       \* staff requests that may be in flight together
    Pollers,        \* ticks of the poller that may be in flight together
    Ops,            \* the staff operations a run exercises
    Lengths,        \* values an edit gives minutes_per_level
    LevelCounts,    \* values an edit gives number_of_levels
    EditStatuses,   \* values an edit gives status
    BreakEvery,     \* a break follows every this many levels; 0 for no breaks
    BreakDuration,  \* minutes of a break
    MaxTime,        \* bound: the clock stops here
    MaxRound,       \* bound: staff raise the blinds, and add levels, up to this one
    MaxRestarts,    \* bound: how often the server restarts
    Never           \* an unset timestamp

AllOps == {"start", "pause", "resume", "stop", "end", "increaseBlind",
           "updateTournament", "editStatus"}
Statuses == {"scheduled", "active", "completed"}

ASSUME ClockAssumption ==
    /\ Ops \subseteq AllOps
    /\ EditStatuses \subseteq Statuses
    /\ Lengths \subseteq Nat \ {0} /\ Lengths # {}
    /\ LevelCounts \subseteq Nat \ {0} /\ LevelCounts # {}
    /\ {BreakEvery, BreakDuration, MaxTime, MaxRound, MaxRestarts} \subseteq Nat
    /\ \A n \in LevelCounts : n <= MaxRound
    /\ Never \notin Int

VARIABLES
    now,            \* wall-clock minutes
    row,            \* the tournament's row
    polls,          \* polls[p]: the tick p of the poller has in flight
    req,            \* req[h]: the request h has in flight
    restarts        \* restarts so far

vars == <<now, row, polls, req, restarts>>

-----------------------------------------------------------------------------
(* The row. *)

Times == 0 .. MaxTime

\* current_round is 0 while the key is absent from the JSON column: an edit
\* and the creation of a tournament do not write it, the start does.
Structures ==
    [current_round : 0 .. MaxRound,
     minutes_per_level : Lengths,
     number_of_levels : LevelCounts]

Rows ==
    [status : Statuses,
     session_started_at : Times \cup {Never},
     paused_at : Times \cup {Never},
     total_paused : Times,
     structure : Structures]

\* What the poller's query selects.
Running(t) ==
    /\ t.status = "active"
    /\ t.session_started_at # Never
    /\ t.paused_at = Never

\* Number(structure.current_round) || 1
CurrentRound(t) ==
    IF t.structure.current_round = 0 THEN 1 ELSE t.structure.current_round

\* The minutes of play after which level l is over, the break that follows
\* it included; no break follows the last level.
LevelOver(s, l) ==
    LET over[k \in 0 .. l] ==
          IF k = 0 THEN 0
          ELSE over[k - 1] + s.minutes_per_level
                 + IF BreakEvery > 0 /\ k % BreakEvery = 0 /\ k < s.number_of_levels
                   THEN BreakDuration ELSE 0
    IN  over[l]

\* The level a running session should be at, at a given time: the first one
\* that is not over, and the last one when all are.
calcExpectedRound(t, at) ==
    LET s == t.structure
        elapsed == at - t.session_started_at - t.total_paused
        open == {l \in 1 .. s.number_of_levels : elapsed < LevelOver(s, l)}
    IN  IF elapsed <= 0 THEN 1
        ELSE IF open = {} THEN s.number_of_levels
        ELSE CHOOSE l \in open : \A k \in open : l <= k

Overdue(t, at) ==
    /\ CurrentRound(t) < t.structure.number_of_levels
    /\ calcExpectedRound(t, at) > CurrentRound(t)

-----------------------------------------------------------------------------
(* The poller. *)

Idle == [pc |-> "idle"]

PollRead(p) ==
    /\ polls[p] = Idle
    /\ Running(row)
    /\ polls' = [polls EXCEPT ![p] = [pc |-> "check", seen |-> row]]
    /\ UNCHANGED <<now, row, req, restarts>>

\* The tournaments one query returned are checked one after the other, each
\* after the updates of those before it: time may have passed since the read.
PollCheck(p) ==
    /\ polls[p].pc = "check"
    /\ LET seen == polls[p].seen IN
       polls' = [polls EXCEPT ![p] =
          IF Overdue(seen, now)
          THEN [pc |-> "update", from |-> CurrentRound(seen),
                structure |-> [seen.structure EXCEPT
                                 !.current_round = calcExpectedRound(seen, now)]]
          ELSE Idle]
    /\ UNCHANGED <<now, row, req, restarts>>

\* Faults: the UPDATE is not conditional; it is conditional on the new round.
BehindAlways(s, from) == TRUE
BehindTheTarget(s, from) == s.current_round = from + 1

\* The conditional UPDATE: current_round is compared in the database, where an
\* absent key is NULL and equals nothing.
Behind(s, from) == s.current_round # 0 /\ s.current_round = from

PollUpdate(p) ==
    /\ polls[p].pc = "update"
    /\ row' = IF Behind(row.structure, polls[p].from)
              THEN [row EXCEPT !.structure = polls[p].structure]
              ELSE row
    /\ polls' = [polls EXCEPT ![p] = Idle]
    /\ UNCHANGED <<now, req, restarts>>

Poll(p) == PollRead(p) \/ PollCheck(p) \/ PollUpdate(p)

-----------------------------------------------------------------------------
(* The staff's requests: load the row, check what was loaded, save.  A     *)
(* request keeps, of what it loaded, what it will save.                    *)

Load(h, op, kept) ==
    /\ req[h] = Idle
    /\ op \in Ops
    /\ req' = [req EXCEPT ![h] = kept]
    /\ UNCHANGED <<now, row, polls, restarts>>

Save(h, op, t) ==
    /\ req[h].pc = op
    /\ row' = t
    /\ req' = [req EXCEPT ![h] = Idle]
    /\ UNCHANGED <<now, polls, restarts>>

LoadStructure(h, op) == Load(h, op, [pc |-> op, structure |-> row.structure])

\* Neither total_paused nor paused_at is reset, and the structure that is
\* saved is the one loaded before the transaction.
StartTournamentRead(h) ==
    row.status \notin {"active", "completed"} /\ LoadStructure(h, "start")
StartTournamentWrite(h) ==
    Save(h, "start",
         [row EXCEPT !.status = "active",
                     !.session_started_at = now,
                     !.structure = [req[h].structure EXCEPT !.current_round = 1]])

PauseTournamentRead(h) ==
    /\ row.status = "active" /\ row.paused_at = Never
    /\ Load(h, "pause", [pc |-> "pause", at |-> now])
PauseTournamentWrite(h) == Save(h, "pause", [row EXCEPT !.paused_at = req[h].at])

\* Fault: the milliseconds of the pause are not converted.
PausedUntilInMillis(at) == row.total_paused + 1000 * (at - row.paused_at)

\* The time paused so far, once the pause the row is in ends.
PausedUntil(at) == row.total_paused + (at - row.paused_at)

ResumeTournamentRead(h) ==
    /\ row.status = "active" /\ row.paused_at # Never
    /\ Load(h, "resume", [pc |-> "resume", total_paused |-> PausedUntil(now)])

\* Fault: paused_at is not cleared.
ResumeStillPaused(h) ==
    Save(h, "resume", [row EXCEPT !.total_paused = req[h].total_paused])

ResumeTournamentWrite(h) ==
    Save(h, "resume",
         [row EXCEPT !.paused_at = Never, !.total_paused = req[h].total_paused])

StopTournamentRead(h) == row.status = "active" /\ Load(h, "stop", [pc |-> "stop"])
StopTournamentWrite(h) ==
    Save(h, "stop", [row EXCEPT !.status = "completed", !.paused_at = Never])

\* Checked again under the row's lock, in the transaction that pays the prizes.
EndTournament(h) ==
    /\ req[h] = Idle
    /\ "end" \in Ops
    /\ row.status = "active"
    /\ row' = [row EXCEPT !.status = "completed", !.paused_at = Never]
    /\ UNCHANGED <<now, polls, req, restarts>>

IncreaseBlindRead(h) ==
    /\ row.status = "active"
    /\ row.structure.current_round < MaxRound
    /\ LoadStructure(h, "increaseBlind")
IncreaseBlindWrite(h) ==
    Save(h, "increaseBlind",
         [row EXCEPT !.structure = [req[h].structure EXCEPT !.current_round = @ + 1]])

\* An edit of the level settings merges them into the structure it loaded; it
\* may name a status as well.
UpdateTournamentRead(h) == LoadStructure(h, "updateTournament")
UpdateTournamentWrite(h) ==
    \E len \in Lengths, levels \in LevelCounts, s \in {row.status} \cup EditStatuses :
        Save(h, "updateTournament",
             [row EXCEPT !.status = s,
                         !.structure = [req[h].structure EXCEPT
                             !.minutes_per_level = len, !.number_of_levels = levels]])

\* An edit that names no level setting leaves the structure alone; the status
\* it names is saved as it is.
EditStatus(h) ==
    /\ req[h] = Idle
    /\ "editStatus" \in Ops
    /\ \E s \in EditStatuses : row' = [row EXCEPT !.status = s]
    /\ UNCHANGED <<now, polls, req, restarts>>

Staff(h) ==
    \/ StartTournamentRead(h) \/ StartTournamentWrite(h)
    \/ PauseTournamentRead(h) \/ PauseTournamentWrite(h)
    \/ ResumeTournamentRead(h) \/ ResumeTournamentWrite(h)
    \/ StopTournamentRead(h) \/ StopTournamentWrite(h)
    \/ EndTournament(h)
    \/ IncreaseBlindRead(h) \/ IncreaseBlindWrite(h)
    \/ UpdateTournamentRead(h) \/ UpdateTournamentWrite(h)
    \/ EditStatus(h)

-----------------------------------------------------------------------------
(* The environment and the specification. *)

Tick ==
    /\ now < MaxTime
    /\ now' = now + 1
    /\ UNCHANGED <<row, polls, req, restarts>>

\* A restart loses what was in flight and nothing else: the clock is the row.
Restart ==
    /\ restarts < MaxRestarts
    /\ restarts' = restarts + 1
    /\ polls' = [p \in Pollers |-> Idle]
    /\ req' = [h \in Handlers |-> Idle]
    /\ UNCHANGED <<now, row>>

Init ==
    /\ now = 0
    /\ \E len \in Lengths, levels \in LevelCounts :
         row = [status |-> "scheduled",
                session_started_at |-> Never,
                paused_at |-> Never,
                total_paused |-> 0,
                structure |-> [current_round |-> 0,
                               minutes_per_level |-> len,
                               number_of_levels |-> levels]]
    /\ polls = [p \in Pollers |-> Idle]
    /\ req = [h \in Handlers |-> Idle]
    /\ restarts = 0

Next ==
    \/ \E p \in Pollers : Poll(p)
    \/ \E h \in Handlers : Staff(h)
    \/ Tick
    \/ Restart

\* The interval fires every ten seconds, an error in one tournament or in the
\* query is caught, and the database answers: a tick's steps are not put off
\* for ever.  Staff owe nothing.
Fairness == \A p \in Pollers : WF_vars(Poll(p))

Spec == Init /\ [][Next]_vars /\ Fairness

-----------------------------------------------------------------------------
(* Properties. *)

\* The row and what is in flight keep their shapes.
TypeOK ==
    /\ now \in Times
    /\ row \in Rows
    /\ restarts \in 0 .. MaxRestarts
    /\ \A p \in Pollers :
         \/ polls[p] = Idle
         \/ polls[p].pc = "check" /\ polls[p].seen \in Rows
         \/ /\ polls[p].pc = "update"
            /\ polls[p].from \in 1 .. MaxRound
            /\ polls[p].structure \in Structures
    /\ \A h \in Handlers :
         \/ req[h] = Idle
         \/ req[h].pc = "stop"
         \/ req[h].pc = "pause" /\ req[h].at \in Times
         \/ req[h].pc = "resume" /\ req[h].total_paused \in Times
         \/ /\ req[h].pc \in {"start", "increaseBlind", "updateTournament"}
            /\ req[h].structure \in Structures

\* The poller's update never takes a level back, whatever another tick or the
\* staff saved since it loaded the tournament, and never goes past the last
\* level: what the condition on current_round in the UPDATE of
\* checkAndAdvanceTournamentBlind is for.
PollerOnlyAdvances ==
    [][\A p \in Pollers : PollUpdate(p) =>
         \/ UNCHANGED row
         \/ /\ row'.structure.current_round > row.structure.current_round
            /\ row'.structure.current_round <= row'.structure.number_of_levels]_vars

\* A session has been paused for no longer than it has lasted, so that the
\* play time calcExpectedRound works with is never negative: the pauses that
\* pauseTournament and resumeTournament add up do not overlap and do not reach
\* back before the start.
PausedTimeIsReal ==
    row.session_started_at # Never =>
        row.total_paused <= (IF row.paused_at = Never THEN now ELSE row.paused_at)
                              - row.session_started_at

\* Blinds that are overdue are raised, or the session stops running: the
\* poller catches up after restarts, pauses and edits.
CatchUp ==
    (Running(row) /\ Overdue(row, now)) ~> ~(Running(row) /\ Overdue(row, now))

=============================================================================
