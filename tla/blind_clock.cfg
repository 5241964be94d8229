SPECIFICATION Spec
CONSTANTS
  Handlers = {h1}
  Pollers = {w1, w2}
  Ops = {"start", "pause", "resume", "stop", "end", "increaseBlind", "updateTournament", "editStatus"}
  Lengths = {1}
  LevelCounts = {3}
  EditStatuses = {"active"}
  BreakEvery = 2
  BreakDuration = 1
  MaxTime = 3
  MaxRound = 3
  MaxRestarts = 1
  Never = Never
INVARIANTS TypeOK PausedTimeIsReal
PROPERTIES PollerOnlyAdvances CatchUp
