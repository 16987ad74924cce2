SPECIFICATION Spec
CONSTANTS
  TeamSize = 4
  MaxBooked = 2
  MaxStops = 2
INVARIANTS TypeOK BooksAgree OneGoalkeeper SelectionFollowsPlay
INVARIANTS OffPitchSelection
