SPECIFICATION Spec
CONSTANTS
  Entries <- MCEntries
  Ladder <- MCLadder
  InitialEntry <- MCInitialEntry
  InitialHands <- MCInitialHands
  Editable = {"app"}
  MissingRungs = {}
  Ids = {1, 2, 3, 4}
INVARIANTS Converges ConsentRollsBack
PROPERTIES ForeignUntouched LoginSurvives
