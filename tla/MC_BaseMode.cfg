SPECIFICATION Spec
CONSTANTS
  Names = {"A", "B"}
  MaxEditions = 2
  Plans <- MCPlans
INVARIANT ModeMatchesReceiver
PROPERTY ModeFollows
