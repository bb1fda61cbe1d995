CONSTANTS
  AuthTimeout = 3
  TicksPerMs = 2
  MaxLate = 1
  Challenges <- MCChallenges
  Responses <- MCResponses
  Extra <- MCExtra
SPECIFICATION AuthFairSpec
INVARIANTS AuthenticatedMeansAccepted KeepsBytesAfterResponse
PROPERTIES AuthEndsButForTwoCases
