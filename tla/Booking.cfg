\* One type with one room, and HTTP clients against two overlapping replies of a
\* call.
CONSTANTS
  suite = suite
  king = king
  Rooms = {suite}
  Seed <- MCSeed
  Calls = {c1}
  MaxReplies = 2
  Transcripts <- MCTranscripts
  Contents <- MCContents
  MaxToolIterations = 2
  ToolMessages <- MCToolMessages
  MaxHistory = 2
  MaxHTTP = 1
  NoRoom = NoRoom
  HTTP = HTTP
SPECIFICATION Spec
INVARIANTS RoomsConserved ConfirmationIsBacked NoBookingWithoutRequest
PROPERTIES LedgerSpec UnbackedEndingNamesNumber
\* When all replies have returned nothing happens any more.
CHECK_DEADLOCK FALSE
