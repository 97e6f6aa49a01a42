CONSTANTS
  MIMETypes = {"png", "svg"}
  AttachmentsEnabled = TRUE
  AllowedMIMETypes = {"png"}
  Accepted = {"png"}
  MaxSizeBytes = 2
  MaxTotalBytes = 2
  Sizes = {1, 2, 3}
  LineEnds <- MCLineEnds
  MaxDeltas = 1
  MaxTurns = 2
  MaxCaptures = 2
  MaxClicks = 3
SPECIFICATION FairSpec
CHECK_DEADLOCK FALSE
INVARIANTS
  TypeOK
  Transcript
  KeptUntilSent
  Redacted
  PendingAcceptable
PROPERTIES
  ChunksHidden
  Settles
