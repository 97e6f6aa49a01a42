CONSTANTS
  Adapters = {"webhook", "chatwoot", "fider", "zendesk", "linear"}
  NoAdapter = NoAdapter
  Classes = {"other"}
  Severities = {"unknown"}
  MIMETypes = {"png", "svg"}
  AttachmentsEnabled = TRUE
  AllowedMIMETypes = {"png"}
  Accepted = {"png"}
  MaxSizeBytes = 2
  MaxTotalBytes = 3
  Submissions = {s1, s2}
  Registry = {"webhook", "chatwoot", "fider", "zendesk", "linear"}
  Rules <- MCRules
  Default = "webhook"
  Emails = {e1}
  NoEmail = NoEmail
  Requests <- MCRequests
  MaxAttempts = 2
SPECIFICATION FairSpec
CHECK_DEADLOCK FALSE
INVARIANTS
  OKMeansFiled
  NoPartialTicket
  Deliveries
  ValidOrUnsent
  BlamelessError
PROPERTIES
  NothingSentWhenGone
  SubmitEnds
