CONSTANTS
  Adapters = {"webhook", "zendesk"}
  NoAdapter = NoAdapter
  Classes = {"bug"}
  Severities = {"high"}
  Relays = {r1}
  Enabled = {"webhook", "zendesk"}
  Paid = {"zendesk"}
  Rules <- MCRulesNone
  Licenses = {}
  NoLicense = NoLicense
  BadLicense = BadLicense
  Missing = Missing
  Torn = Torn
  TrialDuration = 2
  MaxTime = 3
SPECIFICATION Spec
INVARIANT
  FreeModeStarts
