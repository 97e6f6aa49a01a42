CONSTANTS
  Adapters = {"webhook", "zendesk", "linear"}
  NoAdapter = NoAdapter
  Classes = {"bug", "other"}
  Severities = {"high", "unknown"}
  Relays = {r1, r2}
  Enabled = {"webhook", "zendesk"}
  Paid = {"zendesk", "linear"}
  Rules <- MCRules
  Licenses <- MCLicenses
  NoLicense = NoLicense
  BadLicense = BadLicense
  Missing = Missing
  Torn = Torn
  TrialDuration = 2
  MaxTime = 3
SYMMETRY Symmetry
SPECIFICATION Spec
INVARIANTS
  TrialExpires
  NeverTorn
  RoutesEntitled
