CONSTANTS
  Sources = {"feature"}
  Files = {"orders", "returns"}
  Tracked = {"orders"}
  Paths = {{}, {"returns"}}
  Overrides = {"", "cli"}
  Logins = {{"native"}, {"token", "api"}}
  MaxEdits = 2
  MaxFaults = 1
  MaxOutside = 1
SPECIFICATION Spec
PROPERTIES AckedCarriesChange GivesUpLast RetryDelivers
