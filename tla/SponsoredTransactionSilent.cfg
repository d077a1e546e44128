SPECIFICATION Spec
CONSTANTS
  sponsor = sponsor
  user = user
  object = object
  Address = {sponsor, user}
  Sponsor = sponsor
  Input = {object}
  GasCoin = GasCoin
  MaxRetries = 3
  MaxCommands = 1
PROPERTY
  ExecutionFinishes
CHECK_DEADLOCK FALSE
