SPECIFICATION RemotesSpec
CONSTANTS
  Ports <- McPorts
  BadHosts <- McBadHosts
  LowerCase <- McLowerCase
  Arguments <- McArguments
  Targets <- McTargets
INVARIANTS
  FormsAsTested
  TextsKeepMeaning
  
