SPECIFICATION Spec
CONSTANTS
  None = None
  NonField = "all"
  Specs <- MCSpecs
  ServerTools <- MCServerTools
  ServiceSpecs <- MCServiceSpecs
  Toolsets <- MCToolsets
  Conditional = {"post"}
  Restricted = {"peek"}
  GuardEnabled = TRUE
  Exempt = {"peek"}
  RequireApproval = {"peek", "page", "close", "post"}
  Users = {"anna", "anonymous", None}
  Anonymous = "anonymous"
  Endpoints <- MCEndpoints
  Errors <- MCErrors
  MaxWaiting = 1
INVARIANTS TypeOK MutationsAreApproved SourcesKeepApart CardsNameTheToolThatRuns OfferedOrExplained RetriesAreSafe RetriesSayEverything AdvertisedArgumentsBind
