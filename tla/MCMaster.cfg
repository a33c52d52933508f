SPECIFICATION MasterSpec
CONSTANTS
    Regions = {"us-west-2"}
    MaxPublishes = 1
    MaxServers = 3
    UrlMax = 2
    CredentialMax = 1
    PortMax = 3
    UlMod = 16
    ConfigLists <- MCConfigLists
    Messages <- MCMessages
    Builds <- MCBuilds
    MaxTransceivers = 2
    MaxHandled = 2
INVARIANTS
    UsersHaveTheirData
    ServersAreConfigured
    AnswersMirrorOffers
CHECK_DEADLOCK FALSE
