SPECIFICATION Spec
CONSTANTS
    Handles <- MCHandles
    Workspaces <- MCWorkspaces
    SlackChannels <- MCSlackChannels
    FractionDigits = 6
    Channels <- MCChannels
    Histories <- MCHistories
    Requests <- MCRequests
    MaxMessages = 2
    default_last_n = 2
    MaxSetups = 2
    MaxRequests = 2
INVARIANTS
    KeysIdentify
    NothingOmittedSilently
    LinksIdentify
CHECK_DEADLOCK FALSE
