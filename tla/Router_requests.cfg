CONSTANTS
    kimi = kimi
    kimi2 = kimi2
    qwen = qwen
    r1 = r1
    Requests = {r1}
    Providers = {kimi, kimi2, qwen}
    Nothing = Nothing
    FamilyOf <- MCFamilyOf
    WireOf <- MCWireOf
    PolicyOf <- MCPolicyOf
    Settings <- MCSettings
    Temperatures = {0, 10, 13}
    MaxRetries = 2
    MaxLines = 3
    MaxRotations = 1
SPECIFICATION RouterFairSpec

    
PROPERTIES
    FailuresAreExplained
    EveryRequestEnds
CHECK_DEADLOCK FALSE
