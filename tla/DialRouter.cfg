SPECIFICATION Spec
CONSTANTS
    c1 = c1
    c2 = c2
    r1 = r1
    cli = cli
    sdk = sdk
    Callers = {c1, c2}
    Routers = {r1}
    RouterOf <- OneRouter
    Providers = {cli, sdk}
    Cli = {cli}
    Telling = {cli, sdk}
    Configs <- TheConfigs
    Tokens = {2}
    MaxAnswer = 2
    MaxRequests = 2
    MaxTokens = 2
INVARIANTS
    TypeOK
    OvershootBounded
    SwitchIsAnnounced
    NoStrayProcess
PROPERTY CallsEnd
