SPECIFICATION Spec
CONSTANTS
    Intents = {i1}
    Proposals = {p1}
    Patches <- MCPatches
    InitWorkflow <- Guarded
    ConfirmTtl = 1
    ProposalTtl = 2
    MaxNow = 2
    MaxTokens = 2
    MaxList = 2
INVARIANTS
    TokensSound
    ChatWithinRights
PROPERTIES
    DecisionsAreFinal
