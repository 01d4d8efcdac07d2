SPECIFICATION MemorySpec
CONSTANTS
    Hosts = {"daemon", "adapter"}
    Sessions = {1}
    Runs = {1}
    Turns = {1, 2, 3, 4}
    Texts = {"a", "b", "c"}
    Channels = {"web", "terminal"}
    Floors = {0, 3}
    Cosine <- MCCosine
    Threshold = 1
    Window = 1
    MaxNow = 1
    MaxLog <- MCMaxLog
    Said = {"a"}
    Requests <- MCRequests
    MaxParents = 1
    MaxFaults = 1
    Pools <- MCPools
    Coverages = {"declared", "full"}
    Artifacts <- MCArtifacts
    Curves <- MCCurves
    PassAt = 9
    Certain = 10
    Gap = 2
    PruneTopN = 1
    RerankBudget = 3
    CascadeSlate = 3
    CascadeNarrow = 2
    AdmitTopK = 3
    MaxBatch = 2
    RrfK = 60
    Logits <- MCLogits
    Margin = 2
    MaxTokens = 4
    RecallLimit = 2
    VocabLines <- MCVocabLines
    TokenizerJson <- MCTokenizerJson
    VocabSize = 13
    MaxWord = 5
    MaxText = 5
    MaxPair = 8
    Setups <- MCSetups
    Memory <- MCMemory
    SessionFloor = 2
    Costs <- MCCosts
    Batches <- MCBatches
    MaxShifts = 1
    MaxFailures = 1
    MaxStarts = 2
    Snippets <- MCSnippets
CHECK_DEADLOCK FALSE
INVARIANTS LiveIsReplayed LineageBounds MergesKeepMeaning HostStands EncodedTruly OrderIsEarned AnswerAccounts
PROPERTY BeliefsLast
