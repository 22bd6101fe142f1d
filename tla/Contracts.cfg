SPECIFICATION Spec
CONSTANTS
    Letters = {a, b}
    Marker = Marker
    SecretSets <- MCSecretSets
    MaxInput = 6
    Null = Null
    Texts <- MCTexts
    BlankTexts = {" "}
    TaintedTexts = {"sk-secret"}
    PairIds <- MCPairIds
    Identifiers = {"PLAN-PARENT"}
    Digests = {"digest1", "digest2"}
    Paths <- MCPaths
    BrokenPaths <- MCBrokenPaths
    BlankPaths = {" "}
    LoosePaths <- MCLoosePaths
    QueryTask = "query"
    FanOutTasks = {"row"}
    OtherTasks = {"flight"}
    Label <- MCLabel
    Directories <- MCDirectories
    SessionPath <- MCSessionPath
    OneAsFloat = OneAsFloat
    FloatValue <- MCFloatValue
    OutputRoots = {r1, r2}
    WallSeconds = {w1, w2}
    Protocols = {"unknown", "sha256"}
    MaxEdits = 2
    MaxChanges = 3
    SampleTexts <- MCSampleTexts
    SamplePaths <- MCSamplePaths
    MaxFills = 2
SYMMETRY Symmetric
INVARIANT
    RedactionExact
    AssertedPairIsMatched
    BoundTreeIsAudited
    DecisionIsFaithful
    ContractsAgree
CHECK_DEADLOCK FALSE
