CONSTANTS
    Nodes <- MCNodes
    ForeignNodes = {}
    Models <- MCModels
    NodeOf <- MCNodeOf
    RefOf <- MCRefOf
    FieldsOf <- MCFieldsOf
    ReferencesOf <- MCReferencesOf
    EdgeIds <- MCEdgeIds
    Funcs = {"f"}
    Hooks = {"h"}
    EdgeEntries <- MCEdgeEntries
    OnMissing = "raise"
    MaxHooks = 1
    KindRank <- MCKindRank
    DiscRank <- MCDiscRank
    Publishers = {p, q}
    Seeds <- MCSeeds
    MaxChanges = 2
    MaxGeneration = 2
SPECIFICATION PSpec
INVARIANTS
    SnapshotAnswersAsRegistry
    TraversalsMatchReference
    RevisionsPinGraphs
    ChronologyIsLinear
SYMMETRY Symmetry
