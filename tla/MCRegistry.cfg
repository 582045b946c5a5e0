CONSTANTS
    Nodes <- MCNodes
    ForeignNodes <- MCForeignNodes
    Models <- MCModels
    NodeOf <- MCNodeOf
    RefOf <- MCRefOf
    FieldsOf <- MCFieldsOf
    ReferencesOf <- MCReferencesOf
    EdgeIds <- MCEdgeIds
    Funcs = {"f"}
    Hooks = {"h"}
    EdgeEntries <- MCEdgeEntries
    OnMissing = "reconstruct_model"
    MaxHooks = 1
SPECIFICATION Spec
INVARIANTS
    TypeOK
    IndexInvariant
    ExecutableEndpointsInvariant
PROPERTIES
    EdgeFindingsFollow
    ContentIsStable
