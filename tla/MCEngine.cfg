CONSTANTS
    Nodes <- MCNodes
    ForeignNodes <- MCForeignNodes
    Models <- MCModels
    NodeOf <- MCNodeOf
    RefOf <- MCRefOf
    FieldsOf <- MCFieldsOf
    ReferencesOf <- MCReferencesOf
    EdgeIds <- MCEdgeIds
    Funcs = {"f", "g"}
    Hooks = {"h"}
    OnMissing = "reconstruct_model"
    MaxHooks = 2
SPECIFICATION Spec
INVARIANTS
    EdgesBindModelsInvariant
    ReferencesInvariant
    HooksInvariant
PROPERTY ImplementsCatalog
