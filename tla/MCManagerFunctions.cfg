CONSTANTS
    Nodes <- MCNodes2
    ForeignNodes = {}
    Models <- MCModels2
    NodeOf <- MCNodeOf
    RefOf <- MCRefOf
    FieldsOf <- MCFieldsOf
    ReferencesOf <- MCReferencesOf
    EdgeIds <- MCEdgeIds2
    Funcs = {"idF", "idG"}
    Hooks = {"h"}
    Instances = {"a", "b"}
    Callables = {"f", "f2", "g"}
    IdentityOf <- MCIdentityOf
    Usages <- Registering
    MaxHooks = 0
SPECIFICATION Spec
INVARIANT InstancesIndependent
