CONSTANTS
    Nodes <- MCNodes3
    ForeignNodes = {}
    Models <- MCModels3
    NodeOf <- MCNodeOf
    RefOf <- MCRefOf
    FieldsOf <- MCFieldsOf
    ReferencesOf <- MCReferencesOf
    EdgeIds <- MCEdgeIds3
    Funcs = {"idF", "idG"}
    Hooks = {"h"}
    Instances = {"a"}
    Callables = {"f", "g"}
    IdentityOf <- MCIdentityOf
    Usages <- MCUsages
    MaxHooks = 1
SPECIFICATION Spec
INVARIANTS
    RegistriesSound
    BindingsJustified
    ClassRunsDescribedMigration
