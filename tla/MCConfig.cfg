\* Every setting in turn by text and by variable, every odd tool, from a file and embedded.
CONSTANTS
    Templates <- MCTemplates
    Texts <- MCTexts
    EnvValues <- MCEnvValues
    ShutdownValues = {"0s", "30s", "soon"}
    Paths <- MCPaths
    None = None
SPECIFICATION Spec
INVARIANTS
    TypeOK
    ServesWhatItRead
    GivenIsKept
    SchemasEncodable
    AsyncIsServed
