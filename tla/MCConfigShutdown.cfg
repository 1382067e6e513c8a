\* What becomes of the file's shutdown_timeout, 30s in the good template.
CONSTANTS
    Templates <- MCTemplates
    Texts <- MCTexts
    EnvValues <- MCEnvValues
    ShutdownValues = {"0s", "10s"}
    Paths <- MCPaths
    None = None
SPECIFICATION Spec
INVARIANT FileOverrides
