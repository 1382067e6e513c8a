\* A command that may fork one process.
CONSTANT Children = {p1}
SPECIFICATION FairSpec
PROPERTY TimeoutBounds
