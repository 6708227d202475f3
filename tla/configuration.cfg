SPECIFICATION Spec
CONSTANTS
    Files <- TreeFiles
    Main = "root"
    MainFile = "root.togomak"
    Sources <- TreeSources
    Contents <- TreeContents
    MaxDepth = 3
INVARIANTS
    ReadsAllOrRefuses
