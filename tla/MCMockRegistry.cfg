SPECIFICATION Spec
CONSTANTS
    AdminPrefix = "__admin"
    Root = "root"
    Wildcard = "any"
    Paths <- MCPaths
    Urls <- MCUrls
    Methods = {"GET", "POST"}
    Mocks <- AllMocks
    Documents <- MCDocuments
    MaxProgress = 2
VIEW MocksView
INVARIANTS
    TypeOK
    RegistriesAgree
PROPERTIES
    ImportRestores
    KeepsContract
