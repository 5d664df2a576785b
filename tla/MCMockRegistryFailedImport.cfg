SPECIFICATION Spec
CONSTANTS
    AdminPrefix = "__admin"
    Root = "root"
    Wildcard = "any"
    Paths <- MCPaths
    Urls <- MCUrls
    Methods = {"GET", "POST"}
    Mocks <- AllMocks
    Documents <- DeepDocuments
    MaxProgress = 1
VIEW MocksView
PROPERTY
    RejectedImportChangesNothing
