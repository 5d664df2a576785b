SPECIFICATION Spec
CONSTANTS
    Unset = Unset
    Null = Null
    AllMethods = AllMethods
    AbsoluteUrls = {"http://upstream", "http://rule"}
    Given <- MCGiven
VIEW SavedView
INVARIANT StoredIsLegal
PROPERTY PatchSetsOnlyWhatWasPassed
PROPERTY ConfigureIsPatchOfDefault
