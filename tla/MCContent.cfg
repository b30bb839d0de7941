SPECIFICATION ContentSpec
CONSTANTS
    g = g
    h = h
    r1 = r1
    r2 = r2
    p = p
    q = q
    i1 = i1
    Ids = {p, q}
    Groups = {g, h}
    EditorGroups = {g}
    Yaml <- InFile
    Boot <- Tables
    FormGroups = {{}, {g}}
    Bodies = {1}
    Reqs = {r1, r2}
    MaxRequests = 3
    ListFails = TRUE
    FileSpecs <- Samples
    Respelt <- Spellings
    NumberTexts <- Numbers
    FormGroupsOfEditor = {"mine"}
    MaxTyped = 1
    MaxPages = 3
    Processes = {r1, r2}
    Items = {i1, i2}
    MaxSeedEdits = 2
    BlockAdmins = {adm}
    NBlocks = 3
    Slots = {"top", "bottom"}
    MaxOps = 4
    PageAdmins = {adm}
    Texts = {i1}
    MaxPageEdits = 2
    MediaAdmins = {r1, r2}
    Readers = {rq}
    MaxName = 2
    LongNames <- Longs
    MaxImages = 2
    MaxMediaEdits = 2
    Void = none
SYMMETRY Symmetry
CHECK_DEADLOCK FALSE
INVARIANTS CatalogConsistent DigestsExplained
PROPERTIES EditsNotLost SpecsSurviveForm SeededOnce LandingFaithful RefsFollow
