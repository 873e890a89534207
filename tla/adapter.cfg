\* MechanicalParts, FeatureGeometry, CadTransactions, ContextTracker, SketchModel,
\* CadModel, PartDesign, ViewCapture and SessionFile, each by itself.
\* Bounded numbers of calls and changes: a behaviour stops at its bound.
CHECK_DEADLOCK FALSE
SPECIFICATION AdapterSpec
CONSTANTS
    Counts = {4, 6, 16}
    Bores = {2, 12}
    Outers = {12, 30, 50}
    Widths = {5, 12, 20}
    Elements = {5, 12}
    Clearances = {0, 1}
    Modules = {1, 2, 4}
    Heights = {20, 100}
    Radii = {10, 30, 60}
    Offsets <- MCOffsets
    Numbers = {1, 2, 7, 64, 65}
    Angles <- MCAngles
    Documents = {d1, d2}
    NoDocument = NoDocument
    MaxUndo = 3
    MaxChanges = 4
    Models = {"A", "B"}
    Items = {1, 2}
    Versions = {0, 1}
    MaxRecent = 1
    MaxMoves = 4
    PageSize = 1
    MaxElements = 4
    MaxSketchCalls = 2
    Names = {"a", "b", "c"}
    Asked = {"a", "b", "c"}
    NoName = "none"
    Folded <- MCFolded
    Sizes = {1, 2}
    Places = {1}
    MaxCalls = 5
    Bodies = {"p", "q"}
    NoBody = "none"
    MaxItems = 3
    FaceLists <- MCFaces
    EdgeLists <- MCEdges
    MaxShots = 2
    MaxCached = 2
    MaxFaults = 2
    MaxPictures = 4
    Sessions = {s1, s2, s3}
    NoSession = NoSession
    MaxMishaps = 2
INVARIANTS
    AcceptedPartsFit
    AcceptedFeaturesFit
    UndisturbedUndoIsExact
    CompletedInspectionSawOneState
    PagesAreTheDocument
    IndicesHoldUntilRenumbered
    ReportsTellTheSketch
    ConstructionHolds
    EveryFeatureShows
    ViewGivenBack
    UncrossedSessionKept
