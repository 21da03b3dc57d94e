\* The session's parts, one at a time.  Two calls of each of four kinds of pi, two parts
\* of output, three versions of the file.
SPECIFICATION SessionSpec
CONSTANTS
    a = a
    b = b
    Ids <- TwoCalls
    NoId = NoId
    Ways <- ToolWays
    Chars <- OneChar
    MaxOut = 2
    MaxEvents = 3
    MaxWrites = 3
    Absent = Absent
    Parts <- AllParts
    Requests <- ThreeRequests
    Method <- OfMethod
    Options <- WithOptions
    Timed <- OneTimed
    Room = 1
    ReplyRoom = 1
    Sayings = 1
    Prompts <- TwoPrompts
    Names <- ThreeNames
    Careful = TRUE
    Calm = TRUE
    Lives = 3
    Protocols <- BothProtocols
    Begins <- AnyBegin
    Size = 4
    Loads = 2
    Glyphs <- ThreeChars
    Letters <- OneLetter
    MaxLine = 5
    MaxBody = 2
    Empties = FALSE
    Zeros = FALSE
    Alphabet <- SomeAlphabet
    Provider <- OneProvider
    Marks <- AllPieces
    MaxPieces = 3
    MaxId = 3
INVARIANTS
    MapsAgree
    ClientsSeeTheCall
    TerminalIsOutput
    DialogsAreHonest
    TitleAgrees
    TranscriptIsHistory
    TextIsMeant
    PatternMeansIt
\* pi may have nothing left to do, and the bounds are reached.
CHECK_DEADLOCK FALSE
