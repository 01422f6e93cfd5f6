SPECIFICATION Spec
CONSTANTS
    Space = 0
    Unknown = 99
    Fold <- MCFold
    NoCalibration = NoCalibration
    NoAnswer = NoAnswer
    Texts <- MCTexts
    Screens <- MCScreens
    Lessons <- MCLessons
    Font <- MCFont
    FontCell <- MCFontCell
    Hints <- MCHints
    Tolerance = 2
INVARIANTS
    TypeOK
    MatchIsEvidence
    OnlyTheMessage
    SeenWhereverItMoves
    VerifiedMeansSameShape
