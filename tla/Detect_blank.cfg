SPECIFICATION Spec
CONSTANTS
    Space = 0
    Unknown = 99
    Fold <- MCFold
    NoCalibration = NoCalibration
    NoAnswer = NoAnswer
    Texts <- MCShortText
    Screens <- MCBlankScreens
    Lessons <- MCBlankScreens
    Font <- MCFont
    FontCell <- MCFontCell
    Hints <- MCWrongHint
    Tolerance = 2
INVARIANT
    BlankIsNoMatch
