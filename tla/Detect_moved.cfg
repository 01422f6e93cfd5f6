SPECIFICATION Spec
CONSTANTS
    Space = 0
    Unknown = 99
    Fold <- MCFold
    NoCalibration = NoCalibration
    NoAnswer = NoAnswer
    Texts <- MCOneText
    Screens <- MCScreens
    Lessons <- MCLessons
    Font <- MCFont
    FontCell <- MCFontCell
    Hints <- MCNoHint
    Tolerance = 2
INVARIANT
    SurvivesMovingALine
