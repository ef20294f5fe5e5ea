SPECIFICATION StreamSpec
CONSTANTS
    Scripts <- AllScripts
    Sizes = {1, 2, 4}
    Limit = 1
    Pieces <- AllPieces
    Nothing = Nothing
INVARIANTS
    StreamTypeOK
    EntryRebuilds
CHECK_DEADLOCK FALSE
