\* FlatIndex and Stores take their constants from here; the bounds of the others are
\* with their instances.  Files of no length and of no whole number of pages; two
\* ticks to a second and to the cache's time to live; a number with two spellings and
\* a value that is no number; contents of one, two and no terms; the fusion's weights
\* are the configured defaults.
CONSTANTS
    Ids = {1, 2, 3}
    Vectors = {10, 20}
    Zero = 10
    None = None
    MaxSize = 3
    c1 = c1  c2 = c2
    k = k  a = a  b = b
    Objects = {c1, c2}  Paths = {a, b}  Addresses = {1, 2}  Lengths = {0, 3}
    Callers = {c1, c2}  Keys = {k}  Settings = {a}
    Ttl = 2  Second = 2  MaxTime = 3
    FilterIds = {1, 2}  Fields = {"date"}  NumericFields = {"date"}  Values = {"7", "7.0", "gold"}
    Number <- MCNumber
    TextIds = {1, 2}  Texts = {"fox", "foxfoxcat", "cat", "slash", "newline"}
    Terms = {"fox", "cat", "nb"}  HowOften <- MCWords  Reread <- MCReread
    CutShort <- MCCutShort
    Vocabulary <- MCWordForms  Lower <- MCLower  Stem <- MCStem  Skipped = {"the"}
    Sentences <- MCSpoken  Corpora <- MCCorpora  Dictionaries <- MCDictionaries  max_expansions = 2
    Documents = {1, 2, 3}  VectorScores <- MCVectorScores  LexicalScores = {1, 2}  MaxResults = 2
    RrfK = 60  VectorWeight = 7  LexicalWeight = 3
    MaxFileSize = 2  MaxBackups = 2  MaxLines = 7
    MaxSpans = 3  MaxTold = 3  Collections = {a, b}  MaxDocument = 4
    Wrappers = {1}  Readers = {2}  MaxOpen = 3  MaxId = 3
    Spots = {1}  Lexicon = {"w", "v"}  Untaken = 0  Sizes = {2}  MaxCreated = 2  MaxRecords = 2
    Handles = {1}  Items = {1, 2}  Payloads = {"x", ""}  Termless = ""  Rooms = {1, 2}  MaxBelow = 1
SPECIFICATION MCSpec
INVARIANTS PlacesAreLast NoIdTwice StoresHold IndexesMirror  LastLinesKept AnswersAreRight
PROPERTY StepsKeepTheirWord
CHECK_DEADLOCK FALSE
