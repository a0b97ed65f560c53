\* Rows: three edits, recorded or not, of a document of two articles with a section and two
\* texts, where an article and a text may be added.  Words: all pairs of wordings of up to
\* four words out of three; wordings that differ in three words each, or in two and four,
\* are compared coarsely.
CONSTANTS
    a1 = a1
    a2 = a2
    a3 = a3
    s1 = s1
    t1 = t1
    t2 = t2
    t3 = t3
    w1 = w1
    w2 = w2
    Missing = Missing
    Root = Root
    Article = {a1, a2, a3}
    Section = {s1}
    Text = {t1, t2, t3}
    Word = {w1, w2}
    Original <- MCOriginal
    MaxEdits = 3
    x = x
    y = y
    z = z
    Token = {x, y, z}
    MaxLength = 4
    MAX_DIFF_CELLS = 12
SYMMETRY WordSymmetry
SPECIFICATION MCSpec
CHECK_DEADLOCK FALSE
INVARIANTS
    ChangesAreShown
    OnlyChangesAreShown
    BothTextsArePreserved
    DiffIsMinimal
