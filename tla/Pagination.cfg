\* Messages of 9 units of text, notice of 3, at most 3 of them, page numbers to base 3.
CONSTANTS
    Reports <- SmallReports
    Limit = 16
    TitleLen = 1
    SuffixLen = 2
    NoticeLen = 3
    MaxPages = 3
    Radix = 3
SPECIFICATION Spec
INVARIANTS
    EveryMessageFits
    NothingLostSilently
    LinesKeepTheirHeader
    BlocksStayWhole
    PagesAreFilled
