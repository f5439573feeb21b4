SPECIFICATION MCSpec
CONSTANTS
    Files = {f1, f2}
    Requests = {r1, r2}
    People = {p1, p2}
    Creator = p1
    Comments = {c1}
    Texts = {t1, t2}
    FirstText = t1
    MaxVersion = 3
    Tags = {a1, a2}
    Labels = {l1}
    Stories = {s1}
    This = s1
    MaxTags = 1
    Nothing = Nothing
    Items = {i1, i2}
    Readers = {p1}
    Admins = {p2}
    LastTime = 1
    NoItem = NoItem
INVARIANTS
    AttachmentsHaveFiles
    UnreadIsShownAsCounted
    NewsAreConsistent
PROPERTIES
    TagsAreShownAsTheyAre
    TextsAreSeenBeforeTheyChange
    DeletedCommentsStayDeleted
    MarkedFilesGo
    CommentsAreNotified
CHECK_DEADLOCK FALSE
