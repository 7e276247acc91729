\* The ten parts: one product over three lists and three requests of people; one code of
\* sale over two readings; two codes, three contents and two extractions; screens of four
\* rows or blocks; two readings of two rows with a broken cell at most; one or two invoices
\* of one number and five documents; four messages over three readings, each alert retried
\* once and one handed over again; two users with two telephones; a day of five instants;
\* one person with two sessions and three passwords.
CONSTANTS
    Sides = {"prices", "sales", "lists", "screens", "staging", "files", "inbox", "recipients", "window", "access"}
    c1 = c1  c2 = c2  m1 = m1  m2 = m2  m3 = m3  m4 = m4  x1 = x1  x2 = x2  x4 = x4  p1 = p1
    Amounts = {0, 10, 12}
    Threshold = 10
    NoAmount = NoAmount
    MaxLists = 3
    MaxHand = 3
    Totals = {1, 2, 9}
    OutlierTotals = {9}
    UnreadableTotal = 0
    MaxBatches = 2
    MaxRows = 2
    MaxSales = 3
    MaxDecisions = 2
    Codes = {c1, c2}
    Lists <- Contents
    Extractions = {e1, e2}
    NoContent = NoContent
    MaxAnswers = 3
    ProductCodes = {c1, c2}
    SupplierNames = {s1, s2}
    CardTerms = {t1, t2}
    NoText = NoText
    MaxLines = 4
    MaxBlocks = 4
    Pages = {"invoices", "ledger", "orders", "sales", "history"}
    MaxBroken = 1
    MaxWritten = 2
    MaxTyped = 2
    Rows = {r1, r2}
    TaxIds = {p1}
    Files <- Documents
    Sums = {10, 12}
    NoSum = NoSum
    NoSupplier = NoSupplier
    NoFile = NoFile
    NoVisit = NoVisit
    MaxTries = 1
    MaxChanges = 1
    Messages = {m1, m2, m3, m4}
    ExternalId <- IdOf
    HasOwnId = {m1}
    Undated = {m1, m4}
    Urgent = {m2, m3}
    Telephones = {f1}
    MaxRetries = 1
    MaxReadings = 3
    MaxCopies = 1
    Users = {u1, u2}
    Phones = {f1, f2}
    Kinds = {"PAYMENT_CLAIM"}
    DefaultRoutes <- RoutedTo
    NoUser = NoUser
    NoRole = NoRole
    SlotsPerDay = 5
    NoHour = NoHour
    NotAnHour = NotAnHour
    People = {a1}
    MaxAttempts = 2
    MaxSessions = 2
    MaxPasswords = 3
    NoAccess = NoAccess
    NoLogin = NoLogin
SPECIFICATION PlatformSpec
INVARIANTS
    CorrectedPriceStands
    CurveEndsAtThePrice
    CountedOnce
    RevenueFollowsReadings
    AppliedExactlyOnce
    NoRowGoesUnanswered
    ReadAsWritten
    BrokenRowsAreAsked
    DocumentIsHeard
    TypedIsShownOrAsked
    UrgentIsToldOnceOrShown
    AlertsReachWhoHoldsTheRole
    LeavesWhenTheWindowOpens
    NoSessionOutlivesItsPassword
PROPERTIES
    QueueCatchesUp
\* The tables of the model are full: the system may stop.
CHECK_DEADLOCK FALSE
