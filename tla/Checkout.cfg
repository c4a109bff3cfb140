SPECIFICATION CheckoutSpec
CONSTANTS
    Docs = {d1, d2}
    SessionTtl = 2
    QuoteTtl = 2
    PaymentTimeout = 1
    MinWindow = 1
    MaxTime = 2
    MaxLost = 1
    MaxRevisions = 2
    MaxQuotes = 2
    MaxPayments = 2
INVARIANTS
    CheckoutTypeOK
    PriceFollowsSettings
    MoneyIsAccounted
PROPERTIES
    SessionEnds
CHECK_DEADLOCK FALSE
