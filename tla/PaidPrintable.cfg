SPECIFICATION CheckoutSpec
CONSTANTS
    Docs = {d1}
    SessionTtl = 3
    QuoteTtl = 2
    PaymentTimeout = 1
    MinWindow = 1
    MaxTime = 3
    MaxLost = 1
    MaxRevisions = 1
    MaxQuotes = 2
    MaxPayments = 2
CHECK_DEADLOCK FALSE
INVARIANT PaidIsPrintable
