\* Three handlers of one event at once, ten attempts cut to three; handlers die and
\* Stripe need not send the event a second time
SPECIFICATION LiveSpec
CONSTANTS
    Workers = {w1, w2, w3}
    MaxAttempts = 3
    MayMismatch = TRUE
INVARIANTS AckedHandled
PROPERTIES EventSettles
