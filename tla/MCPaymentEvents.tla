--------------------------- MODULE MCPaymentEvents ---------------------------
\* PaymentEvents with interchangeable workers
EXTENDS PaymentEvents, TLC

WorkerSymmetry == Permutations(Workers)

=============================================================================
