----------------------------- MODULE MCPayments -----------------------------
EXTENDS Payments
CONSTANTS one, two
=============================================================================
