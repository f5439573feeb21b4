-------------------------- MODULE MCSubscriptions --------------------------
EXTENDS Subscriptions

=============================================================================
