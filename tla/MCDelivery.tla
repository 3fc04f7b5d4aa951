----------------------------- MODULE MCDelivery -----------------------------
\* Delivery to three or four recipients, two per session.
EXTENDS Delivery
=============================================================================
