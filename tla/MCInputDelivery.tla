-------------------------- MODULE MCInputDelivery --------------------------
EXTENDS InputDelivery

CONSTANTS x, y

\* One request, which may be answered in two ways.
MCInput == {<<x>>, <<y>>}
=============================================================================
