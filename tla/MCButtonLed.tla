---------------------------- MODULE MCButtonLed -----------------------------
\* The board with the demos of the three configurations.
EXTENDS ButtonLed
=============================================================================
