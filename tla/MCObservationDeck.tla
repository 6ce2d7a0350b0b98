-------------------------- MODULE MCObservationDeck --------------------------
\* Three actions, two of them with the same timestamp.
EXTENDS ObservationDeck

Stamps == <<1, 2, 2>>

=============================================================================
