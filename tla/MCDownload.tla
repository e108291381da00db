--------------------------- MODULE MCDownload ---------------------------
\* Two contents a range may have.
EXTENDS Download

TwoValues == 1..2

=============================================================================
