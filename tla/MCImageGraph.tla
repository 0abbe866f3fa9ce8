---------------------------- MODULE MCImageGraph ----------------------------
EXTENDS ImageGraph

CONSTANTS A, B, C

MCImages == {A, B, C}

=============================================================================
