--------------------------- MODULE MCHostResolver ---------------------------
\* The constants are model values and small sets, given in the configuration.
EXTENDS HostResolver
=============================================================================
