--------------------------- MODULE MCGbfsReaddir ---------------------------
EXTENDS GbfsReaddir

\* Any one of the first two pages may fail to be read in a call.
SomePageFaults == {{}, {0}, {1}}
=============================================================================
