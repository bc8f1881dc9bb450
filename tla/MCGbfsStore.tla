---------------------------- MODULE MCGbfsStore ----------------------------
EXTENDS GbfsStoreProps

\* Every get and put succeeds.
NoDbErrors == {0}
=============================================================================
