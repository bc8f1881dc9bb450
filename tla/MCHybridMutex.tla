--------------------------- MODULE MCHybridMutex ---------------------------
EXTENDS HybridMutex, TLC

CONSTANTS t1, t2, t3

\* A writer that a fatal signal may interrupt, and two tasks that lock, read
\* and try.
MCCalls == t1 :> {"lock"} @@ t2 :> {"lock", "read"}
                          @@ t3 :> {"lock", "try", "read", "tryread"}
=============================================================================
