------------------------------ MODULE MCDbLock ------------------------------
EXTENDS DbLock

CONSTANTS a, b

\* Locker 1 turns a read lock on a into a write lock while 2 reads it and 3
\* waits to write it; 2 and 3 take a and b in different orders.
MCWants == << {<<a, "READ">>, <<a, "WRITE">>},
              {<<a, "READ">>, <<b, "WRITE">>},
              {<<a, "WRITE">>, <<b, "WRITE">>} >>
=============================================================================
