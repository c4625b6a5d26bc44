---------------------------- MODULE MCLifecycle ----------------------------
EXTENDS Lifecycle

\* Stands in for 2^32: the counts never move further than ThreadCount + 1
\* from zero, so any modulus above that wraps them the same way.
MCRefModulus == 8

\* Stands in for 2^64: wide enough for the buffer sizes below, and a
\* negative buffer_size still wraps to a large value.
MCSizeModulus == 16

MCFailures == FailurePoints

Line(section, name, value) ==
  [section |-> section, name |-> name, value |-> value]

\* The contents ./tunnel.ini may have: two threads; one thread; no
\* thread_count and a negative buffer_size; two threads with a misspelt key
\* and a line without '='; and a file that cannot be opened.
TwoThreads ==
  [opened |-> TRUE,
   lines |-> <<Line("main", "thread_count", 2), Line("main", "buffer_size", 4)>>]
OneThread ==
  [opened |-> TRUE, lines |-> <<Line("main", "thread_count", 1)>>]
NoThreadCount ==
  [opened |-> TRUE,
   lines |-> <<Line("main", "buffer_size", -1),
               Line("main", "destination_port", 0)>>]
UnknownKey ==
  [opened |-> TRUE,
   lines |-> <<Line("main", "thread_count", 2), Line("main", "threads", 4),
               C!Malformed>>]
Unreadable == [opened |-> FALSE, lines |-> <<>>]

MCIniFiles == {TwoThreads, OneThread, NoThreadCount, UnknownKey, Unreadable}
=============================================================================
