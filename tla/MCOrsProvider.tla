--------------------------- MODULE MCOrsProvider ---------------------------
EXTENDS OrsProvider

\* A pause within the worker's timeout, and one beyond it.
MCRetryAfters == {5, 60}
=============================================================================
