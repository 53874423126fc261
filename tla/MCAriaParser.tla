----------------------------- MODULE MCAriaParser -----------------------------
\* A page of two frames, whose snapshots have at most three lines each.  The
\* second has no name, so that the two bear one label.
EXTENDS AriaParser

MCFrames == <<"main", "main">>
=============================================================================
