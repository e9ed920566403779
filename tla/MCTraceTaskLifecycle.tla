------------------------ MODULE MCTraceTaskLifecycle ------------------------
EXTENDS TraceTaskLifecycle
=============================================================================
