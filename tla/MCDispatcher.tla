---------------------------- MODULE MCDispatcher ----------------------------
EXTENDS Dispatcher

MCRequests == {"r1", "r2", "r3"}
MCNamespaces == {"lynx", "other", "__UNKNOWN__"}
=============================================================================
