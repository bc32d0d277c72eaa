---------------------------- MODULE MCAskThread ----------------------------
EXTENDS AskThread
=============================================================================
