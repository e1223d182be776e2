---------------------------- MODULE MCDraftSync ----------------------------
EXTENDS DraftSync

CONSTANTS d1, m1, o1
=============================================================================
