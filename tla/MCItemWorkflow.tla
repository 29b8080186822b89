--------------------------- MODULE MCItemWorkflow ---------------------------
EXTENDS ItemWorkflow

=============================================================================
