-------------------------- MODULE MCPromptDelivery --------------------------
EXTENDS PromptDelivery, TLC

CONSTANTS web, chat, yes, no

TwoSurfaces == {web, chat}
TwoAnswers == {yes, no}
AllTerminals == {"none", "tty", "pipe"}
=============================================================================
