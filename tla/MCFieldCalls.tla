--------------------------- MODULE MCFieldCalls ----------------------------
EXTENDS FieldCalls
MCLeftovers == {0, 200}
=============================================================================
