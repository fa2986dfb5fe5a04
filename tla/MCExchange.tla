---------------------------- MODULE MCExchange ----------------------------
EXTENDS Exchange

\* No header, a line of one or of two addresses, two lines.
MCForwarded == {<<>>, <<<<"x">>>>, <<<<"x", "y">>>>, <<<<"x">>, <<"y">>>>}
=============================================================================
