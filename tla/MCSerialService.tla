---- MODULE MCSerialService ----
EXTENDS SerialService

\* A number, an empty line and a line that only starts with a number: what follows
\* the number blocks the display as a line without one does
SomeLines ==
    {<<"d1", "d2", "nl">>, <<"nl">>,
     <<"d2", "x", "nl">>}
====
