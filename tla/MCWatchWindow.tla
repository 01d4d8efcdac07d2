--------------------------- MODULE MCWatchWindow ----------------------------
EXTENDS WatchWindow

MCSize(b) == 3

MCBursts ==
    { <<"p">>, <<"^c">>, <<"^r">>, <<"^d">>, <<"focus">>, <<"esc">>, <<"^x">>,
      <<"focus", "c", "enter">>, <<"p", "bs", "c", "enter">>, <<"p", "newline", "cbs", "enter">>,
      <<"c", "enter">>, <<"all", "c", "enter">>, <<"^x", "enter", "^d", "c">> }
=============================================================================
