------------------------------ MODULE MCSurface -----------------------------
EXTENDS Surface

MCSize(b) == CASE b = "long1" -> 3 [] b = "long2" -> 3 [] OTHER -> 0

MCEdits ==
    {<<k>> : k \in {"sp", "bs", "cbs", "all", "clear", "long1", "long2", "/runs", "m2"}}

MCBursts ==
    {<<k>> : k \in {"y", "n", "o", "enter", "copy", "click"}}
    \cup {<<"y", "y">>, <<"y", "enter">>}
=============================================================================
