----------------------------- MODULE MCOsdpLink -----------------------------
\* Commands that change the address, ask for an answer, or are acknowledged even when they
\* are refused, before and after others.
EXTENDS OsdpLink

MCPlainScripts ==
    {<<"LED", "COMSET">>, <<"COMSET", "TEXT">>, <<"TEXT", "LSTAT">>, <<"LSTAT", "LED">>}
MCSecureScripts == {<<"LSTAT", "MFG">>}

\* Two places in the chain of MACs differ as long as fewer than three replies in a row go unread.
MCNextMac(place) == (place + 1) % 3
\* As long as fewer than six do, with three retries.
MCNextMacLate(place) == (place + 1) % 6
==============================================================================
