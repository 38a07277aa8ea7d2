---------------------------- MODULE MCNotifications ----------------------------
\* Two requests, two connections, room for one: two broadcasts meet, on a list
\* that grows and shrinks under them.
EXTENDS Notifications

CONSTANTS r1, r2, s1, s2

MCReqs == {r1, r2}
MCSocks == {s1, s2}
MCAlertOn == {"DENY", "ESCALATE"}
MCMaxConns == 1
\* The other exits take some of the steps these take, in the same order, but for
\* one more broadcast where the quarantine spreads.
MCExits == {"triggered", "pending", "decided", "scan"}
===============================================================================
