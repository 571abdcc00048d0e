--------------------------- MODULE MCNotifications ---------------------------
EXTENDS Notifications, TLC
CONSTANTS u1, u2, p1, p2, c1, c2, d1, d2
=============================================================================
