--------------------------- MODULE MCAdminSessions ---------------------------
EXTENDS AdminSessions
CONSTANTS phone, board, desk, tablet, c1, c2
Owners == [c \in Changes |-> IF c = c1 THEN phone ELSE board]
=============================================================================
