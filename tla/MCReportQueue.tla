--------------------------- MODULE MCReportQueue ---------------------------
(* Two reports, so that one waits while the other is visited, one of them of a score that *)
(* is uploaded first; and three faults.                                                   *)
EXTENDS ReportQueueProperties

AllSites     == {neko, plain, ringtone, scoreshare}
RingtoneSite == {ringtone}

AllKinds  == Stage \cup {"push", "hset", "ping", "lost", "pop", "crash", "redisCrash"}
PageKinds == {"browse"}
=============================================================================
