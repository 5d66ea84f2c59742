--------------------------- MODULE MCReportLoops ----------------------------
(* Every report of up to three findings, of the five statuses and about a  *)
(* second resource, against every baseline of up to two findings, of which *)
(* one was marked by an earlier comparison.                                *)
EXTENDS ReportLoops

CONSTANTS a, x, y     \* a check and two resources

F(s, r, k) == [check |-> a, status |-> s, resource |-> [name |-> r, tags |-> k]]

UpTo(S, n) == UNION {[1..m -> S] : m \in 0..n}

MCReports == UpTo({F(s, x, 0) : s \in Status} \cup {F("CRIT", y, 0)}, 3)
MCBaselines == UpTo({F("OK", x, 0), F("CRIT", x, 0), F("CRIT", y, 1)}, 2)
=============================================================================
