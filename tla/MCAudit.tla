------------------------------ MODULE MCAudit -------------------------------
(***************************************************************************)
(* A small book with its histories: a payout through each resolution,      *)
(* transfers on both sides of a Nairobi midnight, a new account and a      *)
(* change of control.                                                      *)
(***************************************************************************)
EXTENDS MCLedger, Audit

AuditTransfers ==
  {Transfer("s1", Spend("p2", A, B, 2, "fee1", 1)),
   Transfer("s2", Spend("p1", A, C, 3, "free", 1))}
AuditReserves ==
  {ReserveFor("r1", Spend("p1", A, B, 4, "fee1", 1), "h1", "t1", 7),
   ReserveFor("r2", Spend("p3", A, B, 1, "free", 1), "h2", "t2", 8)}
AuditExposes == {Expose("x1", H1(1))}
AuditReleases ==
  {Release("l1", H1(2), "FINAL_FAILURE", Proof("e2", H1(2), 4, "FINAL_FAILURE", TRUE)),
   Release("l2", H1(1), "CANCEL", NoEvidence)}
AuditCreates == {Create("n1", C, OwnerB)}
AuditControls == {SetControl("k1", <<"SUBJECT", OwnerA>>, 1, FALSE, 5, TRUE)}
AuditOps == {"fixture", "s1", "s2", "r1", "r2", "x1", "c1", "l1", "l2", "n1", "k1"}

\* A smaller book for every way to damage its snapshot.  One transfer is sent under
\* two operation ids: both may be refused, with one request hash.
TamperTransfers ==
  {Transfer("s1", Spend("p2", A, B, 2, "fee1", 1)),
   Transfer("s2", Spend("p2", A, B, 2, "fee1", 1))}
TamperReserves == {ReserveFor("r1", Spend("p1", A, B, 4, "fee1", 1), "h1", "t1", 7)}
TamperReleases ==
  {Release("l1", H1(2), "FINAL_FAILURE", Proof("e2", H1(2), 4, "FINAL_FAILURE", TRUE))}
TamperOps == {"fixture", "s1", "s2", "r1", "x1", "c1", "l1", "k1"}
=============================================================================
