----------------------------- MODULE MCBulkPages -----------------------------
(* The instance of BulkPages: a job whose artifacts and result come while    *)
(* its rows are read, limits below one and above the cap.                    *)
EXTENDS BulkPages, MCFoundryJobs

BothArtifacts == {Genuine(j1, "d1"), Genuine(j1, "d2")}
OneProject == <<"p">>
MCLimits == {-1, 3}
=============================================================================
