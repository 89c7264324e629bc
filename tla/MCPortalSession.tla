--------------------------- MODULE MCPortalSession ---------------------------
EXTENDS PortalSession

(* One book *)
MCNames == {"Helena.epub"}
MCSafeName == [name \in MCNames |-> name]
MCFolders == {<<>>}

(* None, and one *)
MCPasswords == {NoPassword, "capitu"}
=============================================================================
