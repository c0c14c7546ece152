-------------------------- MODULE MCScratchUpdate --------------------------
(***************************************************************************)
(* One project with two managed files and one file of the application.  The *)
(* Makefile changes with every release and with lib_replace, the linter's   *)
(* configuration with the last release only.                                *)
(***************************************************************************)
EXTENDS ScratchUpdate

CONSTANTS Makefile, Linter, Main

MCManaged == {Makefile, Linter}
MCApp == {Main}
MCVersions == 0 .. 2

MCRendered(f, p, v) ==
  CASE p = "lost" -> "t0"
    [] p # "lost" /\ f = Main -> "t1"
    [] p # "lost" /\ f = Linter -> IF v = 2 THEN "t3" ELSE "t1"
    [] p = "plain" /\ f = Makefile -> <<"t1", "t2", "t3">>[v + 1]
    [] p = "local" /\ f = Makefile -> <<"t1", "t4", "t4">>[v + 1]

MCTemplate == [f \in MCManaged \cup MCApp |->
                 [p \in Params |-> [v \in Versions |-> MCRendered(f, p, v)]]]
MCContents == {"t0", "t1", "t2", "t3", "t4", "torn", "hand"}
MCHandMade == {"hand"}
=============================================================================
