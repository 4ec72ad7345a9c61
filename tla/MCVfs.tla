------------------------------- MODULE MCVfs ---------------------------------
(* The instance of Vfs for TLC.  Root inodes are 1 and 8. *)
EXTENDS Vfs

MCNameHash == [a |-> 3, d |-> 6] @@ ("/" :> 1) @@ ("" :> 0) @@ ("." :> 2) @@ (".." :> 4)
MCPaths == {<<>>, <<"a">>, <<"d", "a">>, <<"d", ".", "a", "..">>}
MCNewPaths == {<<"a">>, <<"d", "a">>}
MCTargets == {<<"d">>, <<"d", "a">>}
MCInoSb == (1 :> "root") @@ (2 :> "root") @@ (3 :> "root") @@ (8 :> "other") @@ (9 :> "other")
MCRootIno == [root |-> 1, other |-> 8]
MCDisk == {<<1, "d", 2>>, <<2, "a", 3>>, <<8, "a", 9>>}
==============================================================================
