------------------------ MODULE MCNodeGroupController ------------------------
(***************************************************************************)
(* Small instances of NodeGroupController.                                 *)
(***************************************************************************)
EXTENDS NodeGroupController

East == {"east"}
West == {"west"}

EastWest == {East, West}
EastAny  == {East, {}}
EastOnly == {East}

=============================================================================
