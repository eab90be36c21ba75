---------------------------- MODULE MCCanvasDisplay ----------------------------
(* A raster and, clipped to it, a group of another one, both inked on a     *)
(* tile at the edge of the page.                                            *)
EXTENDS CanvasDisplay

MCTree == [kids |-> (0 :> <<1, 2>> @@ 2 :> <<3>>),
           hidden |-> {}, clear |-> {}, clipped |-> {2}, locked |-> {}]

MCArt == (<<1, 0>> :> -1) @@ (<<3, 0>> :> -2)

MCCommands ==
  {Command("AddWhiteBackground", Root), Command("Duplicate", 1), Command("Duplicate", 2),
   Command("Delete", 1), Command("SetVisibility", 3), Command("SetClipToBelow", 2),
   [Command("Reorder", 1) EXCEPT !.parent = 2, !.index = 2]}

MCLooks == {[tiles |-> {0}, minify |-> TRUE]}
=============================================================================
