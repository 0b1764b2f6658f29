---------------------------- MODULE MCCloneMerger ----------------------------
(* Nine stations; tracks in front, in the middle, behind, over the middle    *)
(* and one too long to be merged.                                            *)
EXTENDS CloneMerger, TLC

TrackShapes == {<<0, 1, 2>>, <<3, 4, 5>>, <<6, 8>>, <<2, 3, 6>>, <<0, 1, 2, 3, 4, 5, 6>>}
=============================================================================
