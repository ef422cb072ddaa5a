---------------------------- MODULE MCBoardMove ----------------------------
(* Two stories, one with two use cases, and two versions of items.json in  *)
(* two chunks, the second of which differs.                                *)
EXTENDS BoardMove
CONSTANTS s1, s2, c1, c2, p0, p1, p2
MCStories == {s1, s2}
MCCases == {c1, c2}
MCStoryOf == c1 :> s1 @@ c2 :> s1
MCCarries == p0 :> {s1, c1} @@ p1 :> {c2} @@ p2 :> {s2}
MCBlobs == {<<p0, p1>>, <<p0, p2>>}
=============================================================================
