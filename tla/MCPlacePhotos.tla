---------------------------- MODULE MCPlacePhotos ----------------------------
EXTENDS PlacePhotos, TLC

\* u1 and u2 are one upload, sent twice; everything is the first actor's.
MCAssetOf == [u \in Upload |-> IF u = "u3" THEN "b" ELSE "a"]
MCActorOf == [j \in Upload \cup Discard |-> "me"]
MCArriving == {{"u1", "u2", "d"}, {"u1", "u3"}}
==============================================================================
