-------------------------------- MODULE MCOta -------------------------------
(* Two updates that share their first chunk, and a client that announces,   *)
(* correctly, contents that are no image.                                   *)
EXTENDS Ota

MCFactory == <<"head", "c">>
MCImages == {<<"head", "a">>, <<"head", "b">>, MCFactory}
MCAnnounced == {<<"head", "a">>, <<"head", "b">>, <<"head", "head">>}
MCChunks == {"head", "a", "b", "c"}
=============================================================================
