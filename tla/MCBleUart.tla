----------------------------- MODULE MCBleUart -----------------------------
(* A buffer of three bytes, a console that takes lines of up to two, a word *)
(* with its '\n' and the two chunks of a banner, the first of them full.    *)
EXTENDS BleUart

Messages == {<<Chr, NL>>}
BannerChunks == <<<<Chr, Chr, Chr>>, <<Chr, NL>>>>

=============================================================================
