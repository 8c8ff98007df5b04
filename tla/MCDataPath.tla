----------------------------- MODULE MCDataPath -----------------------------
EXTENDS DataPath

Sizes == <<2, 1>>
(* NR mode with compression, and neither *)
Sound == {<<TRUE, TRUE>>, <<FALSE, FALSE>>}
(* Compression without NR mode *)
PlainGZ == {<<FALSE, TRUE>>}
=============================================================================
