--------------------------- MODULE MCHandleBuff ---------------------------
(* HandleBuff with the empty string and two of one length, which with the   *)
(* NUL does not fit in one byte of three values; one of them is a word.     *)
EXTENDS HandleBuff

MCStrings == {<<>>, <<1, 2>>, <<2, 1>>}
MCWords == {<<2, 1>>}
===========================================================================
