---------------------------- MODULE MCConnection ----------------------------
(* Connection with a request that is long, one whose answer is long, a     *)
(* short one and test.                                                     *)
EXTENDS Connection

MCRequestParts == [kind \in {"test", "size", "log", "max"} |->
                     IF kind = "log" THEN 2 ELSE 1]
MCAnswerParts == [kind \in {"test", "size", "log", "max"} |->
                    CASE kind = "test" -> 0 [] kind = "max" -> 2 [] OTHER -> 1]
=============================================================================
