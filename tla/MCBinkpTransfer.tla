-------------------------- MODULE MCBinkpTransfer --------------------------
EXTENDS BinkpTransfer

CONSTANTS x, y, SizeX, SizeY

XY == {x, y}
(* How the configurations of a link may change between two sessions: at    *)
(* will, or not at all                                                     *)
AnyMode  == [m \in Modes |-> Modes]
SameMode == [m \in Modes |-> {m}]

(* What the receiver may be set to: a file that waits for ever is not      *)
(* delivered, so for the liveness properties it destroys x at most.        *)
TakeAll == [f \in Files |-> "take"]
TakeEverything == {TakeAll}
TakeOrDestroy  == {TakeAll, [TakeAll EXCEPT ![x] = "destroy"]}
TakeOrSkip     == {TakeAll, [f \in Files |-> IF f = x THEN "destroy" ELSE "keep"]}

SizeXY == [f \in Files |-> IF f = x THEN SizeX ELSE SizeY]
=============================================================================
