------------------------------ MODULE MCEvoVM --------------------------------
(* Small programs for TLC. *)
EXTENDS EvoVM

CONSTANTS A, B

I(op)        == [op |-> op, to |-> {}, id |-> A]
To(op, t)    == [op |-> op, to |-> t, id |-> A]
On(op, lock) == [op |-> op, to |-> {}, id |-> lock]

(* Two locks, the first taken twice; a pause while both are held. *)
Twice == <<On("lock", A), On("lock", B), I("pause"), On("unlock", A),
           To("branch", {0, 1, 9})>>

(* Unlocks what it may never have taken. *)
Other == <<On("unlock", A), On("lock", B), I("wait"), I("halt")>>

(* Waits and pushes in a loop, more than the stack holds. *)
Pushing == <<I("wait"), To("push", {3, 5}), To("branch", {0}), I("pop"), I("ret")>>

(* All the ways to stop. *)
Stops == <<I("bite"), To("branch", {3, 4, 5}), I("halt"), I("error"), I("trap"), I("plain")>>

(* A call by hand: at 1, to come back to 3 and end; the callee calls too.  *)
CallByHand == <<To("push", {3}), To("branch", {4}), I("halt"), I("halt"),
                To("push", {6}), To("branch", {7}), I("ret"), I("ret")>>

(* Moves SP to each end of the stack and past it, pushes there, returns. *)
Moving == <<To("move", {0, 1, 2, 3}), To("branch", {3}), To("push", {5}), I("pushsp"),
            To("branch", {7}), I("popsp"), To("push", {4}), I("ret")>>

Handmade == {Twice, Other, Pushing, Stops, CallByHand, Moving}
=============================================================================
