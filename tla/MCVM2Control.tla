---------------------------- MODULE MCVM2Control -----------------------------
(* Small programs for TLC. *)
EXTENDS VM2Control

I(op)     == [op |-> op, to |-> {}]
To(op, t) == [op |-> op, to |-> t]

(* A call whose callee calls again, with a run-on RETURN after the halt.   *)
Nested == <<To("call", {2}), I("halt"), To("call", {4}), I("ret"), I("ret")>>

(* Unbounded recursion. *)
Recursive == <<To("call", {0}), I("ret")>>

(* A subroutine that recurses or returns, as its data say. *)
Countdown == <<To("call", {2}), I("halt"), To("branch", {4}),
               To("call", {2}), I("ret")>>

(* A RETURN with no call: link register, or halt. *)
Leaf == <<To("link", {0, 2}), I("ret"), I("plain"), I("ret")>>

(* An endless loop that pauses, and a division inside it. *)
Loop == <<I("pause"), I("divide"), To("branch", {0}), To("jump", {1, 3, 4}),
          I("undef")>>

(* Stops in the middle of a call, then is cut short. *)
Broken == <<To("call", {1}), I("pause"), I("ret"), I("illegal"), I("cut")>>

Handmade == {Nested, Recursive, Countdown, Leaf, Loop, Broken}

(* Every program of three instructions over a menu that includes calls to  *)
(* every address, a link write, loops, a pause and the ways to stop.       *)
Menu == {I("ret"), I("halt"), I("pause"), To("link", {2}), To("branch", {0}),
         To("call", {0}), To("call", {2})}

Short == [1..3 -> Menu]
=============================================================================
