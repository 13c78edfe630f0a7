-------------------------- MODULE VM2Control_proofs --------------------------
(* What TLAPS proves of VM2Control for every set of programs, every call   *)
(* limit and every set of budgets.                                         *)
EXTENDS VM2Control, SequenceTheorems, TLAPS

-----------------------------------------------------------------------------
(* The stack operations of ichingvm2.c on sequences of return addresses.   *)

LEMMA PopFacts ==
  ASSUME NEW s \in Seq(Nat), s # << >>
  PROVE  /\ LastOf(s) \in Nat
         /\ FrontOf(s) \in Seq(Nat)
         /\ Len(FrontOf(s)) = Len(s) - 1
         /\ \A i \in 1..(Len(s) - 1) : FrontOf(s)[i] = s[i]
<1>1. LastOf(s) \in Nat
  BY EmptySeq DEF LastOf
<1>2. FrontOf(s) \in Seq(Nat)
  BY EmptySeq DEF FrontOf
<1>3. Len(FrontOf(s)) = Len(s) - 1
  <2> DEFINE n == Len(s) - 1
  <2>1. n \in Int /\ n + 1 > 0 /\ \A i \in 1..n : s[i] \in Nat
    BY EmptySeq
  <2> HIDE DEF n
  <2>2. Len(SubSeq(s, 1, n)) = IF 1 <= n THEN n - 1 + 1 ELSE 0
    BY <2>1, SubSeqProperties
  <2>3. Len(SubSeq(s, 1, n)) = n
    BY <2>1, <2>2
  <2>4. QED  BY <2>3 DEF FrontOf, n
<1>4. \A i \in 1..(Len(s) - 1) : FrontOf(s)[i] = s[i]
  BY EmptySeq DEF FrontOf
<1>5. QED  BY <1>1, <1>2, <1>3, <1>4

(* A push or a pop above the inherited frames moves only the own ones.     *)
LEMMA PushAbove ==
  ASSUME NEW s \in Seq(Nat), NEW t \in Seq(Nat), NEW a \in Nat
  PROVE  Append(s \o t, a) = s \o Append(t, a)
<1>1. s \o t \in Seq(Nat) /\ <<a>> \in Seq(Nat)
  BY ConcatProperties
<1>2. Append(s \o t, a) = (s \o t) \o <<a>>
  BY <1>1, AppendIsConcat
<1>3. Append(t, a) = t \o <<a>>
  BY AppendIsConcat
<1>4. QED  BY <1>1, <1>2, <1>3, ConcatAssociative

LEMMA PopAbove ==
  ASSUME NEW s \in Seq(Nat), NEW t \in Seq(Nat), t # << >>
  PROVE  s \o t # << >> /\ FrontOf(s \o t) = s \o FrontOf(t)
<1> DEFINE n == Len(s)  m == Len(t)
<1>1. n \in Nat /\ m \in Nat /\ m > 0
  BY EmptySeq
<1>2. s \o t \in Seq(Nat) /\ Len(s \o t) = n + m
  BY ConcatProperties
<1>3. s \o t # << >>
  BY <1>1, <1>2
<1>4. FrontOf(t) \in Seq(Nat) /\ Len(FrontOf(t)) = m - 1
  BY PopFacts
<1>5. /\ FrontOf(s \o t) \in Seq(Nat)
      /\ Len(FrontOf(s \o t)) = n + m - 1
      /\ \A i \in 1..(n + m - 1) : FrontOf(s \o t)[i] = (s \o t)[i]
  <2> DEFINE u == s \o t
  <2>1. u \in Seq(Nat) /\ u # << >> /\ Len(u) = n + m
    BY <1>2, <1>3
  <2> HIDE DEF u
  <2>2. /\ FrontOf(u) \in Seq(Nat) /\ Len(FrontOf(u)) = Len(u) - 1
        /\ \A i \in 1..(Len(u) - 1) : FrontOf(u)[i] = u[i]
    BY <2>1, PopFacts
  <2>3. QED  BY <2>1, <2>2 DEF u
<1>6. s \o FrontOf(t) \in Seq(Nat) /\ Len(s \o FrontOf(t)) = n + (m - 1)
  BY <1>4, ConcatProperties
<1>7. ASSUME NEW i \in 1..(n + m - 1)
      PROVE  FrontOf(s \o t)[i] = (s \o FrontOf(t))[i]
  <2>1. FrontOf(s \o t)[i] = (s \o t)[i]
    BY <1>5
  <2>2. (s \o t)[i] = IF i <= n THEN s[i] ELSE t[i - n]
    BY <1>1, ConcatProperties
  <2>3. (s \o FrontOf(t))[i] = IF i <= n THEN s[i] ELSE FrontOf(t)[i - n]
    BY <1>1, <1>4, ConcatProperties
  <2>4. i > n => FrontOf(t)[i - n] = t[i - n]
    BY <1>1, PopFacts
  <2>5. QED  BY <1>1, <2>1, <2>2, <2>3, <2>4
<1>8. FrontOf(s \o t) = s \o FrontOf(t)
  BY <1>1, <1>5, <1>6, <1>7, SeqEqual
<1>9. QED  BY <1>3, <1>8

-----------------------------------------------------------------------------
(* The instruction at pc, when there is one. *)
LEMMA FetchedType ==
  ASSUME TypeOK, pc < Len(program)
  PROVE  Targets \subseteq Nat /\ program[pc + 1].op \in W!Ops
<1>1. program[pc + 1] \in W!Instr  BY DEF TypeOK
<1>2. QED  BY <1>1 DEF Targets, W!Instr

LEMMA StepType == TypeOK /\ Step => TypeOK'
<1> SUFFICES ASSUME TypeOK, Step PROVE TypeOK'
  OBVIOUS
<1> USE DEF States
<1>1. CASE RunOffEnd
  BY <1>1 DEF RunOffEnd, TypeOK, history
<1> DEFINE Fetched == MayStep /\ pc < Len(program)
<1>a. Fetched => Targets \subseteq Nat
  BY FetchedType
<1>2. CASE Plain
  BY <1>2 DEF Plain, Retire, SameFrames, TypeOK, history
<1>3. CASE Link
  BY <1>3, <1>a DEF Link, Fetch, Retire, SameFrames, TypeOK, history
<1>4. CASE Jump
  BY <1>4, <1>a DEF Jump, Fetch, Retire, SameFrames, TypeOK, history
<1>5. CASE Branch
  BY <1>5, <1>a DEF Branch, Fetch, Retire, SameFrames, TypeOK, history
<1>6. CASE Call
  <2>1. pc + 1 \in Nat /\ callStack \in Seq(Nat) /\ frames \in Seq(Nat)
    BY DEF TypeOK
  <2>2. /\ Append(callStack, pc + 1) \in Seq(Nat)
        /\ Len(Append(callStack, pc + 1)) = Len(callStack) + 1
        /\ Append(frames, pc + 1) \in Seq(Nat)
    BY <2>1, AppendProperties
  <2>3. Len(callStack) \in Nat /\ Len(callStack) <= MaxCalls
    BY <2>1 DEF TypeOK
  <2>4. callStack' \in Seq(Nat) /\ Len(callStack') <= MaxCalls
    <3>1. CASE Len(callStack) < MaxCalls
      <4>1. callStack' = Append(callStack, pc + 1)
        BY <1>6, <3>1 DEF Call
      <4>2. Len(callStack) + 1 <= MaxCalls
        BY <2>3, <3>1, MaxCallsAssumption
      <4>3. QED  BY <2>2, <4>1, <4>2
    <3>2. CASE ~(Len(callStack) < MaxCalls)
      BY <1>6, <2>1, <2>3, <3>2 DEF Call
    <3>3. QED  BY <3>1, <3>2
  <2>5. frames' \in Seq(Nat) /\ dropped' \in BOOLEAN
    BY <1>6, <2>2 DEF Call, TypeOK
  <2>6. pc' \in Nat /\ lr' \in Nat
    BY <1>6, <1>a, <2>1 DEF Call, Fetch
  <2>7. QED
    BY <1>6, <2>4, <2>5, <2>6 DEF Call, Retire, TypeOK
<1>b. ForgetFrame => /\ frames' \in Seq(Nat) /\ inherited' \in Seq(Nat)
                     /\ dropped' \in BOOLEAN
  BY PopFacts DEF ForgetFrame, TypeOK
<1>7. CASE ReturnPop
  <2>1. /\ callStack' \in Seq(Nat) /\ Len(callStack') = Len(callStack) - 1
        /\ pc' \in Nat
    BY <1>7, PopFacts DEF ReturnPop, TypeOK
  <2>2. Len(callStack) \in Nat /\ Len(callStack) <= MaxCalls
    BY DEF TypeOK
  <2>3. Len(callStack') <= MaxCalls
    BY <2>1, <2>2, MaxCallsAssumption
  <2>4. QED  BY <1>7, <1>b, <2>1, <2>3 DEF ReturnPop, Retire, TypeOK
<1>8. CASE ReturnLink
  BY <1>8, <1>b DEF ReturnLink, Retire, TypeOK
<1>9. CASE ReturnHalt
  BY <1>9, <1>b DEF ReturnHalt, Retire, TypeOK
<1>10. CASE HaltOp
  BY <1>10 DEF HaltOp, Retire, SameFrames, TypeOK, history
<1>11. CASE Pause
  BY <1>11 DEF Pause, Retire, SameFrames, TypeOK, history
<1>12. CASE Divide
  BY <1>12 DEF Divide, Retire, SameFrames, TypeOK, history
<1>13. CASE Undefined
  BY <1>13 DEF Undefined, Retire, SameFrames, TypeOK, history
<1>14. CASE Illegal
  BY <1>14 DEF Illegal, SameFrames, TypeOK, history
<1>15. CASE Truncated
  BY <1>15 DEF Truncated, Retire, SameFrames, TypeOK, history
<1>16. QED
  BY <1>1, <1>2, <1>3, <1>4, <1>5, <1>6, <1>7, <1>8, <1>9, <1>10, <1>11,
     <1>12, <1>13, <1>14, <1>15 DEF Step

LEMMA InitType == Init => TypeOK
<1>1. << >> \in Seq(Nat) /\ << >> \in Seq(W!Instr) /\ Len(<< >>) = 0
  BY EmptySeq
<1>2. Init => program \in Seq(W!Instr)
  BY <1>1 DEF Init
<1>3. Init => /\ callStack \in Seq(Nat) /\ frames \in Seq(Nat)
              /\ inherited \in Seq(Nat)
  BY <1>1 DEF Init
<1>4. Init => Len(callStack) <= MaxCalls
  BY <1>1, MaxCallsAssumption DEF Init
<1>5. Init => /\ pc \in Nat /\ lr \in Nat /\ cycles \in Nat /\ budget \in Nat
  BY DEF Init
<1>6. Init => state \in States
  BY DEF Init, States
<1>7. Init => inRun \in BOOLEAN /\ dropped \in BOOLEAN
  BY DEF Init
<1>8. QED  BY <1>2, <1>3, <1>4, <1>5, <1>6, <1>7 DEF TypeOK

LEMMA NextType == TypeOK /\ [Next]_vars => TypeOK'
<1> SUFFICES ASSUME TypeOK, [Next]_vars PROVE TypeOK'
  OBVIOUS
<1> USE DEF States
<1>1. CASE Reset
  <2>1. << >> \in Seq(Nat) /\ << >> \in Seq(W!Instr) /\ Len(<< >>) = 0
    BY EmptySeq
  <2>2. program' \in Seq(W!Instr)
    BY <1>1, <2>1 DEF Reset
  <2>3. /\ callStack' \in Seq(Nat) /\ frames' \in Seq(Nat)
        /\ inherited' \in Seq(Nat)
    BY <1>1, <2>1 DEF Reset
  <2>4. Len(callStack') <= MaxCalls
    BY <1>1, <2>1, MaxCallsAssumption DEF Reset
  <2>5. QED  BY <1>1, <2>2, <2>3, <2>4 DEF Reset, TypeOK
<1>2. ASSUME NEW p \in Programs, Load(p) PROVE TypeOK'
  BY <1>2, EmptySeq, ProgramsAssumption DEF Load, TypeOK
<1>2a. ASSUME NEW p \in Programs, Assemble(p) PROVE TypeOK'
  BY <1>2a, EmptySeq, ProgramsAssumption DEF Assemble, TypeOK
<1>3. ASSUME NEW b \in Budgets, RunBegin(b) PROVE TypeOK'
  BY <1>3, BudgetsAssumption DEF RunBegin, TypeOK, history
<1>4. CASE RunEnd
  BY <1>4 DEF RunEnd, TypeOK, machine, history
<1>5. CASE Step
  BY <1>5, StepType
<1>6. CASE UNCHANGED vars
  BY <1>6 DEF vars, machine, history, TypeOK
<1>7. QED
  BY <1>1, <1>2, <1>2a, <1>3, <1>4, <1>5, <1>6 DEF Next

(* Types, and the call stack never grows past its array, under any host.   *)
THEOREM TypeCorrect == Spec => []TypeOK
  BY InitType, NextType, PTL DEF Spec

-----------------------------------------------------------------------------
(* What embeds: a sequence in itself, the empty one in each; and pushes    *)
(* and pops keep it so, done to both, or a push to the larger one alone.   *)

LEMMA EmbedsSelf ==
  ASSUME NEW s \in Seq(Nat)
  PROVE  Embeds(s, s)
<1> DEFINE f == [k \in 1..Len(s) |-> k]
<1>1. f \in [1..Len(s) -> 1..Len(s)]
  OBVIOUS
<1>2. \A k, l \in 1..Len(s) : k < l => f[k] < f[l]
  OBVIOUS
<1>3. \A k \in 1..Len(s) : s[k] = s[f[k]]
  OBVIOUS
<1> HIDE DEF f
<1>4. QED  BY <1>1, <1>2, <1>3 DEF Embeds

LEMMA EmbedsEmpty ==
  ASSUME NEW t \in Seq(Nat)
  PROVE  Embeds(<< >>, t)
<1> DEFINE f == [k \in 1..Len(<< >>) |-> 1]
<1>1. Len(<< >>) = 0 /\ 1..0 = {}
  BY EmptySeq
<1>2. f \in [1..Len(<< >>) -> 1..Len(t)]
  BY <1>1
<1> HIDE DEF f
<1>3. QED  BY <1>1, <1>2 DEF Embeds

LEMMA EmbedsAbove ==
  ASSUME NEW s \in Seq(Nat), NEW t \in Seq(Nat), NEW a \in Nat, Embeds(s, t)
  PROVE  Embeds(s, Append(t, a)) /\ Embeds(Append(s, a), Append(t, a))
<1> DEFINE n == Len(s)  m == Len(t)  u == Append(s, a)  v == Append(t, a)
<1>1. PICK f \in [1..n -> 1..m] : /\ \A k, l \in 1..n : k < l => f[k] < f[l]
                                  /\ \A k \in 1..n : s[k] = t[f[k]]
  BY DEF Embeds
<1>2. n \in Nat /\ m \in Nat
  OBVIOUS
<1>3. /\ Len(v) = m + 1 /\ v[m + 1] = a
      /\ \A k \in 1..m : v[k] = t[k]
  BY AppendProperties
<1>4. /\ Len(u) = n + 1 /\ u[n + 1] = a
      /\ \A k \in 1..n : u[k] = s[k]
  BY AppendProperties
<1> HIDE DEF n, m, u, v
<1>5. Embeds(s, v)
  <2>1. f \in [1..n -> 1..Len(v)]
    BY <1>2, <1>3
  <2>2. \A k \in 1..n : s[k] = v[f[k]]
    BY <1>1, <1>2, <1>3
  <2>3. QED  BY <1>1, <2>1, <2>2 DEF Embeds, n
<1>6. Embeds(u, v)
  <2> DEFINE g == [k \in 1..(n + 1) |-> IF k <= n THEN f[k] ELSE m + 1]
  <2>1. \A k \in 1..n : f[k] \in 1..m /\ g[k] = f[k]
    BY <1>2
  <2>2. g[n + 1] = m + 1
    BY <1>2
  <2>3. g \in [1..(n + 1) -> 1..(m + 1)]
    BY <1>2, <2>1
  <2> HIDE DEF g
  <2>4. ASSUME NEW k \in 1..(n + 1), NEW l \in 1..(n + 1), k < l
        PROVE  g[k] < g[l]
    <3>1. k \in 1..n /\ (l \in 1..n \/ l = n + 1)
      BY <1>2, <2>4
    <3>2. CASE l \in 1..n
      BY <1>1, <2>1, <2>4, <3>1, <3>2
    <3>3. CASE l = n + 1
      BY <1>2, <2>1, <2>2, <3>1, <3>3
    <3>4. QED  BY <3>1, <3>2, <3>3
  <2>5. ASSUME NEW k \in 1..(n + 1)
        PROVE  u[k] = v[g[k]]
    <3>1. CASE k \in 1..n
      BY <1>1, <1>3, <1>4, <2>1, <3>1
    <3>2. CASE k = n + 1
      BY <1>3, <1>4, <2>2, <3>2
    <3>3. QED  BY <1>2, <3>1, <3>2
  <2>6. QED  BY <1>3, <1>4, <2>3, <2>4, <2>5 DEF Embeds
<1>7. QED  BY <1>5, <1>6 DEF u, v

LEMMA EmbedsFront ==
  ASSUME NEW s \in Seq(Nat), NEW t \in Seq(Nat), s # << >>, Embeds(s, t)
  PROVE  t # << >> /\ Embeds(FrontOf(s), FrontOf(t))
<1> DEFINE n == Len(s)  m == Len(t)  u == FrontOf(s)  v == FrontOf(t)
<1>1. PICK f \in [1..n -> 1..m] : /\ \A k, l \in 1..n : k < l => f[k] < f[l]
                                  /\ \A k \in 1..n : s[k] = t[f[k]]
  BY DEF Embeds
<1>2. n \in Nat /\ m \in Nat /\ n > 0
  BY EmptySeq
<1>3. Len(u) = n - 1 /\ \A k \in 1..(n - 1) : u[k] = s[k]
  BY PopFacts
<1>4. f[n] \in 1..m
  <2> HIDE DEF n, m
  <2>1. n \in 1..n
    BY <1>2
  <2>2. QED  BY <1>1, <2>1
<1>5. t # << >>
  BY <1>2, <1>4, EmptySeq
<1>6. Len(v) = m - 1 /\ \A k \in 1..(m - 1) : v[k] = t[k]
  BY <1>5, PopFacts
<1> HIDE DEF n, m, u, v
<1> DEFINE g == [k \in 1..(n - 1) |-> f[k]]
<1>7. \A k \in 1..(n - 1) : /\ k \in 1..n /\ f[k] < f[n] /\ f[k] \in 1..m
                             /\ g[k] = f[k] /\ f[k] \in 1..(m - 1)
  BY <1>1, <1>2, <1>4
<1>8. g \in [1..(n - 1) -> 1..(m - 1)]
  BY <1>7
<1> HIDE DEF g
<1>9. \A k, l \in 1..(n - 1) : k < l => g[k] < g[l]
  BY <1>1, <1>7
<1>10. \A k \in 1..(n - 1) : u[k] = v[g[k]]
  BY <1>1, <1>3, <1>6, <1>7
<1>11. Embeds(u, v)
  BY <1>3, <1>6, <1>8, <1>9, <1>10 DEF Embeds
<1>12. QED  BY <1>5, <1>11 DEF u, v

-----------------------------------------------------------------------------
(* CallsMatched is inductive as it stands, given the types. *)

LEMMA InitMatched == Init => CallsMatched
<1>1. << >> \in Seq(Nat)
  BY EmptySeq
<1>2. << >> \o << >> = << >>
  BY <1>1, ConcatEmptySeq
<1>3. QED  BY <1>1, <1>2, EmbedsEmpty DEF Init, CallsMatched

(* A RETURN takes the innermost open call of this program, or what is left *)
(* of earlier ones, off the calls it could end.                            *)
LEMMA ForgetsOne ==
  ASSUME TypeOK, ForgetFrame
  PROVE  /\ dropped' = dropped
         /\ inherited \o frames \in Seq(Nat)
         /\ inherited' \o frames' =
              IF inherited \o frames = << >> THEN << >> ELSE FrontOf(inherited \o frames)
<1>1. inherited \in Seq(Nat) /\ frames \in Seq(Nat)
  BY DEF TypeOK
<1>2. dropped' = dropped
  BY DEF ForgetFrame
<1>3. inherited \o frames \in Seq(Nat)
  BY <1>1, ConcatProperties
<1>4. CASE frames # << >>
  <2>1. inherited' = inherited /\ frames' = FrontOf(frames)
    BY <1>4 DEF ForgetFrame
  <2>2. inherited \o frames # << >> /\ FrontOf(inherited \o frames) = inherited \o FrontOf(frames)
    BY <1>1, <1>4, PopAbove
  <2>3. QED  BY <1>2, <1>3, <2>1, <2>2
<1>5. CASE frames = << >>
  <2>1. inherited \o << >> = inherited
    BY <1>1, ConcatEmptySeq
  <2>2. /\ frames' = << >>
        /\ inherited' = IF inherited = << >> THEN << >> ELSE FrontOf(inherited)
    BY <1>5 DEF ForgetFrame
  <2>3. inherited' \in Seq(Nat)
    BY <1>1, <2>2, PopFacts, EmptySeq
  <2>4. inherited' \o << >> = inherited'
    BY <2>3, ConcatEmptySeq
  <2>5. QED  BY <1>2, <1>3, <1>5, <2>1, <2>2, <2>4
<1>6. QED  BY <1>4, <1>5

LEMMA StepMatched == TypeOK /\ CallsMatched /\ Step => CallsMatched'
<1> SUFFICES ASSUME TypeOK, CallsMatched, Step PROVE CallsMatched'
  OBVIOUS
<1>0. /\ callStack \in Seq(Nat) /\ inherited \in Seq(Nat) /\ frames \in Seq(Nat)
      /\ pc + 1 \in Nat
  BY DEF TypeOK
<1>1. CASE SameFrames
  BY <1>1 DEF SameFrames, history, CallsMatched
<1>2. CASE Call
  <2>1. /\ frames' = Append(frames, pc + 1) /\ inherited' = inherited
        /\ Append(inherited \o frames, pc + 1) = inherited \o Append(frames, pc + 1)
        /\ inherited \o frames \in Seq(Nat)
    BY <1>0, <1>2, PushAbove, ConcatProperties DEF Call
  <2>2. /\ Embeds(callStack, inherited' \o frames')
        /\ Embeds(Append(callStack, pc + 1), inherited' \o frames')
    BY <1>0, <2>1, EmbedsAbove DEF CallsMatched
  <2>3. CASE Len(callStack) < MaxCalls
    <3>1. callStack' = Append(callStack, pc + 1) /\ dropped' = dropped
      BY <1>2, <2>3 DEF Call
    <3>2. QED  BY <2>1, <2>2, <3>1 DEF CallsMatched
  <2>4. CASE ~(Len(callStack) < MaxCalls)
    <3>1. callStack' = callStack /\ dropped'
      BY <1>2, <2>4 DEF Call
    <3>2. QED  BY <2>2, <3>1 DEF CallsMatched
  <2>5. QED  BY <2>3, <2>4
<1>3. CASE ReturnPop
  <2>1. callStack # << >> /\ callStack' = FrontOf(callStack) /\ ForgetFrame
    BY <1>3 DEF ReturnPop
  <2>2. /\ inherited \o frames # << >>
        /\ Embeds(FrontOf(callStack), FrontOf(inherited \o frames))
    BY <1>0, <2>1, ForgetsOne, EmbedsFront DEF CallsMatched
  <2>3. inherited' \o frames' = FrontOf(inherited \o frames) /\ dropped' = dropped
    BY <2>1, <2>2, ForgetsOne
  <2>4. QED  BY <2>1, <2>2, <2>3 DEF CallsMatched
<1>4. CASE ReturnLink \/ ReturnHalt
  <2>1. callStack = << >> /\ callStack' = << >> /\ ForgetFrame
    BY <1>4 DEF ReturnLink, ReturnHalt
  <2>2. inherited' \o frames' \in Seq(Nat)
    BY <2>1, ForgetsOne, PopFacts, EmptySeq
  <2>3. Embeds(<< >>, inherited' \o frames')
    BY <2>2, EmbedsEmpty
  <2>4. ~dropped' => inherited' \o frames' = << >>
    BY <2>1, ForgetsOne DEF CallsMatched
  <2>5. QED  BY <2>1, <2>3, <2>4 DEF CallsMatched
<1>5. CASE RunOffEnd
  BY <1>5 DEF RunOffEnd, history, CallsMatched
<1>6. QED
  BY <1>1, <1>2, <1>3, <1>4, <1>5
  DEF Step, Plain, Link, Jump, Branch, HaltOp, Pause, Divide, Undefined,
      Illegal, Truncated

(* A load leaves the whole stack to be inherited. *)
LEMMA InheritsAll ==
  ASSUME TypeOK, callStack' = callStack, inherited' = callStack, frames' = << >>
  PROVE  CallsMatched'
<1>1. callStack \in Seq(Nat)
  BY DEF TypeOK
<1>2. callStack \o << >> = callStack /\ Embeds(callStack, callStack)
  BY <1>1, ConcatEmptySeq, EmbedsSelf
<1>3. QED  BY <1>2 DEF CallsMatched

LEMMA NextMatched == TypeOK /\ CallsMatched /\ [Next]_vars => CallsMatched'
<1> SUFFICES ASSUME TypeOK, CallsMatched, [Next]_vars PROVE CallsMatched'
  OBVIOUS
<1>1. CASE Reset
  <2>1. << >> \o << >> = << >> /\ Embeds(<< >>, << >>)
    BY EmptySeq, ConcatEmptySeq, EmbedsEmpty
  <2>2. QED  BY <1>1, <2>1 DEF Reset, CallsMatched
<1>2. ASSUME NEW p \in Programs, Load(p) PROVE CallsMatched'
  BY <1>2, InheritsAll DEF Load
<1>2a. ASSUME NEW p \in Programs, Assemble(p) PROVE CallsMatched'
  BY <1>2a, InheritsAll DEF Assemble
<1>3. ASSUME NEW b \in Budgets, RunBegin(b) PROVE CallsMatched'
  BY <1>3 DEF RunBegin, history, CallsMatched
<1>4. CASE RunEnd \/ UNCHANGED vars
  BY <1>4 DEF RunEnd, vars, machine, history, CallsMatched
<1>5. CASE Step
  BY <1>5, StepMatched
<1>6. QED  BY <1>1, <1>2, <1>2a, <1>3, <1>4, <1>5 DEF Next

(* Under any host, for every call limit: as long as no call found the      *)
(* stack full, a RETURN ends the innermost open call of its own program;   *)
(* after that it still ends an open one.                                   *)
THEOREM CallsAreMatched == Spec => []CallsMatched
  BY InitType, NextType, InitMatched, NextMatched, PTL DEF Spec

-----------------------------------------------------------------------------
(* The refinement.  Under a careful host everything the machine may return *)
(* to belongs to the loaded program: Sites is the strengthening a RETURN   *)
(* step needs to be a step of the walk, with CallsMatched and the fact     *)
(* that nothing is inherited.                                              *)

Sites ==
  /\ \A i \in 1..Len(callStack) : callStack[i] \in W!ReturnSites(program)
  /\ lr \in {0} \cup W!ReturnSites(program) \cup W!LinkValues(program)

Heirless == inherited = << >>

LEMMA CarefulIsNext == CarefulNext => Next
  BY DEF CarefulNext, CarefulLoad, CarefulRun, Next

LEMMA InitSites == Init => Sites
<1>1. Len(<< >>) = 0
  BY EmptySeq
<1>2. QED  BY <1>1 DEF Init, Sites

LEMMA StepSites == TypeOK /\ Sites /\ Step => Sites'
<1> SUFFICES ASSUME TypeOK, Sites, Step PROVE Sites'
  OBVIOUS
<1>0. program' = program
  BY DEF Step, RunOffEnd, Plain, Link, Jump, Branch, Call, ReturnPop, ReturnLink,
         ReturnHalt, HaltOp, Pause, Divide, Undefined, Illegal, Truncated, Retire
<1>1. CASE callStack' = callStack /\ lr' = lr
  BY <1>0, <1>1 DEF Sites
<1>2. CASE Link
  <2>1. pc + 1 \in 1..Len(program) /\ program[pc + 1].op = "link"
    BY <1>2 DEF Link, Fetch, TypeOK
  <2>2. Targets \subseteq W!LinkValues(program)
    BY <2>1 DEF Targets, W!LinkValues
  <2>3. QED  BY <1>0, <1>2, <2>2 DEF Link, SameFrames, Sites
<1>3. CASE Call
  <2>1. pc + 1 \in W!ReturnSites(program)
    BY <1>3 DEF Call, Fetch, TypeOK, W!ReturnSites
  <2>2. CASE callStack' = callStack
    BY <1>0, <1>3, <2>1, <2>2 DEF Call, Sites
  <2>3. CASE callStack' = Append(callStack, pc + 1)
    <3>1. callStack \in Seq(Nat) /\ pc + 1 \in Nat /\ Len(callStack) \in Nat
      BY DEF TypeOK
    <3>2. /\ Len(callStack') = Len(callStack) + 1
          /\ \A i \in 1..Len(callStack) : callStack'[i] = callStack[i]
          /\ callStack'[Len(callStack) + 1] = pc + 1
      BY <2>3, <3>1, AppendProperties
    <3>3. ASSUME NEW i \in 1..Len(callStack')
          PROVE  callStack'[i] \in W!ReturnSites(program)
      BY <2>1, <3>1, <3>2 DEF Sites
    <3>4. QED  BY <1>0, <1>3, <2>1, <3>3 DEF Call, Sites
  <2>4. QED  BY <1>3, <2>2, <2>3 DEF Call
<1>4. CASE ReturnPop
  <2>1. callStack \in Seq(Nat) /\ callStack # << >> /\ Len(callStack) \in Nat
    BY <1>4 DEF ReturnPop, TypeOK
  <2>2. /\ Len(callStack') = Len(callStack) - 1
        /\ \A i \in 1..(Len(callStack) - 1) : callStack'[i] = callStack[i]
    BY <1>4, <2>1, PopFacts DEF ReturnPop
  <2>3. ASSUME NEW i \in 1..Len(callStack')
        PROVE  callStack'[i] \in W!ReturnSites(program)
    BY <2>1, <2>2 DEF Sites
  <2>4. QED  BY <1>0, <1>4, <2>3 DEF ReturnPop, Sites
<1>5. CASE ReturnLink
  BY <1>0, <1>5 DEF ReturnLink, Sites
<1>6. QED
  BY <1>1, <1>2, <1>3, <1>4, <1>5
  DEF Step, RunOffEnd, Plain, Jump, Branch, ReturnHalt, HaltOp, Pause, Divide,
      Undefined, Illegal, Truncated, SameFrames

LEMMA CarefulSites == TypeOK /\ Sites /\ [CarefulNext]_vars => Sites'
<1> SUFFICES ASSUME TypeOK, Sites, [CarefulNext]_vars PROVE Sites'
  OBVIOUS
<1>e. Len(<< >>) = 0
  BY EmptySeq
<1>1. CASE Reset
  BY <1>1, <1>e DEF Reset, Sites
<1>2. ASSUME NEW p \in Programs, CarefulLoad(p) PROVE Sites'
  <2>1. W!ReturnSites(program) = {} /\ W!LinkValues(program) = {}
    BY <1>2, <1>e DEF CarefulLoad, Fresh, W!ReturnSites, W!LinkValues
  <2>2. Len(callStack) = 0
    <3>1. 1 \notin 1..Len(callStack)
      BY <2>1 DEF Sites
    <3>2. Len(callStack) \in Nat
      BY DEF TypeOK
    <3>3. QED  BY <3>1, <3>2
  <2>3. lr = 0
    BY <2>1 DEF Sites
  <2>4. QED  BY <1>2, <2>2, <2>3 DEF CarefulLoad, Load, Sites
<1>3. ASSUME NEW b \in Budgets, CarefulRun(b) PROVE Sites'
  BY <1>3 DEF CarefulRun, RunBegin, Sites
<1>4. CASE RunEnd \/ UNCHANGED vars
  BY <1>4 DEF RunEnd, vars, machine, Sites
<1>5. CASE Step
  BY <1>5, StepSites
<1>6. QED  BY <1>1, <1>2, <1>3, <1>4, <1>5 DEF CarefulNext

LEMMA StepHeirless == Heirless /\ Step => Heirless'
  BY DEF Step, RunOffEnd, Plain, Link, Jump, Branch, Call, ReturnPop, ReturnLink,
         ReturnHalt, HaltOp, Pause, Divide, Undefined, Illegal, Truncated,
         SameFrames, ForgetFrame, history, Heirless

LEMMA CarefulHeirless ==
  ASSUME TypeOK, Sites, Heirless, [CarefulNext]_vars
  PROVE  Heirless'
<1>1. ASSUME NEW p \in Programs, CarefulLoad(p) PROVE Heirless'
  <2>1. W!ReturnSites(program) = {}
    BY <1>1, EmptySeq DEF CarefulLoad, Fresh, W!ReturnSites
  <2>2. Len(callStack) \in Nat /\ 1 \notin 1..Len(callStack)
    BY <2>1 DEF Sites, TypeOK
  <2>3. callStack = << >>
    BY <2>2, EmptySeq DEF TypeOK
  <2>4. QED  BY <1>1, <2>3 DEF CarefulLoad, Load, Heirless
<1>2. CASE Reset
  BY <1>2 DEF Reset, Heirless
<1>3. ASSUME NEW b \in Budgets, CarefulRun(b) PROVE Heirless'
  BY <1>3 DEF CarefulRun, RunBegin, history, Heirless
<1>4. CASE RunEnd \/ UNCHANGED vars
  BY <1>4 DEF RunEnd, vars, history, Heirless
<1>5. CASE Step
  BY <1>5, StepHeirless
<1>6. QED  BY <1>1, <1>2, <1>3, <1>4, <1>5 DEF CarefulNext

(* What a step of the machine looks like to the walk. *)
LEMMA StepWalks ==
  ASSUME TypeOK, Sites, Heirless, CallsMatched, Step
  PROVE  Walk!WalkNext
<1> USE DEF Status
<1>0. program' = program /\ state = "RUNNING"
  BY DEF Step, RunOffEnd, Plain, Link, Jump, Branch, Call, ReturnPop, ReturnLink,
         ReturnHalt, HaltOp, Pause, Divide, Undefined, Illegal, Truncated, Retire,
         Fetch, MayStep
<1>m. ~dropped => callStack = frames
  <2>1. << >> \o frames = frames
    BY ConcatEmptySeq DEF TypeOK
  <2>2. QED  BY <2>1 DEF CallsMatched, Heirless
<1>1. CASE RunOffEnd
  <2>1. Walk!Halt
    BY <1>0, <1>1 DEF RunOffEnd, history, Walk!Halt
  <2>2. QED  BY <2>1 DEF Walk!WalkNext
<1>2. CASE Plain \/ Link \/ Pause
  <2>1. /\ pc < Len(program) /\ pc' = pc + 1
        /\ program[pc + 1].op \in {"plain", "link", "pause"}
        /\ state' \in {"RUNNING", "PAUSED"}
        /\ frames' = frames /\ dropped' = dropped
    BY <1>0, <1>2 DEF Plain, Link, Pause, Fetch, SameFrames, history
  <2>2. pc' \in Walk!Successors(program, pc)
    BY <2>1 DEF Walk!Successors
  <2>3. Walk!Advance
    BY <1>0, <2>1, <2>2 DEF Walk!Advance, Walk!At
  <2>4. QED  BY <2>3 DEF Walk!WalkNext
<1>3. CASE Jump
  <2>1. /\ pc < Len(program) /\ pc' \in Targets /\ state' = "RUNNING"
        /\ program[pc + 1].op = "jump"
        /\ frames' = frames /\ dropped' = dropped
    BY <1>0, <1>3 DEF Jump, Fetch, SameFrames, history
  <2>2. pc' \in Walk!Successors(program, pc)
    BY <2>1 DEF Walk!Successors, Targets
  <2>3. Walk!Advance
    BY <1>0, <2>1, <2>2 DEF Walk!Advance, Walk!At
  <2>4. QED  BY <2>3 DEF Walk!WalkNext
<1>4. CASE Branch
  <2>1. /\ pc < Len(program) /\ pc' \in Targets \cup {pc + 1}
        /\ state' = "RUNNING" /\ program[pc + 1].op = "branch"
        /\ frames' = frames /\ dropped' = dropped
    BY <1>0, <1>4 DEF Branch, Fetch, SameFrames, history
  <2>2. pc' \in Walk!Successors(program, pc)
    BY <2>1 DEF Walk!Successors, Targets
  <2>3. Walk!Advance
    BY <1>0, <2>1, <2>2 DEF Walk!Advance, Walk!At
  <2>4. QED  BY <2>3 DEF Walk!WalkNext
<1>5. CASE Call
  <2>1. /\ pc < Len(program) /\ program[pc + 1].op = "call"
        /\ pc' \in program[pc + 1].to /\ state' = "RUNNING"
        /\ frames' = Append(frames, pc + 1)
    BY <1>0, <1>5 DEF Call, Fetch, Targets
  <2>2. dropped' = (dropped \/ Len(frames) >= MaxCalls)
    <3>1. Len(frames) \in Nat /\ dropped \in BOOLEAN
      BY DEF TypeOK
    <3>2. CASE dropped
      BY <1>5, <3>2 DEF Call, TypeOK
    <3>3. CASE ~dropped /\ Len(callStack) < MaxCalls
      <4>1. dropped' = dropped
        BY <1>5, <3>3 DEF Call
      <4>2. ~(Len(frames) >= MaxCalls)
        BY <1>m, <3>1, <3>3, MaxCallsAssumption
      <4>3. QED  BY <3>1, <3>3, <4>1, <4>2
    <3>4. CASE ~dropped /\ ~(Len(callStack) < MaxCalls)
      <4>1. dropped' = TRUE
        BY <1>5, <3>4 DEF Call
      <4>2. Len(frames) >= MaxCalls
        BY <1>m, <3>1, <3>4, MaxCallsAssumption
      <4>3. QED  BY <4>1, <4>2
    <3>5. QED  BY <3>2, <3>3, <3>4
  <2>3. Walk!EnterCall
    BY <1>0, <2>1, <2>2 DEF Walk!EnterCall, Walk!At
  <2>4. QED  BY <2>3 DEF Walk!WalkNext
<1>c. ForgetFrame => Walk!CloseCall /\ dropped' = dropped
  BY DEF ForgetFrame, Walk!CloseCall, FrontOf
<1>6. CASE ReturnPop \/ ReturnLink
  <2>1. /\ pc < Len(program) /\ program[pc + 1].op = "ret"
        /\ state' = "RUNNING" /\ Walk!CloseCall /\ dropped' = dropped
    BY <1>0, <1>6, <1>c DEF ReturnPop, ReturnLink, Fetch
  <2>2. CASE ~Walk!Astray
    <3>1. callStack = frames /\ frames # << >>
      BY <1>m, <2>2 DEF Walk!Astray
    <3>2. pc' = frames[Len(frames)]
      BY <1>6, <3>1 DEF ReturnPop, ReturnLink, LastOf
    <3>3. Walk!LeaveCall
      BY <1>0, <2>1, <2>2, <3>2 DEF Walk!LeaveCall, Walk!At
    <3>4. QED  BY <3>3 DEF Walk!WalkNext
  <2>3. CASE Walk!Astray
    <3>1. ASSUME ReturnPop PROVE pc' \in W!ReturnSites(program)
      <4>1. Len(callStack) \in 1..Len(callStack)
        BY <3>1, EmptySeq DEF ReturnPop, TypeOK
      <4>2. QED  BY <3>1, <4>1 DEF ReturnPop, LastOf, Sites
    <3>2. ASSUME ReturnLink
          PROVE  pc' \in W!ReturnSites(program) \cup W!LinkValues(program)
      BY <3>2 DEF ReturnLink, Sites, TypeOK
    <3>3. pc' \in Walk!ReturnSites(program) \cup Walk!LinkValues(program)
      BY <1>6, <3>1, <3>2
      DEF W!ReturnSites, W!LinkValues, Walk!ReturnSites, Walk!LinkValues
    <3>4. Walk!LeaveAstray
      BY <1>0, <2>1, <2>3, <3>3 DEF Walk!LeaveAstray, Walk!At
    <3>5. QED  BY <3>4 DEF Walk!WalkNext
  <2>4. QED  BY <2>2, <2>3
<1>7. CASE ReturnHalt
  <2>1. /\ pc < Len(program) /\ program[pc + 1].op = "ret" /\ pc' = pc + 1
        /\ state' = "HALTED" /\ Walk!CloseCall /\ dropped' = dropped
    BY <1>0, <1>7, <1>c DEF ReturnHalt, Fetch
  <2>2. Walk!Astray
    BY <1>m, <1>7 DEF ReturnHalt, Walk!Astray
  <2>3. Walk!HaltAstray
    BY <1>0, <2>1, <2>2 DEF Walk!HaltAstray, Walk!At
  <2>4. QED  BY <2>3 DEF Walk!WalkNext
<1>8. CASE HaltOp \/ Truncated
  <2>1. /\ pc < Len(program) /\ pc' = pc + 1 /\ state' = "HALTED"
        /\ program[pc + 1].op \in {"halt", "cut"}
        /\ frames' = frames /\ dropped' = dropped
    BY <1>8 DEF HaltOp, Truncated, Fetch, SameFrames, history
  <2>2. Walk!Halt
    BY <1>0, <2>1 DEF Walk!Halt, Walk!At
  <2>3. QED  BY <2>2 DEF Walk!WalkNext
<1>9. CASE Divide \/ Undefined \/ Illegal
  <2>1. /\ pc < Len(program) /\ pc' = pc + 1
        /\ program[pc + 1].op \in {"divide", "undef", "illegal"}
        /\ frames' = frames /\ dropped' = dropped
    BY <1>9 DEF Divide, Undefined, Illegal, Fetch, SameFrames, history
  <2>2. CASE state' = "ERROR"
    <3>1. Walk!Fail
      BY <1>0, <2>1, <2>2 DEF Walk!Fail, Walk!At
    <3>2. QED  BY <3>1 DEF Walk!WalkNext
  <2>3. CASE state' # "ERROR"
    <3>1. state' = "RUNNING" /\ program[pc + 1].op = "divide"
      BY <1>9, <2>3 DEF Divide, Undefined, Illegal, Fetch
    <3>2. pc' \in Walk!Successors(program, pc)
      BY <2>1, <3>1 DEF Walk!Successors
    <3>3. Walk!Advance
      BY <1>0, <2>1, <3>1, <3>2 DEF Walk!Advance, Walk!At
    <3>4. QED  BY <3>3 DEF Walk!WalkNext
  <2>4. QED  BY <2>2, <2>3
<1>10. QED
  BY <1>1, <1>2, <1>3, <1>4, <1>5, <1>6, <1>7, <1>8, <1>9 DEF Step

LEMMA CarefulWalks ==
  ASSUME TypeOK, Sites, Heirless, CallsMatched, [CarefulNext]_vars
  PROVE  [Walk!WalkNext]_(Walk!walkVars)
<1>1. CASE Reset
  <2>1. Walk!Start(<< >>)
    BY <1>1 DEF Reset, Walk!Start, Status
  <2>2. QED  BY <2>1 DEF Walk!WalkNext
<1>2. ASSUME NEW p \in Programs, CarefulLoad(p)
      PROVE  [Walk!WalkNext]_(Walk!walkVars)
  <2>1. Walk!Start(p)
    BY <1>2 DEF CarefulLoad, Load, Walk!Start, Status
  <2>2. QED  BY <2>1 DEF Walk!WalkNext
<1>3. ASSUME NEW b \in Budgets, CarefulRun(b) PROVE UNCHANGED Walk!walkVars
  BY <1>3 DEF CarefulRun, RunBegin, history, Walk!walkVars, Status
<1>4. CASE RunEnd \/ UNCHANGED vars
  BY <1>4 DEF RunEnd, vars, machine, history, Walk!walkVars, Status
<1>5. CASE Step
  BY <1>5, StepWalks
<1>6. QED  BY <1>1, <1>2, <1>3, <1>4, <1>5 DEF CarefulNext

LEMMA InitWalks == Init => Walk!WalkInit
  BY DEF Init, Walk!WalkInit, Status

(* With a fresh VM per program and no run of a stopped one, ichingvm2.c    *)
(* implements the walk: budgets, pauses and single steps never take        *)
(* execution off the program's control-flow graph, and until a call finds  *)
(* the call stack full each RETURN lands behind its own call.              *)
THEOREM CarefulRefinesWalk == CarefulSpec => WalkRefined
<1> DEFINE I == TypeOK /\ Sites /\ Heirless /\ CallsMatched
<1>1. Init => I
  BY InitType, InitSites, InitMatched DEF Init, Heirless
<1>2. I /\ [CarefulNext]_vars => I'
  <2> SUFFICES ASSUME I, [CarefulNext]_vars  PROVE I'
    OBVIOUS
  <2>1. [Next]_vars
    BY CarefulIsNext
  <2>2. QED  BY <2>1, NextType, CarefulSites, CarefulHeirless, NextMatched
<1>3. I /\ [CarefulNext]_vars => [Walk!WalkNext]_(Walk!walkVars)
  BY CarefulWalks
<1> HIDE DEF I
<1>4. QED
  BY <1>1, <1>2, <1>3, InitWalks, PTL DEF CarefulSpec, WalkRefined, Walk!WalkSpec
=============================================================================
