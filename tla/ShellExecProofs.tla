-------------------------- MODULE ShellExecProofs --------------------------
(***************************************************************************)
(* Proofs about ShellExec, for programs of any nesting.  First TypeOK and  *)
(* CountersMatchStack, which hold of every program; then what exit,        *)
(* return, break and continue do on their way out, and what set -e aborts. *)
(* The executor keeps those promises for the programs that the hypotheses  *)
(* describe.  What they leave out breaks one of them, in the code as in    *)
(* the model.                                                              *)
(***************************************************************************)
EXTENDS ShellExec, FiniteSetTheorems, SequenceTheorems, TLAPS

(* What the counters rest on.  A string that is run is the bottom of the   *)
(* stack, a call, eval or source has its simple command below it, and no   *)
(* node is left while it still counts as a loop.                           *)
WellStacked(s) ==
  \A i \in 1 .. Len(s) :
    /\ s[i].kind = "line" <=> i = 1
    /\ s[i].kind \in Boundary => s[i].phase = "start"
    /\ s[i].kind \in {"func", "eval", "source"} => s[i - 1].kind = "simple"

Counted(s, n, m) ==
  /\ s \in Seq(Frame) /\ WellStacked(s)
  /\ IsFiniteSet(LoopFrames(s)) /\ n = Cardinality(LoopFrames(s))
  /\ IsFiniteSet(CallFrames(s)) /\ m = Cardinality(CallFrames(s))

ScalarsOK ==
  /\ pc \in Control
  /\ exempt \in BOOLEAN /\ status \in Status
  /\ ctl \in Ctl /\ errexit \in BOOLEAN /\ lastStatus \in Status
  /\ parseError \in BOOLEAN
  /\ cmdsub \in [ran: BOOLEAN, status: Status]

IInv ==
  /\ ScalarsOK
  /\ (stack = <<>>) = (pc \in {"idle", "done"})
  /\ Counted(stack, loopDepth, callDepth) /\ callDepth <= SH_MAX_CALL_DEPTH
  /\ pc = "leave" => ~ActiveLoop(top) /\ top.kind \notin Boundary

-----------------------------------------------------------------------------
(* How the three ways of changing the stack change what is counted.        *)

Replaced(s, f) == [s EXCEPT ![Len(s)] = f]

(* Replacing the innermost frame changes the count of its own place only.  *)
LEMMA ReplacedFrames ==
  ASSUME NEW s \in Seq(Frame), s # <<>>, NEW f \in Frame
  PROVE  /\ Replaced(s, f) \in Seq(Frame) /\ Replaced(s, f) # <<>>
         /\ Len(Replaced(s, f)) = Len(s)
         /\ \A i \in 1 .. Len(s) :
              Replaced(s, f)[i] = IF i = Len(s) THEN f ELSE s[i]
  BY DEF Replaced

(* A prefix of a sequence is one.                                          *)
LEMMA PrefixOfSeq ==
  ASSUME NEW S, NEW s, NEW k \in Int, \A i \in 1 .. k : s[i] \in S
  PROVE  /\ SubSeq(s, 1, k) \in Seq(S)
         /\ k >= 0 => Len(SubSeq(s, 1, k)) = k
         /\ \A i \in 1 .. k : SubSeq(s, 1, k)[i] = s[i]
<1>1. /\ SubSeq(s, 1, k) \in Seq(S)
      /\ Len(SubSeq(s, 1, k)) = IF 1 <= k THEN k - 1 + 1 ELSE 0
      /\ \A i \in 1 .. k - 1 + 1 : SubSeq(s, 1, k)[i] = s[1 + i - 1]
  <2>1. 1 \in Int
    OBVIOUS
  <2> QED
    BY <2>1, SubSeqProperties, SMTT(30)
<1> QED
  BY <1>1

(* Popping keeps the frames below.                                         *)
LEMMA PoppedFrames ==
  ASSUME NEW s \in Seq(Frame), s # <<>>
  PROVE  /\ Front(s) \in Seq(Frame) /\ Len(Front(s)) = Len(s) - 1
         /\ \A i \in 1 .. Len(s) - 1 : Front(s)[i] = s[i]
<1>1. Len(s) \in Nat /\ Len(s) > 0
  BY EmptySeq
<1>2. Len(s) - 1 \in Int /\ Len(s) - 1 >= 0
  BY <1>1
<1>3. \A i \in 1 .. Len(s) - 1 : s[i] \in Frame
  BY <1>1, ElementOfSeq
<1> QED
  BY <1>2, <1>3, PrefixOfSeq, Zenon DEF Front

(* Appending keeps the frames there.                                       *)
LEMMA AppendedFrames ==
  ASSUME NEW s \in Seq(Frame), NEW f \in Frame
  PROVE  /\ Append(s, f) \in Seq(Frame) /\ Append(s, f) # <<>>
         /\ Len(Append(s, f)) = Len(s) + 1
         /\ \A i \in 1 .. Len(s) + 1 :
              Append(s, f)[i] = IF i = Len(s) + 1 THEN f ELSE s[i]
  BY AppendProperties

(* A frame may change its phase: the call count stays, the loop count      *)
(* moves with the frame's being an active loop.                            *)
LEMMA ReplaceCounts ==
  ASSUME NEW s, NEW n, NEW m, Counted(s, n, m), s # <<>>,
         NEW f \in Frame, f.kind = Last(s).kind,
         f.kind \in Boundary => f.phase = "start"
  PROVE  /\ Replaced(s, f) # <<>>
         /\ ActiveLoop(f) = ActiveLoop(Last(s)) => Counted(Replaced(s, f), n, m)
         /\ ActiveLoop(f) /\ ~ActiveLoop(Last(s)) => Counted(Replaced(s, f), n + 1, m)
         /\ ~ActiveLoop(f) /\ ActiveLoop(Last(s)) => Counted(Replaced(s, f), n - 1, m)
<1> DEFINE t == Replaced(s, f)
<1>1. /\ t \in Seq(Frame) /\ t # <<>> /\ Len(t) = Len(s)
      /\ \A i \in 1 .. Len(s) : t[i] = IF i = Len(s) THEN f ELSE s[i]
  BY ReplacedFrames DEF Counted
<1>2. Len(s) \in 1 .. Len(s) /\ Last(s) = s[Len(s)]
  BY DEF Counted, Last
<1>3. WellStacked(t)
  BY <1>1, <1>2 DEF Counted, WellStacked
<1>4. CallFrames(t) = CallFrames(s)
  BY <1>1, <1>2 DEF Counted, CallFrames
<1>5. LoopFrames(t) = IF ActiveLoop(f) THEN LoopFrames(s) \cup {Len(s)}
                                       ELSE LoopFrames(s) \ {Len(s)}
  BY <1>1, <1>2 DEF Counted, LoopFrames
<1>6. Len(s) \in LoopFrames(s) <=> ActiveLoop(Last(s))
  BY <1>2 DEF Counted, LoopFrames
<1>7. /\ IsFiniteSet(LoopFrames(t))
      /\ Cardinality(LoopFrames(t)) =
           IF ActiveLoop(f) THEN IF ActiveLoop(Last(s)) THEN n ELSE n + 1
                            ELSE IF ActiveLoop(Last(s)) THEN n - 1 ELSE n
  <2>1. CASE ActiveLoop(f)
    BY <2>1, <1>5, <1>6, FS_AddElement DEF Counted
  <2>2. CASE ~ActiveLoop(f)
    BY <2>2, <1>5, <1>6, FS_RemoveElement DEF Counted
  <2> QED
    BY <2>1, <2>2
<1> QED
  BY <1>1, <1>3, <1>4, <1>7 DEF Counted

(* Entering a node, eval, source, substitution or function.                *)
LEMMA AppendCounts ==
  ASSUME NEW s, NEW n, NEW m, Counted(s, n, m), s # <<>>,
         NEW f \in Frame, f.kind # "line", ~ActiveLoop(f),
         f.kind \in Boundary => f.phase = "start",
         f.kind \in {"func", "eval", "source"} => Last(s).kind = "simple"
  PROVE  /\ Append(s, f) # <<>>
         /\ f.kind # "func" => Counted(Append(s, f), n, m)
         /\ f.kind = "func" => Counted(Append(s, f), n, m + 1)
<1> DEFINE t == Append(s, f)
<1>1. /\ t \in Seq(Frame) /\ t # <<>> /\ Len(t) = Len(s) + 1
      /\ \A i \in 1 .. Len(s) + 1 : t[i] = IF i = Len(s) + 1 THEN f ELSE s[i]
  BY AppendedFrames DEF Counted
<1>2. Len(s) \in Nat /\ Len(s) > 0 /\ Last(s) = s[Len(s)]
  BY EmptySeq DEF Counted, Last
<1> HIDE DEF t
<1>3. WellStacked(t)
  <2> SUFFICES ASSUME NEW i \in 1 .. Len(s) + 1
               PROVE  /\ t[i].kind = "line" <=> i = 1
                      /\ t[i].kind \in Boundary => t[i].phase = "start"
                      /\ t[i].kind \in {"func", "eval", "source"} => t[i - 1].kind = "simple"
    BY <1>1 DEF WellStacked
  <2>1. CASE i = Len(s) + 1
    BY <2>1, <1>1, <1>2
  <2>2. CASE i # Len(s) + 1
    <3>1. i \in 1 .. Len(s) /\ t[i] = s[i]
      BY <2>2, <1>1, <1>2
    <3>2. i > 1 => t[i - 1] = s[i - 1]
      BY <3>1, <1>1, <1>2
    <3>3. /\ s[i].kind = "line" <=> i = 1
          /\ s[i].kind \in Boundary => s[i].phase = "start"
          /\ s[i].kind \in {"func", "eval", "source"} => s[i - 1].kind = "simple"
      BY <3>1 DEF Counted, WellStacked
    <3> QED
      BY <3>1, <3>2, <3>3, <1>2
  <2> QED
    BY <2>1, <2>2
<1>4. LoopFrames(t) = LoopFrames(s)
  BY <1>1, <1>2 DEF Counted, LoopFrames
<1>5. CallFrames(t) = IF f.kind = "func" THEN CallFrames(s) \cup {Len(s) + 1}
                                         ELSE CallFrames(s)
  BY <1>1, <1>2 DEF Counted, CallFrames
<1>6. Len(s) + 1 \notin CallFrames(s)
  BY <1>2 DEF Counted, CallFrames
<1>7. /\ IsFiniteSet(CallFrames(t))
      /\ Cardinality(CallFrames(t)) = IF f.kind = "func" THEN m + 1 ELSE m
  BY <1>5, <1>6, FS_AddElement DEF Counted
<1> QED
  BY <1>1, <1>3, <1>4, <1>7 DEF Counted, t

(* Leaving a node, eval, source, substitution or function.                 *)
LEMMA PopCounts ==
  ASSUME NEW s, NEW n, NEW m, Counted(s, n, m), s # <<>>,
         ~ActiveLoop(Last(s)), Last(s).kind # "line"
  PROVE  /\ Front(s) # <<>>
         /\ Last(s).kind # "func" => Counted(Front(s), n, m)
         /\ Last(s).kind = "func" => Counted(Front(s), n, m - 1)
         /\ Last(s).kind \in {"func", "eval", "source"} =>
              Last(Front(s)).kind = "simple"
<1> DEFINE t == Front(s)
<1>1. /\ t \in Seq(Frame) /\ Len(t) = Len(s) - 1
      /\ \A i \in 1 .. Len(s) - 1 : t[i] = s[i]
  BY PoppedFrames DEF Counted
<1>2. Len(s) \in Nat /\ Len(s) > 1 /\ Last(s) = s[Len(s)]
  <2>1. Len(s) \in Nat /\ Len(s) > 0
    BY EmptySeq DEF Counted
  <2>2. Len(s) = 1 => FALSE
    BY <2>1 DEF Counted, WellStacked, Last
  <2> QED
    BY <2>1, <2>2 DEF Last
<1> HIDE DEF t
<1>3. t # <<>>
  BY <1>1, <1>2
<1>4. WellStacked(t)
  BY <1>1, <1>2 DEF Counted, WellStacked
<1>5. LoopFrames(t) = LoopFrames(s)
  BY <1>1, <1>2 DEF Counted, LoopFrames
<1>6. CallFrames(t) = CallFrames(s) \ {Len(s)}
  BY <1>1, <1>2 DEF Counted, CallFrames
<1>7. Len(s) \in CallFrames(s) <=> Last(s).kind = "func"
  BY <1>2 DEF Counted, CallFrames
<1>8. /\ IsFiniteSet(CallFrames(t))
      /\ Cardinality(CallFrames(t)) = IF Last(s).kind = "func" THEN m - 1 ELSE m
  BY <1>6, <1>7, FS_RemoveElement DEF Counted
<1>9. Last(s).kind \in {"func", "eval", "source"} => Last(t).kind = "simple"
  <2>1. Last(t) = t[Len(s) - 1] /\ t[Len(s) - 1] = s[Len(s) - 1]
    BY <1>1, <1>2 DEF Last
  <2>2. s[Len(s)].kind \in {"func", "eval", "source"} => s[Len(s) - 1].kind = "simple"
    BY <1>2 DEF Counted, WellStacked
  <2> QED
    BY <1>2, <2>1, <2>2
<1> QED
  BY <1>1, <1>3, <1>4, <1>5, <1>8, <1>9 DEF Counted, t

-----------------------------------------------------------------------------
(* The same, of the actions that change the stack.                         *)

Active == stack # <<>> /\ Counted(stack, loopDepth, callDepth)

(* What is known of the innermost frame.                                   *)
LEMMA TopFacts ==
  ASSUME Active
  PROVE  /\ top \in Frame
         /\ top.kind \in Boundary => top.phase = "start"
         /\ top.kind = "line" <=> Len(stack) = 1
<1>1. Len(stack) \in 1 .. Len(stack) /\ top = stack[Len(stack)]
  BY DEF Active, Counted, top, Last
<1>2. stack[Len(stack)] \in Frame
  BY <1>1, ElementOfSeq DEF Active, Counted
<1> QED
  BY <1>1, <1>2 DEF Active, Counted, WellStacked

(* Become keeps the kind of the frame.                                     *)
LEMMA BecomeCounts ==
  ASSUME Active, NEW f \in Frame, f.kind = top.kind,
         f.kind \in Boundary => f.phase = "start", Become(f)
  PROVE  /\ stack' # <<>> /\ top' = f
         /\ ActiveLoop(f) = ActiveLoop(top) => Counted(stack', loopDepth, callDepth)
         /\ ActiveLoop(f) /\ ~ActiveLoop(top) => Counted(stack', loopDepth + 1, callDepth)
         /\ ~ActiveLoop(f) /\ ActiveLoop(top) => Counted(stack', loopDepth - 1, callDepth)
<1>1. stack' = Replaced(stack, f)
  BY DEF Become, Replaced
<1>2. top' = f
  <2>1. Len(stack) \in 1 .. Len(stack)
    BY DEF Active, Counted
  <2>2. Len(stack') = Len(stack) /\ stack'[Len(stack)] = f
    BY <1>1, <2>1, ReplacedFrames DEF Active, Counted
  <2> QED
    BY <2>2 DEF top, Last
<1> QED
  BY <1>1, <1>2, ReplaceCounts DEF Active, top

(* InPhase moves the loop count with the phase.                            *)
LEMMA PhaseCounts ==
  ASSUME Active, NEW ph \in Phase, InPhase(ph), top.kind \notin Boundary
  PROVE  /\ stack' # <<>>
         /\ top' = [top EXCEPT !.phase = ph]
         /\ top.kind \notin {"while", "until", "for"} => Counted(stack', loopDepth, callDepth)
         /\ ph \notin {"cond", "body"} /\ ~ActiveLoop(top) =>
              Counted(stack', loopDepth, callDepth)
         /\ ph \in {"cond", "body"} /\ ActiveLoop(top) =>
              Counted(stack', loopDepth, callDepth)
         /\ ph \in {"cond", "body"} /\ ~ActiveLoop(top) /\ top.kind \in {"while", "until", "for"} =>
              Counted(stack', loopDepth + 1, callDepth)
         /\ ph \notin {"cond", "body"} /\ ActiveLoop(top) =>
              Counted(stack', loopDepth - 1, callDepth)
<1> DEFINE f == [top EXCEPT !.phase = ph]
<1>1. f \in Frame /\ f.kind = top.kind /\ f.phase = ph
  BY TopFacts DEF Frame
<1>2. Become(f)
  BY DEF InPhase
<1> HIDE DEF f
<1>3. ActiveLoop(f) <=> top.kind \in {"while", "until", "for"} /\ ph \in {"cond", "body"}
  BY <1>1 DEF ActiveLoop
<1>4. ActiveLoop(top) => top.kind \in {"while", "until", "for"}
  BY DEF ActiveLoop
<1>5. ActiveLoop(f) \in BOOLEAN /\ ActiveLoop(top) \in BOOLEAN
  BY DEF ActiveLoop
<1>6. /\ stack' # <<>> /\ top' = f
      /\ ActiveLoop(f) = ActiveLoop(top) => Counted(stack', loopDepth, callDepth)
      /\ ActiveLoop(f) /\ ~ActiveLoop(top) => Counted(stack', loopDepth + 1, callDepth)
      /\ ~ActiveLoop(f) /\ ActiveLoop(top) => Counted(stack', loopDepth - 1, callDepth)
  BY <1>1, <1>2, BecomeCounts
<1> QED
  BY <1>3, <1>4, <1>5, <1>6 DEF f

(* Push counts a call only.                                                *)
LEMMA PushCounts ==
  ASSUME Active, NEW f \in Frame, f.kind # "line", ~ActiveLoop(f),
         f.kind \in Boundary => f.phase = "start",
         f.kind \in {"func", "eval", "source"} => top.kind = "simple", Push(f)
  PROVE  /\ stack' # <<>>
         /\ f.kind # "func" => Counted(stack', loopDepth, callDepth)
         /\ f.kind = "func" => Counted(stack', loopDepth, callDepth + 1)
  BY AppendCounts DEF Active, Push, top

(* Pop uncounts a call only.                                               *)
LEMMA PopStackCounts ==
  ASSUME Active, ~ActiveLoop(top), top.kind # "line", Pop
  PROVE  /\ stack' # <<>>
         /\ top.kind # "func" => Counted(stack', loopDepth, callDepth)
         /\ top.kind = "func" => Counted(stack', loopDepth, callDepth - 1)
         /\ top.kind \in {"func", "eval", "source"} => top'.kind = "simple"
<1>1. top' = Last(Front(stack))
  BY DEF Pop, top
<1> QED
  BY <1>1, PopCounts DEF Active, Pop, top

(* The status operators stay within Status.                                *)
LEMMA StatusFacts ==
  ASSUME ScalarsOK
  PROVE  /\ SubstStatus \in Status
         /\ Exiting(ctl) => ctl.exit \in Status
         /\ ctl.ret # None => ctl.ret \in Status
         /\ StringStatus \in Status
         /\ \A f, x \in Status : Negate(f, x) \in Status
         /\ LoopControl(ctl) \in Ctl
         /\ \A c \in Ctl : SyntaxErrorIsFatal(c) \in Ctl
  BY DEF ScalarsOK, SubstStatus, Exiting, StringStatus, Negate, Status, Ctl, None,
         LoopControl, Leaving, SyntaxErrorIsFatal

(* Counted makes both counters natural numbers.                            *)
LEMMA CountedNat ==
  ASSUME NEW s, NEW n, NEW m, Counted(s, n, m)
  PROVE  n \in Nat /\ m \in Nat
  BY FS_CardinalityType DEF Counted

(* The parts of the invariant, put together after a step.                  *)
LEMMA KeepsIInv ==
  ASSUME IInv, ScalarsOK', stack' # <<>>, pc' \in {"enter", "step", "leave", "back"},
         Counted(stack', loopDepth', callDepth'), callDepth' <= SH_MAX_CALL_DEPTH,
         pc' = "leave" => ~ActiveLoop(top') /\ top'.kind \notin Boundary
  PROVE  IInv'
  BY DEF IInv, ActiveLoop, top

(* A change of phase that neither starts nor ends a loop keeps the counts. *)
LEMMA PhaseKeeps ==
  ASSUME Active, NEW ph \in Phase, InPhase(ph), top.kind \notin Boundary,
         top.kind \notin {"while", "until", "for"} \/ (ph \notin {"cond", "body"} /\ ~ActiveLoop(top))
  PROVE  stack' # <<>> /\ top'.kind = top.kind /\ top'.phase = ph
         /\ Counted(stack', loopDepth, callDepth)
<1>1. top' = [top EXCEPT !.phase = ph] /\ top \in Frame
  BY PhaseCounts, TopFacts
<1>2. top'.kind = top.kind /\ top'.phase = ph
  BY <1>1 DEF Frame
<1> QED
  BY <1>2, PhaseCounts

(* So does any change of a frame that is no loop.                          *)
LEMMA BecomeKeeps ==
  ASSUME Active, NEW f \in Frame, Become(f), f.kind = top.kind,
         f.kind \notin Boundary \cup {"while", "until", "for"}
  PROVE  stack' # <<>> /\ Counted(stack', loopDepth, callDepth)
         /\ ~ActiveLoop(top') /\ top'.kind \notin Boundary
<1>1. ActiveLoop(f) = ActiveLoop(top) /\ ~ActiveLoop(f)
  BY DEF ActiveLoop
<1> QED
  BY <1>1, BecomeCounts

(* A loop that ends is one less, one that starts is one more.              *)
LEMMA LoopPhases ==
  ASSUME Active, top.kind \in {"while", "until", "for"}
  PROVE  /\ ActiveLoop(top) /\ InPhase("ended") =>
              /\ stack' # <<>> /\ Counted(stack', loopDepth - 1, callDepth)
              /\ ~ActiveLoop(top') /\ top'.kind \notin Boundary
         /\ \A ph \in {"cond", "body"} : InPhase(ph) =>
              /\ stack' # <<>>
              /\ Counted(stack', IF ActiveLoop(top) THEN loopDepth ELSE loopDepth + 1, callDepth)
<1>1. top.kind \notin Boundary /\ {"ended", "cond", "body"} \subseteq Phase
  BY DEF Boundary, Phase
<1>2. ASSUME ActiveLoop(top), InPhase("ended")
      PROVE  /\ stack' # <<>> /\ Counted(stack', loopDepth - 1, callDepth)
             /\ ~ActiveLoop(top') /\ top'.kind \notin Boundary
  <2>1. stack' # <<>> /\ top' = [top EXCEPT !.phase = "ended"]
        /\ Counted(stack', loopDepth - 1, callDepth)
    BY <1>1, <1>2, PhaseCounts
  <2>2. top'.kind = top.kind /\ top'.phase = "ended"
    BY <2>1, TopFacts DEF Frame
  <2> QED
    BY <1>1, <2>1, <2>2 DEF ActiveLoop
<1>3. ASSUME NEW ph \in {"cond", "body"}, InPhase(ph)
      PROVE  /\ stack' # <<>>
             /\ Counted(stack', IF ActiveLoop(top) THEN loopDepth ELSE loopDepth + 1, callDepth)
  BY <1>1, <1>3, PhaseCounts
<1> QED
  BY <1>2, <1>3

(* New frames are frames, of the kind and phase asked for.                 *)
LEMMA NewFrameType ==
  ASSUME NEW k \in FrameKind, NEW ex \in BOOLEAN, NEW neg \in BOOLEAN, NEW ph \in Phase
  PROVE  /\ NewFrame(k, ex, neg, ph) \in Frame
         /\ NewFrame(k, ex, neg, ph).kind = k /\ NewFrame(k, ex, neg, ph).phase = ph
  BY DEF NewFrame, Frame, NoCtl, Ctl, Status, None

(* Entering a node counts nothing yet.                                     *)
LEMMA PushKeeps ==
  ASSUME Active, NEW f \in Frame, Push(f), f.kind \in Compound \cup {"simple"},
         f.phase \notin {"cond", "body"}
  PROVE  stack' # <<>> /\ Counted(stack', loopDepth, callDepth)
<1>1. /\ f.kind \notin Boundary /\ f.kind # "line" /\ f.kind # "func"
      /\ f.kind \notin {"func", "eval", "source"}
  BY DEF Compound, Boundary
<1>2. ~ActiveLoop(f)
  BY DEF ActiveLoop
<1> QED
  BY <1>1, <1>2, PushCounts

(* An empty stack counts nothing.                                          *)
LEMMA NothingCounted ==
  /\ LoopFrames(<<>>) = {} /\ CallFrames(<<>>) = {}
  /\ Counted(<<>>, 0, 0)
<1>1. 1 .. Len(<<>>) = {} /\ DOMAIN <<>> = {}
  OBVIOUS
<1>2. LoopFrames(<<>>) = {} /\ CallFrames(<<>>) = {}
  BY <1>1 DEF LoopFrames, CallFrames
<1>3. WellStacked(<<>>)
  BY <1>1 DEF WellStacked
<1> QED
  BY <1>2, <1>3, FS_EmptySet, EmptySeq DEF Counted

(* Every step keeps the invariant: one case per action.                    *)
THEOREM StepKeepsIInv == IInv /\ Next => IInv'
<1> SUFFICES ASSUME IInv, Next PROVE IInv'
  OBVIOUS
<1> USE DEF Goto, Call, Stay, Finish, Deliver, NoCtlChange, NoDepthChange
<1>a. ScalarsOK /\ (pc \notin {"idle", "done"} => Active)
  BY DEF IInv, Active
<1>b. pc \notin {"idle", "done"} => top \in Frame /\ (top.kind \in Boundary => top.phase = "start")
  BY <1>a, TopFacts
<1>c. /\ Codes \subseteq Status /\ {0, 1, 2} \subseteq Status
      /\ SubstStatus \in Status /\ StringStatus \in Status
      /\ Exiting(ctl) => ctl.exit \in Status
      /\ status \in Status /\ lastStatus \in Status /\ ctl \in Ctl
  BY <1>a, StatusFacts DEF Status, ScalarsOK
<1>d. pc \notin {"idle", "done"} => top.acc \in Status
  BY <1>b DEF Frame
<1>RunPlain. CASE RunPlain
  <2>0. pc \notin {"idle", "done"} /\ pc' \in {"enter", "step", "leave", "back"}
    BY <1>RunPlain DEF RunPlain, Run, Running
  <2>1. pc' \in Control /\ exempt' \in BOOLEAN /\ status' \in Status
    BY <2>0, <1>RunPlain, <1>b, <1>c, <1>d DEF RunPlain, Run, Running, Control, Inner, Frame
  <2>2. ctl' \in Ctl
    BY <1>RunPlain, <1>c, ConstantsAssumption DEF RunPlain, Run, Running, Ctl
  <2>3. /\ errexit' \in BOOLEAN /\ lastStatus' \in Status /\ parseError' \in BOOLEAN
        /\ cmdsub' \in [ran: BOOLEAN, status: Status]
    BY <1>RunPlain, <1>a DEF RunPlain, Run, Running, ScalarsOK
  <2>4. ~ActiveLoop(top) /\ top.kind \notin Boundary
    BY <1>RunPlain DEF RunPlain, Run, Running, ActiveLoop, Boundary
  <2>5. UNCHANGED <<stack, loopDepth, callDepth>>
    BY <1>RunPlain DEF RunPlain, Run, Running
  <2> QED
    BY <2>0, <2>1, <2>2, <2>3, <2>4, <2>5, <1>a, KeepsIInv DEF IInv, Active, top, ScalarsOK
<1>RunExit. CASE RunExit
  <2>0. pc \notin {"idle", "done"} /\ pc' \in {"enter", "step", "leave", "back"}
    BY <1>RunExit DEF RunExit, Run, Running
  <2>1. pc' \in Control /\ exempt' \in BOOLEAN /\ status' \in Status
    BY <2>0, <1>RunExit, <1>b, <1>c, <1>d DEF RunExit, Run, Running, Control, Inner, Frame
  <2>2. ctl' \in Ctl
    BY <1>RunExit, <1>c, ConstantsAssumption DEF RunExit, Run, Running, Ctl
  <2>3. /\ errexit' \in BOOLEAN /\ lastStatus' \in Status /\ parseError' \in BOOLEAN
        /\ cmdsub' \in [ran: BOOLEAN, status: Status]
    BY <1>RunExit, <1>a DEF RunExit, Run, Running, ScalarsOK
  <2>4. ~ActiveLoop(top) /\ top.kind \notin Boundary
    BY <1>RunExit DEF RunExit, Run, Running, ActiveLoop, Boundary
  <2>5. UNCHANGED <<stack, loopDepth, callDepth>>
    BY <1>RunExit DEF RunExit, Run, Running
  <2> QED
    BY <2>0, <2>1, <2>2, <2>3, <2>4, <2>5, <1>a, KeepsIInv DEF IInv, Active, top, ScalarsOK
<1>RunReturn. CASE RunReturn
  <2>0. pc \notin {"idle", "done"} /\ pc' \in {"enter", "step", "leave", "back"}
    BY <1>RunReturn DEF RunReturn, Run, Running
  <2>1. pc' \in Control /\ exempt' \in BOOLEAN /\ status' \in Status
    BY <2>0, <1>RunReturn, <1>b, <1>c, <1>d DEF RunReturn, Run, Running, Control, Inner, Frame
  <2>2. ctl' \in Ctl
    BY <1>RunReturn, <1>c, ConstantsAssumption DEF RunReturn, Run, Running, Ctl
  <2>3. /\ errexit' \in BOOLEAN /\ lastStatus' \in Status /\ parseError' \in BOOLEAN
        /\ cmdsub' \in [ran: BOOLEAN, status: Status]
    BY <1>RunReturn, <1>a DEF RunReturn, Run, Running, ScalarsOK
  <2>4. ~ActiveLoop(top) /\ top.kind \notin Boundary
    BY <1>RunReturn DEF RunReturn, Run, Running, ActiveLoop, Boundary
  <2>5. UNCHANGED <<stack, loopDepth, callDepth>>
    BY <1>RunReturn DEF RunReturn, Run, Running
  <2> QED
    BY <2>0, <2>1, <2>2, <2>3, <2>4, <2>5, <1>a, KeepsIInv DEF IInv, Active, top, ScalarsOK
<1>RunBreak. CASE RunBreak
  <2>0. pc \notin {"idle", "done"} /\ pc' \in {"enter", "step", "leave", "back"}
    BY <1>RunBreak DEF RunBreak, Run, Running
  <2>1. pc' \in Control /\ exempt' \in BOOLEAN /\ status' \in Status
    BY <2>0, <1>RunBreak, <1>b, <1>c, <1>d DEF RunBreak, Run, Running, Control, Inner, Frame
  <2>2. ctl' \in Ctl
    BY <1>RunBreak, <1>c, ConstantsAssumption DEF RunBreak, Run, Running, Ctl
  <2>3. /\ errexit' \in BOOLEAN /\ lastStatus' \in Status /\ parseError' \in BOOLEAN
        /\ cmdsub' \in [ran: BOOLEAN, status: Status]
    BY <1>RunBreak, <1>a DEF RunBreak, Run, Running, ScalarsOK
  <2>4. ~ActiveLoop(top) /\ top.kind \notin Boundary
    BY <1>RunBreak DEF RunBreak, Run, Running, ActiveLoop, Boundary
  <2>5. UNCHANGED <<stack, loopDepth, callDepth>>
    BY <1>RunBreak DEF RunBreak, Run, Running
  <2> QED
    BY <2>0, <2>1, <2>2, <2>3, <2>4, <2>5, <1>a, KeepsIInv DEF IInv, Active, top, ScalarsOK
<1>RunContinue. CASE RunContinue
  <2>0. pc \notin {"idle", "done"} /\ pc' \in {"enter", "step", "leave", "back"}
    BY <1>RunContinue DEF RunContinue, Run, Running
  <2>1. pc' \in Control /\ exempt' \in BOOLEAN /\ status' \in Status
    BY <2>0, <1>RunContinue, <1>b, <1>c, <1>d DEF RunContinue, Run, Running, Control, Inner, Frame
  <2>2. ctl' \in Ctl
    BY <1>RunContinue, <1>c, ConstantsAssumption DEF RunContinue, Run, Running, Ctl
  <2>3. /\ errexit' \in BOOLEAN /\ lastStatus' \in Status /\ parseError' \in BOOLEAN
        /\ cmdsub' \in [ran: BOOLEAN, status: Status]
    BY <1>RunContinue, <1>a DEF RunContinue, Run, Running, ScalarsOK
  <2>4. ~ActiveLoop(top) /\ top.kind \notin Boundary
    BY <1>RunContinue DEF RunContinue, Run, Running, ActiveLoop, Boundary
  <2>5. UNCHANGED <<stack, loopDepth, callDepth>>
    BY <1>RunContinue DEF RunContinue, Run, Running
  <2> QED
    BY <2>0, <2>1, <2>2, <2>3, <2>4, <2>5, <1>a, KeepsIInv DEF IInv, Active, top, ScalarsOK
<1>RunBadArg. CASE RunBadArg
  <2>0. pc \notin {"idle", "done"} /\ pc' \in {"enter", "step", "leave", "back"}
    BY <1>RunBadArg DEF RunBadArg, Run, Running
  <2>1. pc' \in Control /\ exempt' \in BOOLEAN /\ status' \in Status
    BY <2>0, <1>RunBadArg, <1>b, <1>c, <1>d DEF RunBadArg, Run, Running, Control, Inner, Frame
  <2>2. ctl' \in Ctl
    BY <1>RunBadArg, <1>c, ConstantsAssumption DEF RunBadArg, Run, Running, Ctl
  <2>3. /\ errexit' \in BOOLEAN /\ lastStatus' \in Status /\ parseError' \in BOOLEAN
        /\ cmdsub' \in [ran: BOOLEAN, status: Status]
    BY <1>RunBadArg, <1>a DEF RunBadArg, Run, Running, ScalarsOK
  <2>4. ~ActiveLoop(top) /\ top.kind \notin Boundary
    BY <1>RunBadArg DEF RunBadArg, Run, Running, ActiveLoop, Boundary
  <2>5. UNCHANGED <<stack, loopDepth, callDepth>>
    BY <1>RunBadArg DEF RunBadArg, Run, Running
  <2> QED
    BY <2>0, <2>1, <2>2, <2>3, <2>4, <2>5, <1>a, KeepsIInv DEF IInv, Active, top, ScalarsOK
<1>RunSet. CASE RunSet
  <2>0. pc \notin {"idle", "done"} /\ pc' \in {"enter", "step", "leave", "back"}
    BY <1>RunSet DEF RunSet, Run, Running
  <2>1. pc' \in Control /\ exempt' \in BOOLEAN /\ status' \in Status
    BY <2>0, <1>RunSet, <1>b, <1>c, <1>d DEF RunSet, Run, Running, Control, Inner, Frame
  <2>2. ctl' \in Ctl
    BY <1>RunSet, <1>c, ConstantsAssumption DEF RunSet, Run, Running, Ctl
  <2>3. /\ errexit' \in BOOLEAN /\ lastStatus' \in Status /\ parseError' \in BOOLEAN
        /\ cmdsub' \in [ran: BOOLEAN, status: Status]
    BY <1>RunSet, <1>a DEF RunSet, Run, Running, ScalarsOK
  <2>4. ~ActiveLoop(top) /\ top.kind \notin Boundary
    BY <1>RunSet DEF RunSet, Run, Running, ActiveLoop, Boundary
  <2>5. UNCHANGED <<stack, loopDepth, callDepth>>
    BY <1>RunSet DEF RunSet, Run, Running
  <2> QED
    BY <2>0, <2>1, <2>2, <2>3, <2>4, <2>5, <1>a, KeepsIInv DEF IInv, Active, top, ScalarsOK
<1>SimpleNoArgs. CASE SimpleNoArgs
  <2>0. pc \notin {"idle", "done"} /\ pc' \in {"enter", "step", "leave", "back"}
    BY <1>SimpleNoArgs DEF SimpleNoArgs, Expanded
  <2>1. pc' \in Control /\ exempt' \in BOOLEAN /\ status' \in Status
    BY <2>0, <1>SimpleNoArgs, <1>b, <1>c, <1>d DEF SimpleNoArgs, Expanded, Control, Inner, Frame
  <2>2. ctl' \in Ctl
    BY <1>SimpleNoArgs, <1>c, ConstantsAssumption DEF SimpleNoArgs, Expanded, Ctl
  <2>3. /\ errexit' \in BOOLEAN /\ lastStatus' \in Status /\ parseError' \in BOOLEAN
        /\ cmdsub' \in [ran: BOOLEAN, status: Status]
    BY <1>SimpleNoArgs, <1>a DEF SimpleNoArgs, Expanded, ScalarsOK
  <2>4. ~ActiveLoop(top) /\ top.kind \notin Boundary
    BY <1>SimpleNoArgs DEF SimpleNoArgs, Expanded, ActiveLoop, Boundary
  <2>5. UNCHANGED <<stack, loopDepth, callDepth>>
    BY <1>SimpleNoArgs DEF SimpleNoArgs, Expanded
  <2> QED
    BY <2>0, <2>1, <2>2, <2>3, <2>4, <2>5, <1>a, KeepsIInv DEF IInv, Active, top, ScalarsOK
<1>SimpleBare. CASE SimpleBare
  <2>0. pc \notin {"idle", "done"} /\ pc' \in {"enter", "step", "leave", "back"}
    BY <1>SimpleBare DEF SimpleBare, Expanded
  <2>1. pc' \in Control /\ exempt' \in BOOLEAN /\ status' \in Status
    BY <2>0, <1>SimpleBare, <1>b, <1>c, <1>d DEF SimpleBare, Expanded, Control, Inner, Frame
  <2>2. ctl' \in Ctl
    BY <1>SimpleBare, <1>c, ConstantsAssumption DEF SimpleBare, Expanded, Ctl
  <2>3. /\ errexit' \in BOOLEAN /\ lastStatus' \in Status /\ parseError' \in BOOLEAN
        /\ cmdsub' \in [ran: BOOLEAN, status: Status]
    BY <1>SimpleBare, <1>a DEF SimpleBare, Expanded, ScalarsOK
  <2>4. ~ActiveLoop(top) /\ top.kind \notin Boundary
    BY <1>SimpleBare DEF SimpleBare, Expanded, ActiveLoop, Boundary
  <2>5. UNCHANGED <<stack, loopDepth, callDepth>>
    BY <1>SimpleBare DEF SimpleBare, Expanded
  <2> QED
    BY <2>0, <2>1, <2>2, <2>3, <2>4, <2>5, <1>a, KeepsIInv DEF IInv, Active, top, ScalarsOK
<1>ListStep. CASE ListStep
  <2>0. pc \notin {"idle", "done"} /\ pc' \in {"enter", "step", "leave", "back"}
    BY <1>ListStep DEF ListStep, Running, Back
  <2>1. pc' \in Control /\ exempt' \in BOOLEAN /\ status' \in Status
    BY <2>0, <1>ListStep, <1>b, <1>c, <1>d DEF ListStep, Running, Back, Control, Inner, Frame
  <2>2. ctl' \in Ctl
    BY <1>ListStep, <1>c, ConstantsAssumption DEF ListStep, Running, Back, Ctl
  <2>3. /\ errexit' \in BOOLEAN /\ lastStatus' \in Status /\ parseError' \in BOOLEAN
        /\ cmdsub' \in [ran: BOOLEAN, status: Status]
    BY <1>ListStep, <1>a DEF ListStep, Running, Back, ScalarsOK
  <2>4. ~ActiveLoop(top) /\ top.kind \notin Boundary
    BY <1>ListStep DEF ListStep, Running, Back, ActiveLoop, Boundary
  <2>5. UNCHANGED <<stack, loopDepth, callDepth>>
    BY <1>ListStep DEF ListStep, Running, Back
  <2> QED
    BY <2>0, <2>1, <2>2, <2>3, <2>4, <2>5, <1>a, KeepsIInv DEF IInv, Active, top, ScalarsOK
<1>ListStops. CASE ListStops
  <2>0. pc \notin {"idle", "done"} /\ pc' \in {"enter", "step", "leave", "back"}
    BY <1>ListStops DEF ListStops, Running, Back
  <2>1. pc' \in Control /\ exempt' \in BOOLEAN /\ status' \in Status
    BY <2>0, <1>ListStops, <1>b, <1>c, <1>d DEF ListStops, Running, Back, Control, Inner, Frame
  <2>2. ctl' \in Ctl
    BY <1>ListStops, <1>c, ConstantsAssumption DEF ListStops, Running, Back, Ctl
  <2>3. /\ errexit' \in BOOLEAN /\ lastStatus' \in Status /\ parseError' \in BOOLEAN
        /\ cmdsub' \in [ran: BOOLEAN, status: Status]
    BY <1>ListStops, <1>a DEF ListStops, Running, Back, ScalarsOK
  <2>4. ~ActiveLoop(top) /\ top.kind \notin Boundary
    BY <1>ListStops DEF ListStops, Running, Back, ActiveLoop, Boundary
  <2>5. UNCHANGED <<stack, loopDepth, callDepth>>
    BY <1>ListStops DEF ListStops, Running, Back
  <2> QED
    BY <2>0, <2>1, <2>2, <2>3, <2>4, <2>5, <1>a, KeepsIInv DEF IInv, Active, top, ScalarsOK
<1>IfEnds. CASE IfEnds
  <2>0. pc \notin {"idle", "done"} /\ pc' \in {"enter", "step", "leave", "back"}
    BY <1>IfEnds DEF IfEnds, CondEnds
  <2>1. pc' \in Control /\ exempt' \in BOOLEAN /\ status' \in Status
    BY <2>0, <1>IfEnds, <1>b, <1>c, <1>d DEF IfEnds, CondEnds, Control, Inner, Frame
  <2>2. ctl' \in Ctl
    BY <1>IfEnds, <1>c, ConstantsAssumption DEF IfEnds, CondEnds, Ctl
  <2>3. /\ errexit' \in BOOLEAN /\ lastStatus' \in Status /\ parseError' \in BOOLEAN
        /\ cmdsub' \in [ran: BOOLEAN, status: Status]
    BY <1>IfEnds, <1>a DEF IfEnds, CondEnds, ScalarsOK
  <2>4. ~ActiveLoop(top) /\ top.kind \notin Boundary
    BY <1>IfEnds DEF IfEnds, CondEnds, ActiveLoop, Boundary
  <2>5. UNCHANGED <<stack, loopDepth, callDepth>>
    BY <1>IfEnds DEF IfEnds, CondEnds
  <2> QED
    BY <2>0, <2>1, <2>2, <2>3, <2>4, <2>5, <1>a, KeepsIInv DEF IInv, Active, top, ScalarsOK
<1>BodyEnds. CASE BodyEnds
  <2>0. pc \notin {"idle", "done"} /\ pc' \in {"enter", "step", "leave", "back"}
    BY <1>BodyEnds DEF BodyEnds
  <2>1. pc' \in Control /\ exempt' \in BOOLEAN /\ status' \in Status
    BY <2>0, <1>BodyEnds, <1>b, <1>c, <1>d DEF BodyEnds, Control, Inner, Frame
  <2>2. ctl' \in Ctl
    BY <1>BodyEnds, <1>c, ConstantsAssumption DEF BodyEnds, Ctl
  <2>3. /\ errexit' \in BOOLEAN /\ lastStatus' \in Status /\ parseError' \in BOOLEAN
        /\ cmdsub' \in [ran: BOOLEAN, status: Status]
    BY <1>BodyEnds, <1>a DEF BodyEnds, ScalarsOK
  <2>4. ~ActiveLoop(top) /\ top.kind \notin Boundary
    BY <1>BodyEnds DEF BodyEnds, ActiveLoop, Boundary
  <2>5. UNCHANGED <<stack, loopDepth, callDepth>>
    BY <1>BodyEnds DEF BodyEnds
  <2> QED
    BY <2>0, <2>1, <2>2, <2>3, <2>4, <2>5, <1>a, KeepsIInv DEF IInv, Active, top, ScalarsOK
<1>CompoundRedir. CASE CompoundRedir
  <2>0. pc \notin {"idle", "done"} /\ pc' \in {"enter", "step", "leave", "back"}
    BY <1>CompoundRedir DEF CompoundRedir
  <2>1. pc' \in Control /\ exempt' \in BOOLEAN /\ status' \in Status
    BY <2>0, <1>CompoundRedir, <1>a, <1>b, <1>c, <1>d DEF CompoundRedir, Control, Inner, Frame
  <2>2. ctl' \in Ctl
    BY <1>CompoundRedir, <1>c, ConstantsAssumption DEF CompoundRedir, Ctl
  <2>3. /\ errexit' \in BOOLEAN /\ lastStatus' \in Status /\ parseError' \in BOOLEAN
        /\ cmdsub' \in [ran: BOOLEAN, status: Status]
    BY <1>CompoundRedir, <1>a, <1>c DEF CompoundRedir, ScalarsOK
  <2>4. /\ top.kind \notin Boundary /\ ~ActiveLoop(top)
        /\ UNCHANGED stack \/ \E ph \in {"start"} : InPhase(ph)
        /\ UNCHANGED <<loopDepth, callDepth>>
    BY <1>CompoundRedir, <2>0, <1>b DEF CompoundRedir, ActiveLoop, Boundary
  <2>5. stack' # <<>> /\ Counted(stack', loopDepth', callDepth') /\ ~ActiveLoop(top') /\ top'.kind \notin Boundary
    <3>1. CASE UNCHANGED stack
      BY <3>1, <2>0, <2>4, <1>a DEF Active, top
    <3>2. ASSUME NEW ph \in {"start"}, InPhase(ph)
          PROVE  stack' # <<>> /\ Counted(stack', loopDepth, callDepth) /\ ~ActiveLoop(top') /\ top'.kind = top.kind
      <4>1. ph \in Phase
        BY DEF Phase
      <4>2. top.kind \notin {"while", "until", "for"} \/ ph \notin {"cond", "body"}
        BY <1>CompoundRedir DEF CompoundRedir
      <4>3. stack' # <<>> /\ top'.kind = top.kind /\ top'.phase = ph /\ Counted(stack', loopDepth, callDepth)
        BY <4>1, <4>2, <2>0, <2>4, <3>2, <1>a, PhaseKeeps
      <4> QED
        BY <4>2, <4>3 DEF ActiveLoop
    <3> QED
      BY <3>1, <3>2, <2>4
  <2> QED
    BY <2>0, <2>1, <2>2, <2>3, <2>4, <2>5, KeepsIInv DEF IInv, ScalarsOK
<1>SimpleAssign. CASE SimpleAssign
  <2>0. pc \notin {"idle", "done"} /\ pc' \in {"enter", "step", "leave", "back"}
    BY <1>SimpleAssign DEF SimpleAssign, Expanded
  <2>1. pc' \in Control /\ exempt' \in BOOLEAN /\ status' \in Status
    BY <2>0, <1>SimpleAssign, <1>a, <1>b, <1>c, <1>d DEF SimpleAssign, Expanded, Control, Inner, Frame
  <2>2. ctl' \in Ctl
    BY <1>SimpleAssign, <1>c, ConstantsAssumption DEF SimpleAssign, Expanded, Ctl
  <2>3. /\ errexit' \in BOOLEAN /\ lastStatus' \in Status /\ parseError' \in BOOLEAN
        /\ cmdsub' \in [ran: BOOLEAN, status: Status]
    BY <1>SimpleAssign, <1>a, <1>c DEF SimpleAssign, Expanded, ScalarsOK
  <2>4. /\ top.kind \notin Boundary /\ ~ActiveLoop(top)
        /\ UNCHANGED stack \/ \E ph \in {"redir", "start"} : InPhase(ph)
        /\ UNCHANGED <<loopDepth, callDepth>>
    BY <1>SimpleAssign, <2>0, <1>b DEF SimpleAssign, Expanded, ActiveLoop, Boundary
  <2>5. stack' # <<>> /\ Counted(stack', loopDepth', callDepth') /\ ~ActiveLoop(top') /\ top'.kind \notin Boundary
    <3>1. CASE UNCHANGED stack
      BY <3>1, <2>0, <2>4, <1>a DEF Active, top
    <3>2. ASSUME NEW ph \in {"redir", "start"}, InPhase(ph)
          PROVE  stack' # <<>> /\ Counted(stack', loopDepth, callDepth) /\ ~ActiveLoop(top') /\ top'.kind = top.kind
      <4>1. ph \in Phase
        BY DEF Phase
      <4>2. top.kind \notin {"while", "until", "for"} \/ ph \notin {"cond", "body"}
        BY <1>SimpleAssign DEF SimpleAssign, Expanded
      <4>3. stack' # <<>> /\ top'.kind = top.kind /\ top'.phase = ph /\ Counted(stack', loopDepth, callDepth)
        BY <4>1, <4>2, <2>0, <2>4, <3>2, <1>a, PhaseKeeps
      <4> QED
        BY <4>2, <4>3 DEF ActiveLoop
    <3> QED
      BY <3>1, <3>2, <2>4
  <2> QED
    BY <2>0, <2>1, <2>2, <2>3, <2>4, <2>5, KeepsIInv DEF IInv, ScalarsOK
<1>SimplePure. CASE SimplePure
  <2>0. pc \notin {"idle", "done"} /\ pc' \in {"enter", "step", "leave", "back"}
    BY <1>SimplePure DEF SimplePure, Expanded
  <2>1. pc' \in Control /\ exempt' \in BOOLEAN /\ status' \in Status
    BY <2>0, <1>SimplePure, <1>a, <1>b, <1>c, <1>d DEF SimplePure, Expanded, Control, Inner, Frame
  <2>2. ctl' \in Ctl
    BY <1>SimplePure, <1>c, ConstantsAssumption DEF SimplePure, Expanded, Ctl
  <2>3. /\ errexit' \in BOOLEAN /\ lastStatus' \in Status /\ parseError' \in BOOLEAN
        /\ cmdsub' \in [ran: BOOLEAN, status: Status]
    BY <1>SimplePure, <1>a, <1>c DEF SimplePure, Expanded, ScalarsOK
  <2>4. /\ top.kind \notin Boundary /\ ~ActiveLoop(top)
        /\ UNCHANGED stack \/ \E ph \in {"bare"} : InPhase(ph)
        /\ UNCHANGED <<loopDepth, callDepth>>
    BY <1>SimplePure, <2>0, <1>b DEF SimplePure, Expanded, ActiveLoop, Boundary
  <2>5. stack' # <<>> /\ Counted(stack', loopDepth', callDepth') /\ ~ActiveLoop(top') /\ top'.kind \notin Boundary
    <3>1. CASE UNCHANGED stack
      BY <3>1, <2>0, <2>4, <1>a DEF Active, top
    <3>2. ASSUME NEW ph \in {"bare"}, InPhase(ph)
          PROVE  stack' # <<>> /\ Counted(stack', loopDepth, callDepth) /\ ~ActiveLoop(top') /\ top'.kind = top.kind
      <4>1. ph \in Phase
        BY DEF Phase
      <4>2. top.kind \notin {"while", "until", "for"} \/ ph \notin {"cond", "body"}
        BY <1>SimplePure DEF SimplePure, Expanded
      <4>3. stack' # <<>> /\ top'.kind = top.kind /\ top'.phase = ph /\ Counted(stack', loopDepth, callDepth)
        BY <4>1, <4>2, <2>0, <2>4, <3>2, <1>a, PhaseKeeps
      <4> QED
        BY <4>2, <4>3 DEF ActiveLoop
    <3> QED
      BY <3>1, <3>2, <2>4
  <2> QED
    BY <2>0, <2>1, <2>2, <2>3, <2>4, <2>5, KeepsIInv DEF IInv, ScalarsOK
<1>SimpleRedir. CASE SimpleRedir
  <2>0. pc \notin {"idle", "done"} /\ pc' \in {"enter", "step", "leave", "back"}
    BY <1>SimpleRedir DEF SimpleRedir, Expanded
  <2>1. pc' \in Control /\ exempt' \in BOOLEAN /\ status' \in Status
    BY <2>0, <1>SimpleRedir, <1>a, <1>b, <1>c, <1>d DEF SimpleRedir, Expanded, Control, Inner, Frame
  <2>2. ctl' \in Ctl
    BY <1>SimpleRedir, <1>c, ConstantsAssumption DEF SimpleRedir, Expanded, Ctl
  <2>3. /\ errexit' \in BOOLEAN /\ lastStatus' \in Status /\ parseError' \in BOOLEAN
        /\ cmdsub' \in [ran: BOOLEAN, status: Status]
    BY <1>SimpleRedir, <1>a, <1>c DEF SimpleRedir, Expanded, ScalarsOK
  <2>4. /\ top.kind \notin Boundary /\ ~ActiveLoop(top)
        /\ UNCHANGED stack \/ \E ph \in {"start"} : InPhase(ph)
        /\ UNCHANGED <<loopDepth, callDepth>>
    BY <1>SimpleRedir, <2>0, <1>b DEF SimpleRedir, Expanded, ActiveLoop, Boundary
  <2>5. stack' # <<>> /\ Counted(stack', loopDepth', callDepth') /\ ~ActiveLoop(top') /\ top'.kind \notin Boundary
    <3>1. CASE UNCHANGED stack
      BY <3>1, <2>0, <2>4, <1>a DEF Active, top
    <3>2. ASSUME NEW ph \in {"start"}, InPhase(ph)
          PROVE  stack' # <<>> /\ Counted(stack', loopDepth, callDepth) /\ ~ActiveLoop(top') /\ top'.kind = top.kind
      <4>1. ph \in Phase
        BY DEF Phase
      <4>2. top.kind \notin {"while", "until", "for"} \/ ph \notin {"cond", "body"}
        BY <1>SimpleRedir DEF SimpleRedir, Expanded
      <4>3. stack' # <<>> /\ top'.kind = top.kind /\ top'.phase = ph /\ Counted(stack', loopDepth, callDepth)
        BY <4>1, <4>2, <2>0, <2>4, <3>2, <1>a, PhaseKeeps
      <4> QED
        BY <4>2, <4>3 DEF ActiveLoop
    <3> QED
      BY <3>1, <3>2, <2>4
  <2> QED
    BY <2>0, <2>1, <2>2, <2>3, <2>4, <2>5, KeepsIInv DEF IInv, ScalarsOK
<1>AndOrLeft. CASE AndOrLeft
  <2>0. pc \notin {"idle", "done"} /\ pc' \in {"enter", "step", "leave", "back"}
    BY <1>AndOrLeft DEF AndOrLeft, Running
  <2>1. pc' \in Control /\ exempt' \in BOOLEAN /\ status' \in Status
    BY <2>0, <1>AndOrLeft, <1>a, <1>b, <1>c, <1>d DEF AndOrLeft, Running, Control, Inner, Frame
  <2>2. ctl' \in Ctl
    BY <1>AndOrLeft, <1>c, ConstantsAssumption DEF AndOrLeft, Running, Ctl
  <2>3. /\ errexit' \in BOOLEAN /\ lastStatus' \in Status /\ parseError' \in BOOLEAN
        /\ cmdsub' \in [ran: BOOLEAN, status: Status]
    BY <1>AndOrLeft, <1>a, <1>c DEF AndOrLeft, Running, ScalarsOK
  <2>4. /\ top.kind \notin Boundary /\ ~ActiveLoop(top)
        /\ UNCHANGED stack \/ \E ph \in {"left"} : InPhase(ph)
        /\ UNCHANGED <<loopDepth, callDepth>>
    BY <1>AndOrLeft, <2>0, <1>b DEF AndOrLeft, Running, ActiveLoop, Boundary
  <2>5. stack' # <<>> /\ Counted(stack', loopDepth', callDepth') /\ ~ActiveLoop(top') /\ top'.kind \notin Boundary
    <3>1. CASE UNCHANGED stack
      BY <3>1, <2>0, <2>4, <1>a DEF Active, top
    <3>2. ASSUME NEW ph \in {"left"}, InPhase(ph)
          PROVE  stack' # <<>> /\ Counted(stack', loopDepth, callDepth) /\ ~ActiveLoop(top') /\ top'.kind = top.kind
      <4>1. ph \in Phase
        BY DEF Phase
      <4>2. top.kind \notin {"while", "until", "for"} \/ ph \notin {"cond", "body"}
        BY <1>AndOrLeft DEF AndOrLeft, Running
      <4>3. stack' # <<>> /\ top'.kind = top.kind /\ top'.phase = ph /\ Counted(stack', loopDepth, callDepth)
        BY <4>1, <4>2, <2>0, <2>4, <3>2, <1>a, PhaseKeeps
      <4> QED
        BY <4>2, <4>3 DEF ActiveLoop
    <3> QED
      BY <3>1, <3>2, <2>4
  <2> QED
    BY <2>0, <2>1, <2>2, <2>3, <2>4, <2>5, KeepsIInv DEF IInv, ScalarsOK
<1>AndOrRight. CASE AndOrRight
  <2>0. pc \notin {"idle", "done"} /\ pc' \in {"enter", "step", "leave", "back"}
    BY <1>AndOrRight DEF AndOrRight, Back
  <2>1. pc' \in Control /\ exempt' \in BOOLEAN /\ status' \in Status
    BY <2>0, <1>AndOrRight, <1>a, <1>b, <1>c, <1>d DEF AndOrRight, Back, Control, Inner, Frame
  <2>2. ctl' \in Ctl
    BY <1>AndOrRight, <1>c, ConstantsAssumption DEF AndOrRight, Back, Ctl
  <2>3. /\ errexit' \in BOOLEAN /\ lastStatus' \in Status /\ parseError' \in BOOLEAN
        /\ cmdsub' \in [ran: BOOLEAN, status: Status]
    BY <1>AndOrRight, <1>a, <1>c DEF AndOrRight, Back, ScalarsOK
  <2>4. /\ top.kind \notin Boundary /\ ~ActiveLoop(top)
        /\ UNCHANGED stack \/ \E ph \in {"body"} : InPhase(ph)
        /\ UNCHANGED <<loopDepth, callDepth>>
    BY <1>AndOrRight, <2>0, <1>b DEF AndOrRight, Back, ActiveLoop, Boundary
  <2>5. stack' # <<>> /\ Counted(stack', loopDepth', callDepth') /\ ~ActiveLoop(top') /\ top'.kind \notin Boundary
    <3>1. CASE UNCHANGED stack
      BY <3>1, <2>0, <2>4, <1>a DEF Active, top
    <3>2. ASSUME NEW ph \in {"body"}, InPhase(ph)
          PROVE  stack' # <<>> /\ Counted(stack', loopDepth, callDepth) /\ ~ActiveLoop(top') /\ top'.kind = top.kind
      <4>1. ph \in Phase
        BY DEF Phase
      <4>2. top.kind \notin {"while", "until", "for"} \/ ph \notin {"cond", "body"}
        BY <1>AndOrRight DEF AndOrRight, Back
      <4>3. stack' # <<>> /\ top'.kind = top.kind /\ top'.phase = ph /\ Counted(stack', loopDepth, callDepth)
        BY <4>1, <4>2, <2>0, <2>4, <3>2, <1>a, PhaseKeeps
      <4> QED
        BY <4>2, <4>3 DEF ActiveLoop
    <3> QED
      BY <3>1, <3>2, <2>4
  <2> QED
    BY <2>0, <2>1, <2>2, <2>3, <2>4, <2>5, KeepsIInv DEF IInv, ScalarsOK
<1>IfCond. CASE IfCond
  <2>0. pc \notin {"idle", "done"} /\ pc' \in {"enter", "step", "leave", "back"}
    BY <1>IfCond DEF IfCond, Running, Back
  <2>1. pc' \in Control /\ exempt' \in BOOLEAN /\ status' \in Status
    BY <2>0, <1>IfCond, <1>a, <1>b, <1>c, <1>d DEF IfCond, Running, Back, Control, Inner, Frame
  <2>2. ctl' \in Ctl
    BY <1>IfCond, <1>c, ConstantsAssumption DEF IfCond, Running, Back, Ctl
  <2>3. /\ errexit' \in BOOLEAN /\ lastStatus' \in Status /\ parseError' \in BOOLEAN
        /\ cmdsub' \in [ran: BOOLEAN, status: Status]
    BY <1>IfCond, <1>a, <1>c DEF IfCond, Running, Back, ScalarsOK
  <2>4. /\ top.kind \notin Boundary /\ ~ActiveLoop(top)
        /\ UNCHANGED stack \/ \E ph \in {"cond", "elif"} : InPhase(ph)
        /\ UNCHANGED <<loopDepth, callDepth>>
    BY <1>IfCond, <2>0, <1>b DEF IfCond, Running, Back, ActiveLoop, Boundary
  <2>5. stack' # <<>> /\ Counted(stack', loopDepth', callDepth') /\ ~ActiveLoop(top') /\ top'.kind \notin Boundary
    <3>1. CASE UNCHANGED stack
      BY <3>1, <2>0, <2>4, <1>a DEF Active, top
    <3>2. ASSUME NEW ph \in {"cond", "elif"}, InPhase(ph)
          PROVE  stack' # <<>> /\ Counted(stack', loopDepth, callDepth) /\ ~ActiveLoop(top') /\ top'.kind = top.kind
      <4>1. ph \in Phase
        BY DEF Phase
      <4>2. top.kind \notin {"while", "until", "for"} \/ ph \notin {"cond", "body"}
        BY <1>IfCond DEF IfCond, Running, Back
      <4>3. stack' # <<>> /\ top'.kind = top.kind /\ top'.phase = ph /\ Counted(stack', loopDepth, callDepth)
        BY <4>1, <4>2, <2>0, <2>4, <3>2, <1>a, PhaseKeeps
      <4> QED
        BY <4>2, <4>3 DEF ActiveLoop
    <3> QED
      BY <3>1, <3>2, <2>4
  <2> QED
    BY <2>0, <2>1, <2>2, <2>3, <2>4, <2>5, KeepsIInv DEF IInv, ScalarsOK
<1>IfBody. CASE IfBody
  <2>0. pc \notin {"idle", "done"} /\ pc' \in {"enter", "step", "leave", "back"}
    BY <1>IfBody DEF IfBody, CondEnds
  <2>1. pc' \in Control /\ exempt' \in BOOLEAN /\ status' \in Status
    BY <2>0, <1>IfBody, <1>a, <1>b, <1>c, <1>d DEF IfBody, CondEnds, Control, Inner, Frame
  <2>2. ctl' \in Ctl
    BY <1>IfBody, <1>c, ConstantsAssumption DEF IfBody, CondEnds, Ctl
  <2>3. /\ errexit' \in BOOLEAN /\ lastStatus' \in Status /\ parseError' \in BOOLEAN
        /\ cmdsub' \in [ran: BOOLEAN, status: Status]
    BY <1>IfBody, <1>a, <1>c DEF IfBody, CondEnds, ScalarsOK
  <2>4. /\ top.kind \notin Boundary /\ ~ActiveLoop(top)
        /\ UNCHANGED stack \/ \E ph \in {"body"} : InPhase(ph)
        /\ UNCHANGED <<loopDepth, callDepth>>
    BY <1>IfBody, <2>0, <1>b DEF IfBody, CondEnds, ActiveLoop, Boundary
  <2>5. stack' # <<>> /\ Counted(stack', loopDepth', callDepth') /\ ~ActiveLoop(top') /\ top'.kind \notin Boundary
    <3>1. CASE UNCHANGED stack
      BY <3>1, <2>0, <2>4, <1>a DEF Active, top
    <3>2. ASSUME NEW ph \in {"body"}, InPhase(ph)
          PROVE  stack' # <<>> /\ Counted(stack', loopDepth, callDepth) /\ ~ActiveLoop(top') /\ top'.kind = top.kind
      <4>1. ph \in Phase
        BY DEF Phase
      <4>2. top.kind \notin {"while", "until", "for"} \/ ph \notin {"cond", "body"}
        BY <1>IfBody DEF IfBody, CondEnds
      <4>3. stack' # <<>> /\ top'.kind = top.kind /\ top'.phase = ph /\ Counted(stack', loopDepth, callDepth)
        BY <4>1, <4>2, <2>0, <2>4, <3>2, <1>a, PhaseKeeps
      <4> QED
        BY <4>2, <4>3 DEF ActiveLoop
    <3> QED
      BY <3>1, <3>2, <2>4
  <2> QED
    BY <2>0, <2>1, <2>2, <2>3, <2>4, <2>5, KeepsIInv DEF IInv, ScalarsOK
<1>ForWords. CASE ForWords
  <2>0. pc \notin {"idle", "done"} /\ pc' \in {"enter", "step", "leave", "back"}
    BY <1>ForWords DEF ForWords, Running
  <2>1. pc' \in Control /\ exempt' \in BOOLEAN /\ status' \in Status
    BY <2>0, <1>ForWords, <1>a, <1>b, <1>c, <1>d DEF ForWords, Running, Control, Inner, Frame
  <2>2. ctl' \in Ctl
    BY <1>ForWords, <1>c, ConstantsAssumption DEF ForWords, Running, Ctl
  <2>3. /\ errexit' \in BOOLEAN /\ lastStatus' \in Status /\ parseError' \in BOOLEAN
        /\ cmdsub' \in [ran: BOOLEAN, status: Status]
    BY <1>ForWords, <1>a, <1>c DEF ForWords, Running, ScalarsOK
  <2>4. /\ top.kind \notin Boundary /\ ~ActiveLoop(top)
        /\ UNCHANGED stack \/ \E ph \in {"words"} : InPhase(ph)
        /\ UNCHANGED <<loopDepth, callDepth>>
    BY <1>ForWords, <2>0, <1>b DEF ForWords, Running, ActiveLoop, Boundary
  <2>5. stack' # <<>> /\ Counted(stack', loopDepth', callDepth') /\ ~ActiveLoop(top') /\ top'.kind \notin Boundary
    <3>1. CASE UNCHANGED stack
      BY <3>1, <2>0, <2>4, <1>a DEF Active, top
    <3>2. ASSUME NEW ph \in {"words"}, InPhase(ph)
          PROVE  stack' # <<>> /\ Counted(stack', loopDepth, callDepth) /\ ~ActiveLoop(top') /\ top'.kind = top.kind
      <4>1. ph \in Phase
        BY DEF Phase
      <4>2. top.kind \notin {"while", "until", "for"} \/ ph \notin {"cond", "body"}
        BY <1>ForWords DEF ForWords, Running
      <4>3. stack' # <<>> /\ top'.kind = top.kind /\ top'.phase = ph /\ Counted(stack', loopDepth, callDepth)
        BY <4>1, <4>2, <2>0, <2>4, <3>2, <1>a, PhaseKeeps
      <4> QED
        BY <4>2, <4>3 DEF ActiveLoop
    <3> QED
      BY <3>1, <3>2, <2>4
  <2> QED
    BY <2>0, <2>1, <2>2, <2>3, <2>4, <2>5, KeepsIInv DEF IInv, ScalarsOK
<1>CaseWord. CASE CaseWord
  <2>0. pc \notin {"idle", "done"} /\ pc' \in {"enter", "step", "leave", "back"}
    BY <1>CaseWord DEF CaseWord, Running
  <2>1. pc' \in Control /\ exempt' \in BOOLEAN /\ status' \in Status
    BY <2>0, <1>CaseWord, <1>a, <1>b, <1>c, <1>d DEF CaseWord, Running, Control, Inner, Frame
  <2>2. ctl' \in Ctl
    BY <1>CaseWord, <1>c, ConstantsAssumption DEF CaseWord, Running, Ctl
  <2>3. /\ errexit' \in BOOLEAN /\ lastStatus' \in Status /\ parseError' \in BOOLEAN
        /\ cmdsub' \in [ran: BOOLEAN, status: Status]
    BY <1>CaseWord, <1>a, <1>c DEF CaseWord, Running, ScalarsOK
  <2>4. /\ top.kind \notin Boundary /\ ~ActiveLoop(top)
        /\ UNCHANGED stack \/ \E ph \in {"words"} : InPhase(ph)
        /\ UNCHANGED <<loopDepth, callDepth>>
    BY <1>CaseWord, <2>0, <1>b DEF CaseWord, Running, ActiveLoop, Boundary
  <2>5. stack' # <<>> /\ Counted(stack', loopDepth', callDepth') /\ ~ActiveLoop(top') /\ top'.kind \notin Boundary
    <3>1. CASE UNCHANGED stack
      BY <3>1, <2>0, <2>4, <1>a DEF Active, top
    <3>2. ASSUME NEW ph \in {"words"}, InPhase(ph)
          PROVE  stack' # <<>> /\ Counted(stack', loopDepth, callDepth) /\ ~ActiveLoop(top') /\ top'.kind = top.kind
      <4>1. ph \in Phase
        BY DEF Phase
      <4>2. top.kind \notin {"while", "until", "for"} \/ ph \notin {"cond", "body"}
        BY <1>CaseWord DEF CaseWord, Running
      <4>3. stack' # <<>> /\ top'.kind = top.kind /\ top'.phase = ph /\ Counted(stack', loopDepth, callDepth)
        BY <4>1, <4>2, <2>0, <2>4, <3>2, <1>a, PhaseKeeps
      <4> QED
        BY <4>2, <4>3 DEF ActiveLoop
    <3> QED
      BY <3>1, <3>2, <2>4
  <2> QED
    BY <2>0, <2>1, <2>2, <2>3, <2>4, <2>5, KeepsIInv DEF IInv, ScalarsOK
<1>CaseMatch. CASE CaseMatch
  <2>0. pc \notin {"idle", "done"} /\ pc' \in {"enter", "step", "leave", "back"}
    BY <1>CaseMatch DEF CaseMatch, Expanded
  <2>1. pc' \in Control /\ exempt' \in BOOLEAN /\ status' \in Status
    BY <2>0, <1>CaseMatch, <1>a, <1>b, <1>c, <1>d DEF CaseMatch, Expanded, Control, Inner, Frame
  <2>2. ctl' \in Ctl
    BY <1>CaseMatch, <1>c, ConstantsAssumption DEF CaseMatch, Expanded, Ctl
  <2>3. /\ errexit' \in BOOLEAN /\ lastStatus' \in Status /\ parseError' \in BOOLEAN
        /\ cmdsub' \in [ran: BOOLEAN, status: Status]
    BY <1>CaseMatch, <1>a, <1>c DEF CaseMatch, Expanded, ScalarsOK
  <2>4. /\ top.kind \notin Boundary /\ ~ActiveLoop(top)
        /\ UNCHANGED stack \/ \E ph \in {"body"} : InPhase(ph)
        /\ UNCHANGED <<loopDepth, callDepth>>
    BY <1>CaseMatch, <2>0, <1>b DEF CaseMatch, Expanded, ActiveLoop, Boundary
  <2>5. stack' # <<>> /\ Counted(stack', loopDepth', callDepth') /\ ~ActiveLoop(top') /\ top'.kind \notin Boundary
    <3>1. CASE UNCHANGED stack
      BY <3>1, <2>0, <2>4, <1>a DEF Active, top
    <3>2. ASSUME NEW ph \in {"body"}, InPhase(ph)
          PROVE  stack' # <<>> /\ Counted(stack', loopDepth, callDepth) /\ ~ActiveLoop(top') /\ top'.kind = top.kind
      <4>1. ph \in Phase
        BY DEF Phase
      <4>2. top.kind \notin {"while", "until", "for"} \/ ph \notin {"cond", "body"}
        BY <1>CaseMatch DEF CaseMatch, Expanded
      <4>3. stack' # <<>> /\ top'.kind = top.kind /\ top'.phase = ph /\ Counted(stack', loopDepth, callDepth)
        BY <4>1, <4>2, <2>0, <2>4, <3>2, <1>a, PhaseKeeps
      <4> QED
        BY <4>2, <4>3 DEF ActiveLoop
    <3> QED
      BY <3>1, <3>2, <2>4
  <2> QED
    BY <2>0, <2>1, <2>2, <2>3, <2>4, <2>5, KeepsIInv DEF IInv, ScalarsOK
<1>GroupStart. CASE GroupStart
  <2>0. pc \notin {"idle", "done"} /\ pc' \in {"enter", "step", "leave", "back"}
    BY <1>GroupStart DEF GroupStart, Running
  <2>1. pc' \in Control /\ exempt' \in BOOLEAN /\ status' \in Status
    BY <2>0, <1>GroupStart, <1>a, <1>b, <1>c, <1>d DEF GroupStart, Running, Control, Inner, Frame
  <2>2. ctl' \in Ctl
    BY <1>GroupStart, <1>c, ConstantsAssumption DEF GroupStart, Running, Ctl
  <2>3. /\ errexit' \in BOOLEAN /\ lastStatus' \in Status /\ parseError' \in BOOLEAN
        /\ cmdsub' \in [ran: BOOLEAN, status: Status]
    BY <1>GroupStart, <1>a, <1>c DEF GroupStart, Running, ScalarsOK
  <2>4. /\ top.kind \notin Boundary /\ ~ActiveLoop(top)
        /\ UNCHANGED stack \/ \E ph \in {"body"} : InPhase(ph)
        /\ UNCHANGED <<loopDepth, callDepth>>
    BY <1>GroupStart, <2>0, <1>b DEF GroupStart, Running, ActiveLoop, Boundary
  <2>5. stack' # <<>> /\ Counted(stack', loopDepth', callDepth') /\ ~ActiveLoop(top') /\ top'.kind \notin Boundary
    <3>1. CASE UNCHANGED stack
      BY <3>1, <2>0, <2>4, <1>a DEF Active, top
    <3>2. ASSUME NEW ph \in {"body"}, InPhase(ph)
          PROVE  stack' # <<>> /\ Counted(stack', loopDepth, callDepth) /\ ~ActiveLoop(top') /\ top'.kind = top.kind
      <4>1. ph \in Phase
        BY DEF Phase
      <4>2. top.kind \notin {"while", "until", "for"} \/ ph \notin {"cond", "body"}
        BY <1>GroupStart DEF GroupStart, Running
      <4>3. stack' # <<>> /\ top'.kind = top.kind /\ top'.phase = ph /\ Counted(stack', loopDepth, callDepth)
        BY <4>1, <4>2, <2>0, <2>4, <3>2, <1>a, PhaseKeeps
      <4> QED
        BY <4>2, <4>3 DEF ActiveLoop
    <3> QED
      BY <3>1, <3>2, <2>4
  <2> QED
    BY <2>0, <2>1, <2>2, <2>3, <2>4, <2>5, KeepsIInv DEF IInv, ScalarsOK
<1>ExpandFatal. CASE ExpandFatal
  <2>0. pc \notin {"idle", "done"} /\ pc' \in {"enter", "step", "leave", "back"}
    BY <1>ExpandFatal DEF ExpandFatal, Expanding
  <2>1. pc' \in Control /\ exempt' \in BOOLEAN /\ status' \in Status
    BY <2>0, <1>ExpandFatal, <1>a, <1>b, <1>c, <1>d DEF ExpandFatal, Expanding, Control, Inner, Frame, ScalarsOK
  <2>2. ctl' \in Ctl
    BY <1>ExpandFatal, <1>c, ConstantsAssumption DEF ExpandFatal, Expanding, Ctl
  <2>3. /\ errexit' \in BOOLEAN /\ lastStatus' \in Status /\ parseError' \in BOOLEAN
        /\ cmdsub' \in [ran: BOOLEAN, status: Status]
    BY <1>ExpandFatal, <1>a, <1>c DEF ExpandFatal, Expanding, ScalarsOK
  <2>4. /\ top.kind \notin Boundary /\ ~ActiveLoop(top)
        /\ UNCHANGED stack \/ \E ph \in {"worded", "assigned", "noarged", "pured", "bared", "redired"} : InPhase(ph)
        /\ UNCHANGED <<loopDepth, callDepth>>
    BY <1>ExpandFatal, <2>0, <1>b DEF ExpandFatal, Expanding, ActiveLoop, Boundary, After
  <2>5. stack' # <<>> /\ Counted(stack', loopDepth', callDepth') /\ ~ActiveLoop(top') /\ top'.kind \notin Boundary
    <3>1. CASE UNCHANGED stack
      BY <3>1, <2>0, <2>4, <1>a DEF Active, top
    <3>2. ASSUME NEW ph \in {"worded", "assigned", "noarged", "pured", "bared", "redired"}, InPhase(ph)
          PROVE  stack' # <<>> /\ Counted(stack', loopDepth, callDepth) /\ ~ActiveLoop(top') /\ top'.kind = top.kind
      <4>1. ph \in Phase
        BY DEF Phase
      <4>2. top.kind \notin {"while", "until", "for"} \/ ph \notin {"cond", "body"}
        BY <1>ExpandFatal DEF ExpandFatal, Expanding
      <4>3. stack' # <<>> /\ top'.kind = top.kind /\ top'.phase = ph /\ Counted(stack', loopDepth, callDepth)
        BY <4>1, <4>2, <2>0, <2>4, <3>2, <1>a, PhaseKeeps
      <4> QED
        BY <4>2, <4>3 DEF ActiveLoop
    <3> QED
      BY <3>1, <3>2, <2>4
  <2> QED
    BY <2>0, <2>1, <2>2, <2>3, <2>4, <2>5, KeepsIInv DEF IInv, ScalarsOK
<1>SubstRedirFails. CASE SubstRedirFails
  <2>0. pc \notin {"idle", "done"} /\ pc' \in {"enter", "step", "leave", "back"}
    BY <1>SubstRedirFails DEF SubstRedirFails, Expanding
  <2>1. pc' \in Control /\ exempt' \in BOOLEAN /\ status' \in Status
    BY <2>0, <1>SubstRedirFails, <1>a, <1>b, <1>c, <1>d DEF SubstRedirFails, Expanding, Control, Inner, Frame, ScalarsOK
  <2>2. ctl' \in Ctl
    BY <1>SubstRedirFails, <1>c, ConstantsAssumption DEF SubstRedirFails, Expanding, Ctl
  <2>3. /\ errexit' \in BOOLEAN /\ lastStatus' \in Status /\ parseError' \in BOOLEAN
        /\ cmdsub' \in [ran: BOOLEAN, status: Status]
    BY <1>SubstRedirFails, <1>a, <1>c DEF SubstRedirFails, Expanding, ScalarsOK
  <2>4. /\ top.kind \notin Boundary /\ ~ActiveLoop(top)
        /\ UNCHANGED stack \/ \E ph \in {"worded", "assigned", "noarged", "pured", "bared", "redired"} : InPhase(ph)
        /\ UNCHANGED <<loopDepth, callDepth>>
    BY <1>SubstRedirFails, <2>0, <1>b DEF SubstRedirFails, Expanding, ActiveLoop, Boundary, After
  <2>5. stack' # <<>> /\ Counted(stack', loopDepth', callDepth') /\ ~ActiveLoop(top') /\ top'.kind \notin Boundary
    <3>1. CASE UNCHANGED stack
      BY <3>1, <2>0, <2>4, <1>a DEF Active, top
    <3>2. ASSUME NEW ph \in {"worded", "assigned", "noarged", "pured", "bared", "redired"}, InPhase(ph)
          PROVE  stack' # <<>> /\ Counted(stack', loopDepth, callDepth) /\ ~ActiveLoop(top') /\ top'.kind = top.kind
      <4>1. ph \in Phase
        BY DEF Phase
      <4>2. top.kind \notin {"while", "until", "for"} \/ ph \notin {"cond", "body"}
        BY <1>SubstRedirFails DEF SubstRedirFails, Expanding
      <4>3. stack' # <<>> /\ top'.kind = top.kind /\ top'.phase = ph /\ Counted(stack', loopDepth, callDepth)
        BY <4>1, <4>2, <2>0, <2>4, <3>2, <1>a, PhaseKeeps
      <4> QED
        BY <4>2, <4>3 DEF ActiveLoop
    <3> QED
      BY <3>1, <3>2, <2>4
  <2> QED
    BY <2>0, <2>1, <2>2, <2>3, <2>4, <2>5, KeepsIInv DEF IInv, ScalarsOK
<1>SimpleWords. CASE SimpleWords
  <2>0. pc \notin {"idle", "done"} /\ pc' \in {"enter", "step", "leave", "back"}
    BY <1>SimpleWords DEF SimpleWords, Expanded
  <2>1. pc' \in Control /\ exempt' \in BOOLEAN /\ status' \in Status
    BY <2>0, <1>SimpleWords, <1>a, <1>b, <1>c, <1>d DEF SimpleWords, Expanded, Control, Inner, Frame
  <2>2. ctl' \in Ctl
    BY <1>SimpleWords, <1>c, ConstantsAssumption DEF SimpleWords, Expanded, Ctl
  <2>3. /\ errexit' \in BOOLEAN /\ lastStatus' \in Status /\ parseError' \in BOOLEAN
        /\ cmdsub' \in [ran: BOOLEAN, status: Status]
    BY <1>SimpleWords, <1>a, <1>c DEF SimpleWords, Expanded, ScalarsOK
  <2>4. /\ top.kind \notin Boundary \cup {"while", "until", "for"}
        /\ UNCHANGED stack \/ Become([top EXCEPT !.phase = "noargs", !.acc = SubstStatus]) \/ \E ph \in {"start", "assign", "redir"} : Become([top EXCEPT !.phase = ph])
        /\ UNCHANGED <<loopDepth, callDepth>>
    BY <1>SimpleWords, <2>0, <1>b DEF SimpleWords, Expanded, Boundary, InPhase
  <2>5. stack' # <<>> /\ Counted(stack', loopDepth', callDepth') /\ ~ActiveLoop(top') /\ top'.kind \notin Boundary
    <3>1. CASE UNCHANGED stack
      BY <3>1, <2>0, <2>4, <1>a DEF Active, top, ActiveLoop
    <3>2. ASSUME NEW f, Become(f), f \in Frame, f.kind = top.kind
          PROVE  stack' # <<>> /\ Counted(stack', loopDepth, callDepth) /\ ~ActiveLoop(top') /\ top'.kind \notin Boundary
      BY <3>2, <2>0, <2>4, <1>a, BecomeKeeps
    <3>3. [top EXCEPT !.phase = "noargs", !.acc = SubstStatus] \in Frame /\ [top EXCEPT !.phase = "noargs", !.acc = SubstStatus].kind = top.kind
      BY <2>0, <1>a, <1>b, <1>c DEF Frame, Phase, ScalarsOK
    <3>4. \A ph \in {"start", "assign", "redir"} :
            [top EXCEPT !.phase = ph] \in Frame /\ [top EXCEPT !.phase = ph].kind = top.kind
      BY <2>0, <1>b DEF Frame, Phase
    <3> QED
      BY <3>1, <3>2, <3>3, <3>4, <2>4
  <2> QED
    BY <2>0, <2>1, <2>2, <2>3, <2>4, <2>5, KeepsIInv DEF IInv, ScalarsOK
<1>SubshellStart. CASE SubshellStart
  <2>0. pc \notin {"idle", "done"} /\ pc' \in {"enter", "step", "leave", "back"}
    BY <1>SubshellStart DEF SubshellStart, Running
  <2>1. pc' \in Control /\ exempt' \in BOOLEAN /\ status' \in Status
    BY <2>0, <1>SubshellStart, <1>a, <1>b, <1>c, <1>d DEF SubshellStart, Running, Control, Inner, Frame
  <2>2. ctl' \in Ctl
    BY <1>SubshellStart, <1>c, ConstantsAssumption DEF SubshellStart, Running, Ctl
  <2>3. /\ errexit' \in BOOLEAN /\ lastStatus' \in Status /\ parseError' \in BOOLEAN
        /\ cmdsub' \in [ran: BOOLEAN, status: Status]
    BY <1>SubshellStart, <1>a, <1>c DEF SubshellStart, Running, ScalarsOK
  <2>4. /\ top.kind \notin Boundary \cup {"while", "until", "for"}
        /\ UNCHANGED stack \/ Become([top EXCEPT !.phase = "body", !.saved = ctl, !.ee = errexit])
        /\ UNCHANGED <<loopDepth, callDepth>>
    BY <1>SubshellStart, <2>0, <1>b DEF SubshellStart, Running, Boundary
  <2>5. stack' # <<>> /\ Counted(stack', loopDepth', callDepth') /\ ~ActiveLoop(top') /\ top'.kind \notin Boundary
    <3>1. CASE UNCHANGED stack
      BY <3>1, <2>0, <2>4, <1>a DEF Active, top, ActiveLoop
    <3>2. ASSUME NEW f, Become(f), f \in Frame, f.kind = top.kind
          PROVE  stack' # <<>> /\ Counted(stack', loopDepth, callDepth) /\ ~ActiveLoop(top') /\ top'.kind \notin Boundary
      BY <3>2, <2>0, <2>4, <1>a, BecomeKeeps
    <3>3. [top EXCEPT !.phase = "body", !.saved = ctl, !.ee = errexit] \in Frame /\ [top EXCEPT !.phase = "body", !.saved = ctl, !.ee = errexit].kind = top.kind
      BY <2>0, <1>a, <1>b, <1>c DEF Frame, Phase, ScalarsOK
    <3> QED
      BY <3>1, <3>2, <3>3, <2>4
  <2> QED
    BY <2>0, <2>1, <2>2, <2>3, <2>4, <2>5, KeepsIInv DEF IInv, ScalarsOK
<1>PipeStart. CASE PipeStart
  <2>0. pc \notin {"idle", "done"} /\ pc' \in {"enter", "step", "leave", "back"}
    BY <1>PipeStart DEF PipeStart, Running, PipeStage
  <2>1. pc' \in Control /\ exempt' \in BOOLEAN /\ status' \in Status
    BY <2>0, <1>PipeStart, <1>a, <1>b, <1>c, <1>d DEF PipeStart, Running, PipeStage, Control, Inner, Frame
  <2>2. ctl' \in Ctl
    BY <1>PipeStart, <1>c, ConstantsAssumption DEF PipeStart, Running, PipeStage, Ctl
  <2>3. /\ errexit' \in BOOLEAN /\ lastStatus' \in Status /\ parseError' \in BOOLEAN
        /\ cmdsub' \in [ran: BOOLEAN, status: Status]
    BY <1>PipeStart, <1>a, <1>c DEF PipeStart, Running, PipeStage, ScalarsOK
  <2>4. /\ top.kind \notin Boundary \cup {"while", "until", "for"}
        /\ UNCHANGED stack \/ Become([top EXCEPT !.phase = "first", !.saved = ctl])
        /\ UNCHANGED <<loopDepth, callDepth>>
    BY <1>PipeStart, <2>0, <1>b DEF PipeStart, Running, PipeStage, Boundary
  <2>5. stack' # <<>> /\ Counted(stack', loopDepth', callDepth') /\ ~ActiveLoop(top') /\ top'.kind \notin Boundary
    <3>1. CASE UNCHANGED stack
      BY <3>1, <2>0, <2>4, <1>a DEF Active, top, ActiveLoop
    <3>2. ASSUME NEW f, Become(f), f \in Frame, f.kind = top.kind
          PROVE  stack' # <<>> /\ Counted(stack', loopDepth, callDepth) /\ ~ActiveLoop(top') /\ top'.kind \notin Boundary
      BY <3>2, <2>0, <2>4, <1>a, BecomeKeeps
    <3>3. [top EXCEPT !.phase = "first", !.saved = ctl] \in Frame /\ [top EXCEPT !.phase = "first", !.saved = ctl].kind = top.kind
      BY <2>0, <1>a, <1>b, <1>c DEF Frame, Phase, ScalarsOK
    <3> QED
      BY <3>1, <3>2, <3>3, <2>4
  <2> QED
    BY <2>0, <2>1, <2>2, <2>3, <2>4, <2>5, KeepsIInv DEF IInv, ScalarsOK
<1>PipeNext. CASE PipeNext
  <2>0. pc \notin {"idle", "done"} /\ pc' \in {"enter", "step", "leave", "back"}
    BY <1>PipeNext DEF PipeNext, Running, PipeStage
  <2>1. pc' \in Control /\ exempt' \in BOOLEAN /\ status' \in Status
    BY <2>0, <1>PipeNext, <1>a, <1>b, <1>c, <1>d DEF PipeNext, Running, PipeStage, Control, Inner, Frame
  <2>2. ctl' \in Ctl
    BY <1>PipeNext, <1>c, ConstantsAssumption DEF PipeNext, Running, PipeStage, Ctl
  <2>3. /\ errexit' \in BOOLEAN /\ lastStatus' \in Status /\ parseError' \in BOOLEAN
        /\ cmdsub' \in [ran: BOOLEAN, status: Status]
    BY <1>PipeNext, <1>a, <1>c DEF PipeNext, Running, PipeStage, ScalarsOK
  <2>4. /\ top.kind \notin Boundary \cup {"while", "until", "for"}
        /\ UNCHANGED stack \/ Become([top EXCEPT !.phase = "later", !.saved = ctl])
        /\ UNCHANGED <<loopDepth, callDepth>>
    BY <1>PipeNext, <2>0, <1>b DEF PipeNext, Running, PipeStage, Boundary
  <2>5. stack' # <<>> /\ Counted(stack', loopDepth', callDepth') /\ ~ActiveLoop(top') /\ top'.kind \notin Boundary
    <3>1. CASE UNCHANGED stack
      BY <3>1, <2>0, <2>4, <1>a DEF Active, top, ActiveLoop
    <3>2. ASSUME NEW f, Become(f), f \in Frame, f.kind = top.kind
          PROVE  stack' # <<>> /\ Counted(stack', loopDepth, callDepth) /\ ~ActiveLoop(top') /\ top'.kind \notin Boundary
      BY <3>2, <2>0, <2>4, <1>a, BecomeKeeps
    <3>3. [top EXCEPT !.phase = "later", !.saved = ctl] \in Frame /\ [top EXCEPT !.phase = "later", !.saved = ctl].kind = top.kind
      BY <2>0, <1>a, <1>b, <1>c DEF Frame, Phase, ScalarsOK
    <3> QED
      BY <3>1, <3>2, <3>3, <2>4
  <2> QED
    BY <2>0, <2>1, <2>2, <2>3, <2>4, <2>5, KeepsIInv DEF IInv, ScalarsOK
<1>StageEnds. CASE StageEnds
  <2>0. pc \notin {"idle", "done"} /\ pc' \in {"enter", "step", "leave", "back"}
    BY <1>StageEnds DEF StageEnds
  <2>1. pc' \in Control /\ exempt' \in BOOLEAN /\ status' \in Status
    BY <2>0, <1>StageEnds, <1>a, <1>b, <1>c, <1>d DEF StageEnds, Control, Inner, Frame
  <2>2. ctl' \in Ctl
    BY <1>StageEnds, <2>0, <1>b DEF StageEnds, Frame
  <2>3. /\ errexit' \in BOOLEAN /\ lastStatus' \in Status /\ parseError' \in BOOLEAN
        /\ cmdsub' \in [ran: BOOLEAN, status: Status]
    BY <1>StageEnds, <1>a, <1>c DEF StageEnds, ScalarsOK
  <2>4. /\ top.kind \notin Boundary \cup {"while", "until", "for"}
        /\ UNCHANGED stack \/ Become([top EXCEPT !.phase = "later"])
        /\ UNCHANGED <<loopDepth, callDepth>>
    BY <1>StageEnds, <2>0, <1>b DEF StageEnds, Boundary
  <2>5. stack' # <<>> /\ Counted(stack', loopDepth', callDepth') /\ ~ActiveLoop(top') /\ top'.kind \notin Boundary
    <3>1. CASE UNCHANGED stack
      BY <3>1, <2>0, <2>4, <1>a DEF Active, top, ActiveLoop
    <3>2. ASSUME NEW f, Become(f), f \in Frame, f.kind = top.kind
          PROVE  stack' # <<>> /\ Counted(stack', loopDepth, callDepth) /\ ~ActiveLoop(top') /\ top'.kind \notin Boundary
      BY <3>2, <2>0, <2>4, <1>a, BecomeKeeps
    <3>3. [top EXCEPT !.phase = "later"] \in Frame /\ [top EXCEPT !.phase = "later"].kind = top.kind
      BY <2>0, <1>a, <1>b, <1>c DEF Frame, Phase, ScalarsOK
    <3> QED
      BY <3>1, <3>2, <3>3, <2>4
  <2> QED
    BY <2>0, <2>1, <2>2, <2>3, <2>4, <2>5, KeepsIInv DEF IInv, ScalarsOK
<1>WhileStart. CASE WhileStart
  <2>0. pc \notin {"idle", "done"} /\ pc' \in {"enter", "step", "leave", "back"}
    BY <1>WhileStart DEF WhileStart, CondLoop
  <2>1. pc' \in Control /\ exempt' \in BOOLEAN /\ status' \in Status
    BY <2>0, <1>WhileStart, <1>a, <1>b, <1>c, <1>d DEF WhileStart, CondLoop, Control, Inner, Frame
  <2>2. ctl' \in Ctl
    BY <1>WhileStart, <1>c, <1>a, StatusFacts DEF WhileStart, CondLoop
  <2>3. /\ errexit' \in BOOLEAN /\ lastStatus' \in Status /\ parseError' \in BOOLEAN
        /\ cmdsub' \in [ran: BOOLEAN, status: Status]
    BY <1>WhileStart, <1>a, <1>c DEF WhileStart, CondLoop, ScalarsOK
  <2>4. /\ top.kind \in {"while", "until", "for"} /\ ~ActiveLoop(top)
        /\ callDepth' = callDepth
        /\ \/ (UNCHANGED <<stack, loopDepth>>)
           \/ (pc' = "enter" /\ InPhase("cond") /\ loopDepth' = loopDepth + 1)
    BY <1>WhileStart DEF WhileStart, CondLoop, ActiveLoop
  <2>5. /\ stack' # <<>> /\ Counted(stack', loopDepth', callDepth')
        /\ pc' = "leave" => ~ActiveLoop(top') /\ top'.kind \notin Boundary
    <3>1. CASE UNCHANGED <<stack, loopDepth>>
      BY <3>1, <2>0, <2>4, <1>a DEF Active, top, ActiveLoop, Boundary
    <3>2. CASE pc' = "enter" /\ InPhase("cond") /\ loopDepth' = loopDepth + 1
      BY <3>2, <2>0, <2>4, <1>a, LoopPhases
    <3> QED
      BY <3>1, <3>2, <2>4
  <2> QED
    BY <2>0, <2>1, <2>2, <2>3, <2>4, <2>5, KeepsIInv DEF IInv, ScalarsOK
<1>WhileCondStops. CASE WhileCondStops
  <2>0. pc \notin {"idle", "done"} /\ pc' \in {"enter", "step", "leave", "back"}
    BY <1>WhileCondStops DEF WhileCondStops, CondLoop, LoopEnds
  <2>1. pc' \in Control /\ exempt' \in BOOLEAN /\ status' \in Status
    BY <2>0, <1>WhileCondStops, <1>a, <1>b, <1>c, <1>d DEF WhileCondStops, CondLoop, LoopEnds, Control, Inner, Frame
  <2>2. ctl' \in Ctl
    BY <1>WhileCondStops, <1>c, <1>a, StatusFacts DEF WhileCondStops, CondLoop, LoopEnds
  <2>3. /\ errexit' \in BOOLEAN /\ lastStatus' \in Status /\ parseError' \in BOOLEAN
        /\ cmdsub' \in [ran: BOOLEAN, status: Status]
    BY <1>WhileCondStops, <1>a, <1>c DEF WhileCondStops, CondLoop, LoopEnds, ScalarsOK
  <2>4. /\ top.kind \in {"while", "until", "for"} /\ ActiveLoop(top)
        /\ callDepth' = callDepth
        /\ \/ (InPhase("ended") /\ loopDepth' = loopDepth - 1)
    BY <1>WhileCondStops DEF WhileCondStops, CondLoop, LoopEnds, ActiveLoop
  <2>5. /\ stack' # <<>> /\ Counted(stack', loopDepth', callDepth')
        /\ pc' = "leave" => ~ActiveLoop(top') /\ top'.kind \notin Boundary
    <3>1. CASE InPhase("ended") /\ loopDepth' = loopDepth - 1
      BY <3>1, <2>0, <2>4, <1>a, LoopPhases
    <3> QED
      BY <3>1, <2>4
  <2> QED
    BY <2>0, <2>1, <2>2, <2>3, <2>4, <2>5, KeepsIInv DEF IInv, ScalarsOK
<1>WhileTest. CASE WhileTest
  <2>0. pc \notin {"idle", "done"} /\ pc' \in {"enter", "step", "leave", "back"}
    BY <1>WhileTest DEF WhileTest, CondLoop, LoopEnds
  <2>1. pc' \in Control /\ exempt' \in BOOLEAN /\ status' \in Status
    BY <2>0, <1>WhileTest, <1>a, <1>b, <1>c, <1>d DEF WhileTest, CondLoop, LoopEnds, Control, Inner, Frame
  <2>2. ctl' \in Ctl
    BY <1>WhileTest, <1>c, <1>a, StatusFacts DEF WhileTest, CondLoop, LoopEnds
  <2>3. /\ errexit' \in BOOLEAN /\ lastStatus' \in Status /\ parseError' \in BOOLEAN
        /\ cmdsub' \in [ran: BOOLEAN, status: Status]
    BY <1>WhileTest, <1>a, <1>c DEF WhileTest, CondLoop, LoopEnds, ScalarsOK
  <2>4. /\ top.kind \in {"while", "until", "for"} /\ ActiveLoop(top)
        /\ callDepth' = callDepth
        /\ \/ (InPhase("ended") /\ loopDepth' = loopDepth - 1)
           \/ (pc' = "enter" /\ InPhase("body") /\ loopDepth' = loopDepth)
    BY <1>WhileTest DEF WhileTest, CondLoop, LoopEnds, ActiveLoop
  <2>5. /\ stack' # <<>> /\ Counted(stack', loopDepth', callDepth')
        /\ pc' = "leave" => ~ActiveLoop(top') /\ top'.kind \notin Boundary
    <3>1. CASE InPhase("ended") /\ loopDepth' = loopDepth - 1
      BY <3>1, <2>0, <2>4, <1>a, LoopPhases
    <3>2. CASE pc' = "enter" /\ InPhase("body") /\ loopDepth' = loopDepth
      BY <3>2, <2>0, <2>4, <1>a, LoopPhases
    <3> QED
      BY <3>1, <3>2, <2>4
  <2> QED
    BY <2>0, <2>1, <2>2, <2>3, <2>4, <2>5, KeepsIInv DEF IInv, ScalarsOK
<1>WhileBodyEnds. CASE WhileBodyEnds
  <2>0. pc \notin {"idle", "done"} /\ pc' \in {"enter", "step", "leave", "back"}
    BY <1>WhileBodyEnds DEF WhileBodyEnds, CondLoop, LoopEnds
  <2>1. pc' \in Control /\ exempt' \in BOOLEAN /\ status' \in Status
    BY <2>0, <1>WhileBodyEnds, <1>a, <1>b, <1>c, <1>d DEF WhileBodyEnds, CondLoop, LoopEnds, Control, Inner, Frame
  <2>2. ctl' \in Ctl
    BY <1>WhileBodyEnds, <1>c, <1>a, StatusFacts DEF WhileBodyEnds, CondLoop, LoopEnds
  <2>3. /\ errexit' \in BOOLEAN /\ lastStatus' \in Status /\ parseError' \in BOOLEAN
        /\ cmdsub' \in [ran: BOOLEAN, status: Status]
    BY <1>WhileBodyEnds, <1>a, <1>c DEF WhileBodyEnds, CondLoop, LoopEnds, ScalarsOK
  <2>4. /\ top.kind \in {"while", "until", "for"} /\ ActiveLoop(top)
        /\ callDepth' = callDepth
        /\ \/ (InPhase("ended") /\ loopDepth' = loopDepth - 1)
           \/ (pc' = "enter" /\ Become([top EXCEPT !.phase = "cond", !.acc = status]) /\ loopDepth' = loopDepth)
    BY <1>WhileBodyEnds DEF WhileBodyEnds, CondLoop, LoopEnds, ActiveLoop
  <2>5. /\ stack' # <<>> /\ Counted(stack', loopDepth', callDepth')
        /\ pc' = "leave" => ~ActiveLoop(top') /\ top'.kind \notin Boundary
    <3>1. CASE InPhase("ended") /\ loopDepth' = loopDepth - 1
      BY <3>1, <2>0, <2>4, <1>a, LoopPhases
    <3>2. CASE pc' = "enter" /\ Become([top EXCEPT !.phase = "cond", !.acc = status]) /\ loopDepth' = loopDepth
      <4>1. [top EXCEPT !.phase = "cond", !.acc = status] \in Frame
        BY <2>0, <1>b, <1>c DEF Frame, Phase
      <4>2. [top EXCEPT !.phase = "cond", !.acc = status].kind = top.kind
        BY <2>0, <1>b DEF Frame
      <4>3. ActiveLoop([top EXCEPT !.phase = "cond", !.acc = status]) = ActiveLoop(top)
        BY <2>0, <2>4, <1>b DEF ActiveLoop, Frame
      <4>4. top.kind \notin Boundary
        BY <2>4 DEF Boundary
      <4> QED
        BY <3>2, <4>1, <4>2, <4>3, <4>4, <2>0, <2>4, <1>a, BecomeCounts
    <3> QED
      BY <3>1, <3>2, <2>4
  <2> QED
    BY <2>0, <2>1, <2>2, <2>3, <2>4, <2>5, KeepsIInv DEF IInv, ScalarsOK
<1>ForStart. CASE ForStart
  <2>0. pc \notin {"idle", "done"} /\ pc' \in {"enter", "step", "leave", "back"}
    BY <1>ForStart DEF ForStart, Expanded, After
  <2>1. pc' \in Control /\ exempt' \in BOOLEAN /\ status' \in Status
    BY <2>0, <1>ForStart, <1>a, <1>b, <1>c, <1>d DEF ForStart, Expanded, After, Control, Inner, Frame
  <2>2. ctl' \in Ctl
    BY <1>ForStart, <1>c, <1>a, StatusFacts DEF ForStart, Expanded, After
  <2>3. /\ errexit' \in BOOLEAN /\ lastStatus' \in Status /\ parseError' \in BOOLEAN
        /\ cmdsub' \in [ran: BOOLEAN, status: Status]
    BY <1>ForStart, <1>a, <1>c DEF ForStart, Expanded, After, ScalarsOK
  <2>4. /\ top.kind \in {"while", "until", "for"} /\ ~ActiveLoop(top)
        /\ callDepth' = callDepth
        /\ \/ (UNCHANGED <<stack, loopDepth>>)
           \/ (pc' = "enter" /\ InPhase("body") /\ loopDepth' = loopDepth + 1)
    BY <1>ForStart DEF ForStart, Expanded, After, ActiveLoop
  <2>5. /\ stack' # <<>> /\ Counted(stack', loopDepth', callDepth')
        /\ pc' = "leave" => ~ActiveLoop(top') /\ top'.kind \notin Boundary
    <3>1. CASE UNCHANGED <<stack, loopDepth>>
      BY <3>1, <2>0, <2>4, <1>a DEF Active, top, ActiveLoop, Boundary
    <3>2. CASE pc' = "enter" /\ InPhase("body") /\ loopDepth' = loopDepth + 1
      BY <3>2, <2>0, <2>4, <1>a, LoopPhases
    <3> QED
      BY <3>1, <3>2, <2>4
  <2> QED
    BY <2>0, <2>1, <2>2, <2>3, <2>4, <2>5, KeepsIInv DEF IInv, ScalarsOK
<1>ForBodyEnds. CASE ForBodyEnds
  <2>0. pc \notin {"idle", "done"} /\ pc' \in {"enter", "step", "leave", "back"}
    BY <1>ForBodyEnds DEF ForBodyEnds, Back, LoopEnds
  <2>1. pc' \in Control /\ exempt' \in BOOLEAN /\ status' \in Status
    BY <2>0, <1>ForBodyEnds, <1>a, <1>b, <1>c, <1>d DEF ForBodyEnds, Back, LoopEnds, Control, Inner, Frame
  <2>2. ctl' \in Ctl
    BY <1>ForBodyEnds, <1>c, <1>a, StatusFacts DEF ForBodyEnds, Back, LoopEnds
  <2>3. /\ errexit' \in BOOLEAN /\ lastStatus' \in Status /\ parseError' \in BOOLEAN
        /\ cmdsub' \in [ran: BOOLEAN, status: Status]
    BY <1>ForBodyEnds, <1>a, <1>c DEF ForBodyEnds, Back, LoopEnds, ScalarsOK
  <2>4. /\ top.kind \in {"while", "until", "for"} /\ ActiveLoop(top)
        /\ callDepth' = callDepth
        /\ \/ (InPhase("ended") /\ loopDepth' = loopDepth - 1)
           \/ (pc' = "enter" /\ UNCHANGED <<stack, loopDepth>>)
    BY <1>ForBodyEnds DEF ForBodyEnds, Back, LoopEnds, ActiveLoop
  <2>5. /\ stack' # <<>> /\ Counted(stack', loopDepth', callDepth')
        /\ pc' = "leave" => ~ActiveLoop(top') /\ top'.kind \notin Boundary
    <3>1. CASE InPhase("ended") /\ loopDepth' = loopDepth - 1
      BY <3>1, <2>0, <2>4, <1>a, LoopPhases
    <3>2. CASE pc' = "enter" /\ UNCHANGED <<stack, loopDepth>>
      BY <3>2, <2>0, <2>4, <1>a DEF Active, top, ActiveLoop, Boundary
    <3> QED
      BY <3>1, <3>2, <2>4
  <2> QED
    BY <2>0, <2>1, <2>2, <2>3, <2>4, <2>5, KeepsIInv DEF IInv, ScalarsOK
<1>EnterSimple. CASE EnterSimple
  <2>0. pc \notin {"idle", "done"} /\ pc' \in {"enter", "step", "leave", "back"}
    BY <1>EnterSimple DEF EnterSimple
  <2>1. pc' \in Control /\ exempt' \in BOOLEAN /\ status' \in Status
    BY <2>0, <1>EnterSimple, <1>a, <1>b, <1>c, <1>d DEF EnterSimple, Control, Inner, Frame
  <2>2. ctl' \in Ctl
    BY <1>EnterSimple, <1>c, ConstantsAssumption DEF EnterSimple, Ctl
  <2>3. /\ errexit' \in BOOLEAN /\ lastStatus' \in Status /\ parseError' \in BOOLEAN
        /\ cmdsub' \in [ran: BOOLEAN, status: Status]
    BY <1>EnterSimple, <1>a, <1>c DEF EnterSimple, ScalarsOK
  <2>4. pc' = "step" /\ UNCHANGED <<loopDepth, callDepth>>
    BY <1>EnterSimple DEF EnterSimple
  <2>5. stack' # <<>> /\ Counted(stack', loopDepth', callDepth')
    <3>1. PICK neg \in BOOLEAN, ph \in {"words", "pure"} : Push(NewFrame("simple", exempt, neg, ph))
      BY <1>EnterSimple DEF EnterSimple
    <3>2. "simple" \in FrameKind /\ ph \in Phase /\ exempt \in BOOLEAN
      BY <1>a DEF FrameKind, Phase, ScalarsOK
    <3> QED
      BY <3>1, <3>2, <2>0, <2>4, <1>a, NewFrameType, PushKeeps
  <2> QED
    BY <2>0, <2>1, <2>2, <2>3, <2>4, <2>5, KeepsIInv DEF IInv, ScalarsOK
<1>EnterCompound. ASSUME NEW k \in Kinds \cup {"list"}, EnterCompound(k) PROVE IInv'
  <2>0. pc \notin {"idle", "done"} /\ pc' \in {"enter", "step", "leave", "back"}
    BY <1>EnterCompound DEF EnterCompound
  <2>1. pc' \in Control /\ exempt' \in BOOLEAN /\ status' \in Status
    BY <2>0, <1>EnterCompound, <1>a, <1>b, <1>c, <1>d DEF EnterCompound, Control, Inner, Frame
  <2>2. ctl' \in Ctl
    BY <1>EnterCompound, <1>c, ConstantsAssumption DEF EnterCompound, Ctl
  <2>3. /\ errexit' \in BOOLEAN /\ lastStatus' \in Status /\ parseError' \in BOOLEAN
        /\ cmdsub' \in [ran: BOOLEAN, status: Status]
    BY <1>EnterCompound, <1>a, <1>c DEF EnterCompound, ScalarsOK
  <2>4. pc' = "step" /\ UNCHANGED <<loopDepth, callDepth>>
    BY <1>EnterCompound DEF EnterCompound
  <2>5. stack' # <<>> /\ Counted(stack', loopDepth', callDepth')
    <3>1. PICK neg \in BOOLEAN, ph \in {"redir", "start"} : Push(NewFrame(k, exempt, neg, ph))
      BY <1>EnterCompound DEF EnterCompound
    <3>2. k \in Compound \cup {"simple"}
      BY <1>EnterCompound DEF EnterCompound, ChildKinds, Command, Compound
    <3>3. k \in FrameKind /\ ph \in Phase /\ exempt \in BOOLEAN
      BY <3>2, <1>a DEF FrameKind, Phase, ScalarsOK
    <3> QED
      BY <3>1, <3>2, <3>3, <2>0, <2>4, <1>a, NewFrameType, PushKeeps
  <2> QED
    BY <2>0, <2>1, <2>2, <2>3, <2>4, <2>5, KeepsIInv DEF IInv, ScalarsOK
<1>RunCall. CASE RunCall
  <2>0. pc \notin {"idle", "done"} /\ pc' \in {"enter", "step", "leave", "back"}
    BY <1>RunCall DEF RunCall, Run, Running
  <2>1. pc' \in Control /\ exempt' \in BOOLEAN /\ status' \in Status
    BY <2>0, <1>RunCall, <1>a, <1>b, <1>c, <1>d DEF RunCall, Run, Running, Control, Inner, Frame
  <2>2. ctl' \in Ctl
    BY <1>RunCall, <1>c, ConstantsAssumption DEF RunCall, Run, Running, Ctl
  <2>3. /\ errexit' \in BOOLEAN /\ lastStatus' \in Status /\ parseError' \in BOOLEAN
        /\ cmdsub' \in [ran: BOOLEAN, status: Status]
    BY <1>RunCall, <1>a, <1>c DEF RunCall, Run, Running, ScalarsOK
  <2>4. top.kind = "simple" /\ loopDepth' = loopDepth /\ callDepth <= SH_MAX_CALL_DEPTH
    BY <1>RunCall DEF RunCall, Run, Running, IInv
  <2>5. /\ stack' # <<>> /\ Counted(stack', loopDepth', callDepth') /\ callDepth' <= SH_MAX_CALL_DEPTH
        /\ pc' = "leave" => ~ActiveLoop(top') /\ top'.kind \notin Boundary
    <3> DEFINE f == [NewFrame("func", FALSE, FALSE, "start") EXCEPT !.saved.ret = ctl.ret]
    <3>1. CASE UNCHANGED <<stack, callDepth>>
      BY <3>1, <2>0, <2>4, <1>a DEF Active, top, ActiveLoop, Boundary
    <3>2. CASE Push(f) /\ callDepth < SH_MAX_CALL_DEPTH /\ callDepth' = callDepth + 1 /\ pc' = "enter"
      <4>1. f \in Frame /\ f.kind = "func" /\ f.phase = "start"
        <5>1. "func" \in FrameKind /\ "start" \in Phase
          BY DEF FrameKind, Boundary, Phase
        <5> DEFINE h == NewFrame("func", FALSE, FALSE, "start")
        <5>2. h \in Frame /\ h.kind = "func" /\ h.phase = "start"
          BY <5>1, NewFrameType
        <5> HIDE DEF h
        <5>3. ctl.ret \in Status \cup {None} /\ h.saved \in Ctl
          BY <5>2, <1>c DEF Frame, Ctl
        <5>4. [h.saved EXCEPT !.ret = ctl.ret] \in Ctl
          BY <5>3 DEF Ctl
        <5>5. f = [h EXCEPT !.saved = [h.saved EXCEPT !.ret = ctl.ret]]
          BY <5>2 DEF Frame, h
        <5> QED
          BY <5>2, <5>4, <5>5 DEF Frame
      <4>2. ~ActiveLoop(f)
        BY <4>1 DEF ActiveLoop
      <4> HIDE DEF f
      <4>3. stack' # <<>> /\ Counted(stack', loopDepth, callDepth + 1)
        BY <3>2, <4>1, <4>2, <2>0, <2>4, <1>a, PushCounts
      <4>4. callDepth + 1 <= SH_MAX_CALL_DEPTH
        BY <3>2, <2>0, <1>a, CountedNat, ConstantsAssumption DEF Active
      <4> QED
        BY <3>2, <4>3, <4>4, <2>4
    <3> QED
      BY <3>1, <3>2, <1>RunCall DEF RunCall
  <2> QED
    BY <2>0, <2>1, <2>2, <2>3, <2>4, <2>5, KeepsIInv DEF IInv, ScalarsOK
<1>RunText. CASE RunText
  <2>0. pc \notin {"idle", "done"} /\ pc' \in {"enter", "step", "leave", "back"}
    BY <1>RunText DEF RunText, Run, Running, RunString
  <2>1. pc' \in Control /\ exempt' \in BOOLEAN /\ status' \in Status
    BY <2>0, <1>RunText, <1>a, <1>b, <1>c, <1>d DEF RunText, Run, Running, RunString, Control, Inner, Frame
  <2>2. ctl' \in Ctl
    BY <1>RunText, <1>c, ConstantsAssumption DEF RunText, Run, Running, RunString, Ctl
  <2>3. /\ errexit' \in BOOLEAN /\ lastStatus' \in Status /\ parseError' \in BOOLEAN
        /\ cmdsub' \in [ran: BOOLEAN, status: Status]
    BY <1>RunText, <1>a, <1>c DEF RunText, Run, Running, RunString, ScalarsOK
  <2>4. /\ top.kind = "simple" /\ pc' \in {"enter", "back"} /\ UNCHANGED <<loopDepth, callDepth>>
        /\ \E k \in {"eval", "source"} : Push(NewFrame(k, FALSE, FALSE, "start"))
    BY <1>RunText DEF RunText, Run, Running, RunString, Push
  <2>5. stack' # <<>> /\ Counted(stack', loopDepth', callDepth')
    <3>1. PICK k \in {"eval", "source"} : Push(NewFrame(k, FALSE, FALSE, "start"))
      BY <2>4
    <3>2. k \in FrameKind /\ "start" \in Phase /\ k # "line" /\ k # "func"
      BY DEF FrameKind, Boundary, Phase
    <3> DEFINE f == NewFrame(k, FALSE, FALSE, "start")
    <3>3. f \in Frame /\ f.kind = k /\ f.phase = "start"
      BY <3>2, NewFrameType
    <3> HIDE DEF f
    <3>4. ~ActiveLoop(f)
      BY <3>3 DEF ActiveLoop
    <3>5. Push(f)
      BY <3>1 DEF f
    <3> QED
      BY <3>2, <3>3, <3>4, <3>5, <2>0, <2>4, <1>a, PushCounts
  <2> QED
    BY <2>0, <2>1, <2>2, <2>3, <2>4, <2>5, KeepsIInv DEF IInv, ScalarsOK
<1>ExpandSubst. CASE ExpandSubst
  <2>0. pc \notin {"idle", "done"} /\ pc' \in {"enter", "step", "leave", "back"}
    BY <1>ExpandSubst DEF ExpandSubst, Expanding, RunString
  <2>1. pc' \in Control /\ exempt' \in BOOLEAN /\ status' \in Status
    BY <2>0, <1>ExpandSubst, <1>a, <1>b, <1>c, <1>d DEF ExpandSubst, Expanding, RunString, Control, Inner, Frame
  <2>2. ctl' \in Ctl
    BY <1>ExpandSubst, <1>c, ConstantsAssumption DEF ExpandSubst, Expanding, RunString, Ctl
  <2>3. /\ errexit' \in BOOLEAN /\ lastStatus' \in Status /\ parseError' \in BOOLEAN
        /\ cmdsub' \in [ran: BOOLEAN, status: Status]
    BY <1>ExpandSubst, <1>a, <1>c DEF ExpandSubst, Expanding, RunString, ScalarsOK
  <2>4. pc' \in {"enter", "back"} /\ UNCHANGED <<loopDepth, callDepth>> /\ top.phase \in DOMAIN After
    BY <1>ExpandSubst DEF ExpandSubst, Expanding, RunString
  <2>5. stack' # <<>> /\ Counted(stack', loopDepth', callDepth')
    <3> DEFINE g == [top EXCEPT !.phase = After[top.phase]]
               f == [NewFrame("subst", FALSE, FALSE, "start") EXCEPT !.saved = ctl]
    <3>1. stack' = Append(Replaced(stack, g), f)
      BY <1>ExpandSubst DEF ExpandSubst, RunString, Replaced
    <3>2. /\ top.phase \notin {"start", "cond", "body"} /\ After[top.phase] \notin {"start", "cond", "body"}
          /\ After[top.phase] \in Phase
      BY <2>4 DEF After, Phase
    <3>3. g \in Frame /\ g.kind = top.kind /\ g.phase = After[top.phase] /\ top.kind \notin Boundary
      BY <3>2, <2>0, <1>b DEF Frame
    <3>4. f \in Frame /\ f.kind = "subst" /\ f.phase = "start"
      <4>1. "subst" \in FrameKind /\ "start" \in Phase
        BY DEF FrameKind, Boundary, Phase
      <4>2. NewFrame("subst", FALSE, FALSE, "start") \in Frame
        BY <4>1, NewFrameType
      <4> QED
        BY <4>1, <4>2, <1>c, NewFrameType DEF Frame
    <3> HIDE DEF g, f
    <3>5. ~ActiveLoop(g) /\ ~ActiveLoop(f) /\ ~ActiveLoop(top)
      BY <3>2, <3>3, <3>4 DEF ActiveLoop
    <3>6. Replaced(stack, g) # <<>> /\ Counted(Replaced(stack, g), loopDepth, callDepth)
      <4>1. ActiveLoop(g) = ActiveLoop(top)
        BY <3>5 DEF ActiveLoop
      <4> QED
        BY <4>1, <3>3, <2>0, <1>a, ReplaceCounts DEF Active, top
    <3> QED
      BY <3>1, <3>4, <3>5, <3>6, <2>4, AppendCounts
  <2> QED
    BY <2>0, <2>1, <2>2, <2>3, <2>4, <2>5, KeepsIInv DEF IInv, ScalarsOK
<1>CompoundRedirFails. CASE CompoundRedirFails
  <2>0. pc \notin {"idle", "done"} /\ pc' \in {"enter", "step", "leave", "back"}
    BY <1>CompoundRedirFails DEF CompoundRedirFails
  <2>1. pc' \in Control /\ exempt' \in BOOLEAN /\ status' \in Status
    BY <2>0, <1>CompoundRedirFails, <1>a, <1>b, <1>c, <1>d DEF CompoundRedirFails, Control, Inner, Frame
  <2>2. ctl' \in Ctl
    BY <1>CompoundRedirFails, <1>c, ConstantsAssumption DEF CompoundRedirFails, Ctl
  <2>3. /\ errexit' \in BOOLEAN /\ lastStatus' \in Status /\ parseError' \in BOOLEAN
        /\ cmdsub' \in [ran: BOOLEAN, status: Status]
    BY <1>CompoundRedirFails, <1>a, <1>c DEF CompoundRedirFails, ScalarsOK
  <2>4. /\ ~ActiveLoop(top) /\ top.kind \notin {"line", "func"} /\ Pop
        /\ pc' = "back" /\ UNCHANGED <<loopDepth, callDepth>>
    BY <1>CompoundRedirFails, <2>0, <1>b DEF CompoundRedirFails, ActiveLoop, Boundary, IInv
  <2>5. stack' # <<>> /\ Counted(stack', loopDepth', callDepth')
    BY <2>0, <2>4, <1>a, PopStackCounts
  <2> QED
    BY <2>0, <2>1, <2>2, <2>3, <2>4, <2>5, KeepsIInv DEF IInv, ScalarsOK
<1>Leave. CASE Leave
  <2>0. pc \notin {"idle", "done"} /\ pc' \in {"enter", "step", "leave", "back"}
    BY <1>Leave DEF Leave, Negate, ErrexitFires
  <2>1. pc' \in Control /\ exempt' \in BOOLEAN /\ status' \in Status
    BY <2>0, <1>Leave, <1>a, <1>b, <1>c, <1>d DEF Leave, Negate, Control
  <2>2. ctl' \in Ctl
    BY <1>Leave, <1>c DEF Leave, Negate, Ctl
  <2>3. /\ errexit' \in BOOLEAN /\ lastStatus' \in Status /\ parseError' \in BOOLEAN
        /\ cmdsub' \in [ran: BOOLEAN, status: Status]
    BY <1>Leave, <1>a, <1>c DEF Leave, Negate, ScalarsOK
  <2>4. /\ ~ActiveLoop(top) /\ top.kind \notin {"line", "func"} /\ Pop
        /\ pc' = "back" /\ UNCHANGED <<loopDepth, callDepth>>
    BY <1>Leave, <2>0, <1>b DEF Leave, ActiveLoop, Boundary, IInv
  <2>5. stack' # <<>> /\ Counted(stack', loopDepth', callDepth')
    BY <2>0, <2>4, <1>a, PopStackCounts
  <2> QED
    BY <2>0, <2>1, <2>2, <2>3, <2>4, <2>5, KeepsIInv DEF IInv, ScalarsOK
<1>SubstReturns. CASE SubstReturns
  <2>0. pc \notin {"idle", "done"} /\ pc' \in {"enter", "step", "leave", "back"}
    BY <1>SubstReturns DEF SubstReturns, Back
  <2>1. pc' \in Control /\ exempt' \in BOOLEAN /\ status' \in Status
    BY <2>0, <1>SubstReturns, <1>a, <1>b, <1>c, <1>d DEF SubstReturns, Back, Control, Inner, Frame
  <2>2. ctl' \in Ctl
    BY <1>SubstReturns, <2>0, <1>b DEF SubstReturns, Back, Frame
  <2>3. /\ errexit' \in BOOLEAN /\ lastStatus' \in Status /\ parseError' \in BOOLEAN
        /\ cmdsub' \in [ran: BOOLEAN, status: Status]
    BY <1>SubstReturns, <1>a, <1>c DEF SubstReturns, Back, ScalarsOK
  <2>4. /\ ~ActiveLoop(top) /\ top.kind \notin {"line", "func"} /\ Pop
        /\ pc' = "step" /\ UNCHANGED <<loopDepth, callDepth>>
    BY <1>SubstReturns, <2>0, <1>b DEF SubstReturns, Back, ActiveLoop, Boundary, IInv
  <2>5. stack' # <<>> /\ Counted(stack', loopDepth', callDepth')
    BY <2>0, <2>4, <1>a, PopStackCounts
  <2> QED
    BY <2>0, <2>1, <2>2, <2>3, <2>4, <2>5, KeepsIInv DEF IInv, ScalarsOK
<1>FuncReturns. CASE FuncReturns
  <2>0. pc \notin {"idle", "done"} /\ pc' \in {"enter", "step", "leave", "back"}
    BY <1>FuncReturns DEF FuncReturns, Back
  <2>1. pc' \in Control /\ exempt' \in BOOLEAN /\ status' \in Status
    BY <2>0, <1>FuncReturns, <1>a, <1>b, <1>c, <1>d, StatusFacts DEF FuncReturns, Back, Control, Inner, Frame
  <2>2. ctl' \in Ctl
    <3>1. top.saved.ret \in Status \cup {None}
      BY <2>0, <1>b DEF Frame, Ctl
    <3>2. PICK r \in ReturnPendingAfter(top.saved.ret) : ctl' = [ctl EXCEPT !.ret = r]
      BY <1>FuncReturns DEF FuncReturns
    <3>3. r \in Status \cup {None}
      BY <3>1, <1>c DEF ReturnPendingAfter, Ctl
    <3> QED
      BY <3>2, <3>3, <1>c DEF Ctl
  <2>3. /\ errexit' \in BOOLEAN /\ lastStatus' \in Status /\ parseError' \in BOOLEAN
        /\ cmdsub' \in [ran: BOOLEAN, status: Status]
    BY <1>FuncReturns, <1>a, <1>c DEF FuncReturns, Back, ScalarsOK
  <2>4. /\ top.kind \in {"func", "eval", "source"} /\ top.phase = "start" /\ Pop /\ pc' = "leave"
        /\ loopDepth' = loopDepth /\ callDepth' = callDepth - 1 /\ (top.kind = "func" <=> TRUE)
    BY <1>FuncReturns DEF FuncReturns, Back
  <2>5. /\ stack' # <<>> /\ Counted(stack', loopDepth', callDepth') /\ callDepth' <= SH_MAX_CALL_DEPTH
        /\ ~ActiveLoop(top') /\ top'.kind \notin Boundary
    <3>1. ~ActiveLoop(top)
      BY <2>4 DEF ActiveLoop
    <3>2. stack' # <<>> /\ Counted(stack', loopDepth', callDepth') /\ top'.kind = "simple"
      BY <3>1, <2>0, <2>4, <1>a, PopStackCounts
    <3>3. callDepth' <= SH_MAX_CALL_DEPTH
      <4>1. callDepth \in Nat /\ callDepth <= SH_MAX_CALL_DEPTH
        BY <2>0, <1>a, CountedNat DEF Active, IInv
      <4> QED
        BY <4>1, <2>4, ConstantsAssumption
    <3> QED
      BY <3>2, <3>3 DEF ActiveLoop, Boundary
  <2> QED
    BY <2>0, <2>1, <2>2, <2>3, <2>4, <2>5, KeepsIInv DEF IInv, ScalarsOK
<1>EvalReturns. CASE EvalReturns
  <2>0. pc \notin {"idle", "done"} /\ pc' \in {"enter", "step", "leave", "back"}
    BY <1>EvalReturns DEF EvalReturns, Back
  <2>1. pc' \in Control /\ exempt' \in BOOLEAN /\ status' \in Status
    BY <2>0, <1>EvalReturns, <1>a, <1>b, <1>c, <1>d DEF EvalReturns, Back, Control, Inner, Frame
  <2>2. ctl' \in Ctl
    BY <1>EvalReturns, <1>a, <1>c, StatusFacts DEF EvalReturns
  <2>3. /\ errexit' \in BOOLEAN /\ lastStatus' \in Status /\ parseError' \in BOOLEAN
        /\ cmdsub' \in [ran: BOOLEAN, status: Status]
    BY <1>EvalReturns, <1>a, <1>c DEF EvalReturns, Back, ScalarsOK
  <2>4. /\ top.kind \in {"func", "eval", "source"} /\ top.phase = "start" /\ Pop /\ pc' = "leave"
        /\ loopDepth' = loopDepth /\ callDepth' = callDepth /\ (top.kind = "func" <=> FALSE)
    BY <1>EvalReturns DEF EvalReturns, Back
  <2>5. /\ stack' # <<>> /\ Counted(stack', loopDepth', callDepth') /\ callDepth' <= SH_MAX_CALL_DEPTH
        /\ ~ActiveLoop(top') /\ top'.kind \notin Boundary
    <3>1. ~ActiveLoop(top)
      BY <2>4 DEF ActiveLoop
    <3>2. stack' # <<>> /\ Counted(stack', loopDepth', callDepth') /\ top'.kind = "simple"
      BY <3>1, <2>0, <2>4, <1>a, PopStackCounts
    <3>3. callDepth' <= SH_MAX_CALL_DEPTH
      <4>1. callDepth \in Nat /\ callDepth <= SH_MAX_CALL_DEPTH
        BY <2>0, <1>a, CountedNat DEF Active, IInv
      <4> QED
        BY <4>1, <2>4, ConstantsAssumption
    <3> QED
      BY <3>2, <3>3 DEF ActiveLoop, Boundary
  <2> QED
    BY <2>0, <2>1, <2>2, <2>3, <2>4, <2>5, KeepsIInv DEF IInv, ScalarsOK
<1>SourceReturns. CASE SourceReturns
  <2>0. pc \notin {"idle", "done"} /\ pc' \in {"enter", "step", "leave", "back"}
    BY <1>SourceReturns DEF SourceReturns, Back
  <2>1. pc' \in Control /\ exempt' \in BOOLEAN /\ status' \in Status
    BY <2>0, <1>SourceReturns, <1>a, <1>b, <1>c, <1>d, StatusFacts DEF SourceReturns, Back, Control, Inner, Frame
  <2>2. ctl' \in Ctl
    <3>1. [ctl EXCEPT !.ret = None] \in Ctl
      BY <1>c DEF Ctl
    <3> QED
      BY <3>1, <1>SourceReturns, <1>a, StatusFacts DEF SourceReturns
  <2>3. /\ errexit' \in BOOLEAN /\ lastStatus' \in Status /\ parseError' \in BOOLEAN
        /\ cmdsub' \in [ran: BOOLEAN, status: Status]
    BY <1>SourceReturns, <1>a, <1>c DEF SourceReturns, Back, ScalarsOK
  <2>4. /\ top.kind \in {"func", "eval", "source"} /\ top.phase = "start" /\ Pop /\ pc' = "leave"
        /\ loopDepth' = loopDepth /\ callDepth' = callDepth /\ (top.kind = "func" <=> FALSE)
    BY <1>SourceReturns DEF SourceReturns, Back
  <2>5. /\ stack' # <<>> /\ Counted(stack', loopDepth', callDepth') /\ callDepth' <= SH_MAX_CALL_DEPTH
        /\ ~ActiveLoop(top') /\ top'.kind \notin Boundary
    <3>1. ~ActiveLoop(top)
      BY <2>4 DEF ActiveLoop
    <3>2. stack' # <<>> /\ Counted(stack', loopDepth', callDepth') /\ top'.kind = "simple"
      BY <3>1, <2>0, <2>4, <1>a, PopStackCounts
    <3>3. callDepth' <= SH_MAX_CALL_DEPTH
      <4>1. callDepth \in Nat /\ callDepth <= SH_MAX_CALL_DEPTH
        BY <2>0, <1>a, CountedNat DEF Active, IInv
      <4> QED
        BY <4>1, <2>4, ConstantsAssumption
    <3> QED
      BY <3>2, <3>3 DEF ActiveLoop, Boundary
  <2> QED
    BY <2>0, <2>1, <2>2, <2>3, <2>4, <2>5, KeepsIInv DEF IInv, ScalarsOK
<1>SubshellEnds. CASE SubshellEnds
  <2>0. pc \notin {"idle", "done"} /\ pc' = "leave"
    BY <1>SubshellEnds DEF SubshellEnds, Back
  <2>1. pc' \in Control /\ exempt' \in BOOLEAN /\ status' \in Status
    BY <2>0, <1>SubshellEnds, <1>c DEF SubshellEnds, Control
  <2>2. ctl' \in Ctl /\ errexit' \in BOOLEAN
    BY <1>SubshellEnds, <2>0, <1>b DEF SubshellEnds, Frame
  <2>3. /\ lastStatus' \in Status /\ parseError' \in BOOLEAN
        /\ cmdsub' \in [ran: BOOLEAN, status: Status]
    BY <1>SubshellEnds, <1>a DEF SubshellEnds, ScalarsOK
  <2>4. /\ ~ActiveLoop(top) /\ top.kind \notin Boundary
        /\ UNCHANGED <<stack, loopDepth, callDepth>>
    BY <1>SubshellEnds DEF SubshellEnds, Back, ActiveLoop, Boundary
  <2> QED
    BY <2>0, <2>1, <2>2, <2>3, <2>4, <1>a, KeepsIInv DEF IInv, Active, top, ScalarsOK
<1>LineEnds. CASE LineEnds
  <2>0. pc \notin {"idle", "done"} /\ pc' \in {"idle", "done"} /\ stack' = <<>>
        /\ UNCHANGED <<loopDepth, callDepth>> /\ top.kind = "line" /\ top.phase = "start"
    BY <1>LineEnds DEF LineEnds, Back
  <2>1. ScalarsOK'
    <3>1. ctl' \in Ctl
      BY <1>LineEnds, <1>c DEF LineEnds, Ctl
    <3>2. pc' \in Control /\ exempt' \in BOOLEAN /\ status' \in Status
      BY <2>0, <1>LineEnds, <1>c DEF LineEnds, Control
    <3> QED
      BY <3>1, <3>2, <1>LineEnds, <1>a DEF LineEnds, ScalarsOK
  <2>2. Len(stack) = 1 /\ stack[1] = top
    BY <2>0, <1>a, TopFacts DEF top, Last
  <2>3. ~ActiveLoop(stack[1]) /\ stack[1].kind # "func"
    BY <2>0, <2>2 DEF ActiveLoop
  <2>4. LoopFrames(stack) = {} /\ CallFrames(stack) = {}
    BY <2>0, <2>2, <2>3, <1>a DEF Active, Counted, LoopFrames, CallFrames
  <2>5. loopDepth = 0 /\ callDepth = 0
    BY <2>0, <2>4, <1>a, FS_EmptySet DEF Active, Counted
  <2>6. Counted(stack', loopDepth', callDepth')
    BY <2>0, <2>5, NothingCounted
  <2> QED
    BY <2>0, <2>1, <2>6 DEF IInv
<1>ReadLine. CASE ReadLine
  <2> DEFINE f == NewFrame("line", FALSE, FALSE, "start")
  <2>1. pc = "idle" /\ stack' = <<f>> /\ pc' \in {"enter", "back"} /\ UNCHANGED <<loopDepth, callDepth>>
    BY <1>ReadLine DEF ReadLine, RunString
  <2>2. ScalarsOK'
    <3>1. pc' \in Control /\ exempt' \in BOOLEAN /\ status' \in Status
      BY <1>ReadLine, <1>c DEF ReadLine, RunString, Control
    <3>2. lastStatus' \in Status /\ parseError' \in BOOLEAN
      BY <1>ReadLine, <1>c, <1>a DEF ReadLine, RunString, ScalarsOK
    <3> QED
      BY <3>1, <3>2, <1>ReadLine, <1>a DEF ReadLine, ScalarsOK
  <2>3. f \in Frame /\ f.kind = "line" /\ f.phase = "start"
    <3>1. "line" \in FrameKind /\ "start" \in Phase
      BY DEF FrameKind, Boundary, Phase
    <3> QED
      BY <3>1, NewFrameType
  <2>4. stack = <<>> /\ Counted(stack, loopDepth, callDepth) /\ callDepth <= SH_MAX_CALL_DEPTH
    BY <2>1 DEF IInv
  <2> HIDE DEF f
  <2>5. ~ActiveLoop(f)
    BY <2>3 DEF ActiveLoop
  <2>6. LoopFrames(<<f>>) = {} /\ CallFrames(<<f>>) = {}
    BY <2>3, <2>5 DEF LoopFrames, CallFrames
  <2>7. LoopFrames(<<>>) = {} /\ CallFrames(<<>>) = {}
    BY NothingCounted
  <2>8. <<f>> \in Seq(Frame) /\ WellStacked(<<f>>)
    BY <2>3 DEF WellStacked
  <2>9. Counted(stack', loopDepth', callDepth')
    BY <2>1, <2>4, <2>6, <2>7, <2>8 DEF Counted
  <2> QED
    BY <2>1, <2>2, <2>4, <2>9 DEF IInv
<1> QED
  BY <1>RunPlain, <1>RunExit, <1>RunReturn, <1>RunBreak, <1>RunContinue, <1>RunBadArg, <1>RunSet, <1>SimpleNoArgs, <1>SimpleBare, <1>ListStep, <1>ListStops, <1>IfEnds, <1>BodyEnds, <1>CompoundRedir, <1>SimpleAssign, <1>SimplePure, <1>SimpleRedir, <1>AndOrLeft, <1>AndOrRight, <1>IfCond, <1>IfBody, <1>ForWords, <1>CaseWord, <1>CaseMatch, <1>GroupStart, <1>ExpandFatal, <1>SubstRedirFails, <1>SimpleWords, <1>SubshellStart, <1>PipeStart, <1>PipeNext, <1>StageEnds, <1>WhileStart, <1>WhileCondStops, <1>WhileTest, <1>WhileBodyEnds, <1>ForStart, <1>ForBodyEnds, <1>EnterSimple, <1>EnterCompound, <1>RunCall, <1>RunText, <1>ExpandSubst, <1>CompoundRedirFails, <1>Leave, <1>SubstReturns, <1>FuncReturns, <1>EvalReturns, <1>SourceReturns, <1>SubshellEnds, <1>LineEnds, <1>ReadLine
     DEF Next, Exec, Node, Expand, Simple, Branch, Loop, Isolate

(* The invariant holds of every state of every program.                    *)
THEOREM Invariance == Spec => []IInv
<1>1. Init => IInv
  <2> SUFFICES ASSUME Init PROVE IInv
    OBVIOUS
  <2>2. Counted(<<>>, 0, 0)
    BY NothingCounted
  <2>3. ScalarsOK
    BY DEF Init, ScalarsOK, Control, Status, Ctl, NoCtl, None
  <2> QED
    BY <2>2, <2>3, ConstantsAssumption DEF Init, IInv
<1>2. IInv /\ [Next]_vars => IInv'
  <2>1. ASSUME IInv, UNCHANGED vars PROVE IInv'
    BY <2>1 DEF IInv, ScalarsOK, vars, top
  <2> QED
    BY <2>1, StepKeepsIInv
<1> QED
  BY <1>1, <1>2, PTL DEF Spec

(* Every state of every program is well typed.                             *)
THEOREM TypeCorrect == Spec => []TypeOK
<1>1. IInv => TypeOK
  <2> SUFFICES ASSUME IInv PROVE TypeOK
    OBVIOUS
  <2>1. loopDepth \in Nat /\ callDepth \in Nat /\ stack \in Seq(Frame)
    BY CountedNat DEF IInv, Counted
  <2> QED
    BY <2>1 DEF IInv, ScalarsOK, TypeOK
<1> QED
  BY <1>1, Invariance, PTL

(* loop_depth and call_depth count the active loops and calls, and calls   *)
(* nest no deeper than SH_MAX_CALL_DEPTH, on every path through the        *)
(* executor: each early return of exec_while, exec_for, call_function and  *)
(* their callers undoes what it counted.                                   *)
THEOREM CountersCorrect == Spec => []CountersMatchStack
<1>1. IInv => CountersMatchStack
  BY DEF IInv, Counted, CountersMatchStack
<1> QED
  BY <1>1, Invariance, PTL

-----------------------------------------------------------------------------
(* The transfers of control.                                               *)

Breaks == Builtins \cap {"break", "continue", "badarg"}
Texts == Builtins \cap {"eval", "source"}

(* The flag of a syntax error found inside a subshell, a stage or a        *)
(* substitution is still set when the text of an eval around it ends.      *)
SyntaxErrorsUnwind ==
  Texts = {} \/ (Kinds \cap {"subshell", "pipe"} = {} /\ "subst" \notin Expansions)

OneLevel == Levels \subseteq {1} /\ SyntaxErrorsUnwind

(* A fatal expansion of a redirection does not keep the command from       *)
(* running; exec_andor and exec_if do not look at a pending break; a       *)
(* return typed at the prompt, and levels of a break that no loop takes,   *)
(* stay for the next line.                                                 *)
Orderly ==
  /\ "fatal" \notin Expansions
  /\ Breaks = {} \/ Kinds \cap {"andor", "if"} = {}
  /\ Interactive => "return" \notin Builtins /\ (Breaks = {} \/ OneLevel)

-----------------------------------------------------------------------------
(* The invariant: whenever something may run, no transfer is pending, so   *)
(* that what is saved to be restored later is none either.                 *)

Used(k) ==
  /\ k \in Compound => k \in Kinds \cup {"list"}
  /\ k = "subst" => "subst" \in Expansions
  /\ k \in {"eval", "source"} => k \in Builtins

Sound ==
  {f \in Frame : f.saved = NoCtl /\ Used(f.kind) /\ (f.neg => "not" \in Kinds)}

AtMostOneBreak ==
  ctl.brk + ctl.cont > 0 =>
    ctl.brk + ctl.cont = 1 /\ ~Leaving(ctl) /\ loopDepth >= 1

(* The text of the innermost frame could not be parsed.                    *)
JustRefused ==
  pc = "back" /\ top.kind \in {"eval", "source", "line"} /\ ctl = NoCtl /\ status = 2

SyntaxOK == parseError /\ pc \notin {"idle", "done"} => Exiting(ctl) \/ JustRefused

CInv ==
  /\ stack \in Seq(Sound)
  /\ pc \in {"enter", "step", "idle"} => ctl = NoCtl
  /\ Breaks = {} => ctl.brk = 0 /\ ctl.cont = 0
  /\ Interactive => ctl.ret = None
  /\ OneLevel => AtMostOneBreak
  /\ Texts # {} /\ SyntaxErrorsUnwind => SyntaxOK

-----------------------------------------------------------------------------
(* The stack.                                                              *)

LEMMA SoundTop ==
  ASSUME stack \in Seq(Sound), stack # <<>>
  PROVE  /\ Len(stack) \in Nat /\ Len(stack) >= 1 /\ top = stack[Len(stack)]
         /\ top \in Sound /\ top \in Frame /\ top.saved = NoCtl /\ Used(top.kind)
         /\ top.neg => "not" \in Kinds
<1>1. Len(stack) \in Nat /\ Len(stack) >= 1
  BY EmptySeq
<1>2. stack[Len(stack)] \in Sound
  BY <1>1, ElementOfSeq
<1> QED
  BY <1>1, <1>2 DEF top, Last, Sound

LEMMA SoundBecome ==
  ASSUME stack \in Seq(Sound), stack # <<>>, NEW f \in Sound, Become(f)
  PROVE  stack' \in Seq(Sound) /\ stack' # <<>> /\ top' = f
<1>1. Len(stack) \in 1 .. Len(stack)
  BY SoundTop
<1>2. stack' \in Seq(Sound) /\ stack' # <<>> /\ Len(stack') = Len(stack) /\ stack'[Len(stack)] = f
  BY <1>1 DEF Become
<1> QED
  BY <1>2 DEF top, Last

(* A frame may change its phase.                                           *)
LEMMA SoundPhase ==
  ASSUME stack \in Seq(Sound), stack # <<>>, NEW ph \in Phase, InPhase(ph)
  PROVE  stack' \in Seq(Sound) /\ stack' # <<>> /\ top'.kind = top.kind /\ top'.phase = ph
<1> DEFINE f == [top EXCEPT !.phase = ph]
<1>1. top \in Sound
  BY SoundTop
<1>2. f \in Sound /\ f.kind = top.kind /\ f.phase = ph
  BY <1>1 DEF Sound, Frame, Used
<1>3. Become(f)
  BY DEF InPhase
<1> HIDE DEF f
<1> QED
  BY <1>2, <1>3, SoundBecome

LEMMA SoundPush ==
  ASSUME stack \in Seq(Sound), NEW f \in Sound, Push(f)
  PROVE  stack' \in Seq(Sound) /\ stack' # <<>> /\ top' = f
<1>1. /\ stack' \in Seq(Sound) /\ stack' # <<>>
      /\ Len(stack') = Len(stack) + 1 /\ stack'[Len(stack) + 1] = f
  BY AppendProperties DEF Push
<1> QED
  BY <1>1 DEF top, Last

LEMMA SoundPop ==
  ASSUME stack \in Seq(Sound), stack # <<>>, Pop
  PROVE  stack' \in Seq(Sound)
<1>1. Len(stack) - 1 \in Int /\ \A i \in 1 .. Len(stack) - 1 : stack[i] \in Sound
  BY SoundTop, ElementOfSeq
<1> QED
  BY <1>1, PrefixOfSeq, Zenon DEF Pop, Front

(* New frames save nothing.                                                *)
LEMMA SoundNew ==
  ASSUME NEW k \in FrameKind, Used(k), NEW ex \in BOOLEAN, NEW neg \in BOOLEAN,
         neg => "not" \in Kinds, NEW ph \in Phase
  PROVE  NewFrame(k, ex, neg, ph) \in Sound /\ NewFrame(k, ex, neg, ph).kind = k
<1>1. NewFrame(k, ex, neg, ph) \in Frame
  BY NewFrameType
<1> QED
  BY <1>1 DEF NewFrame, Sound

(* A save of no pending control makes no difference.                       *)
LEMMA SoundSave ==
  ASSUME NEW f \in Sound
  PROVE  /\ [f EXCEPT !.saved = NoCtl] = f
         /\ \A ph \in Phase, e \in BOOLEAN :
              /\ [f EXCEPT !.phase = ph, !.saved = NoCtl] \in Sound
              /\ [f EXCEPT !.phase = ph, !.saved = NoCtl, !.ee = e] \in Sound
              /\ [f EXCEPT !.phase = ph] \in Sound
  BY DEF Sound, Frame, Used

-----------------------------------------------------------------------------
(* How a step keeps CInv, by where it starts.                              *)

(* ctl and NoCtl, component by component.                                  *)
LEMMA CtlIsNone ==
  ASSUME NEW c \in Ctl
  PROVE  c = NoCtl <=> c.exit = None /\ c.ret = None /\ c.brk = 0 /\ c.cont = 0
  BY DEF Ctl, NoCtl

(* No flag is set in NoCtl.                                                *)
LEMMA NoCtlFacts ==
  /\ NoCtl.exit = None /\ NoCtl.ret = None /\ NoCtl.brk = 0 /\ NoCtl.cont = 0
  /\ ~Exiting(NoCtl) /\ ~Leaving(NoCtl) /\ ~Pending(NoCtl)
  BY DEF NoCtl, Exiting, Leaving, Pending

(* Where something runs no syntax error is pending either.                 *)
LEMMA Quiet ==
  ASSUME CInv, pc \in {"enter", "step"}
  PROVE  ctl = NoCtl /\ (Texts # {} /\ SyntaxErrorsUnwind => ~parseError)
<1>1. ctl = NoCtl /\ ~Exiting(ctl)
  BY NoCtlFacts DEF CInv
<1> QED
  BY <1>1 DEF CInv, SyntaxOK, JustRefused

(* A step that leaves the flags clear.                                     *)
LEMMA ClearKeeps ==
  ASSUME stack' \in Seq(Sound), ctl' = NoCtl,
         Texts # {} /\ SyntaxErrorsUnwind => parseError' = FALSE \/ JustRefused'
  PROVE  CInv'
  BY NoCtlFacts DEF CInv, AtMostOneBreak, SyntaxOK

(* A step of a running node that touches no flag.                          *)
LEMMA QuietKeeps ==
  ASSUME CInv, IInv, pc \in {"enter", "step"}, UNCHANGED <<ctl, parseError>>,
         stack' \in Seq(Sound)
  PROVE  CInv'
<1>1. parseError \in BOOLEAN
  BY DEF IInv, ScalarsOK
<1>2. ctl' = NoCtl /\ (Texts # {} /\ SyntaxErrorsUnwind => parseError' = FALSE)
  BY <1>1, Quiet
<1> QED
  BY <1>2, ClearKeeps

(* A node that ends, or goes on when nothing is pending.                   *)
LEMMA BackKeeps ==
  ASSUME CInv, pc = "back", top.kind \notin {"eval", "source", "line"},
         UNCHANGED <<ctl, parseError>>, stack' \in Seq(Sound),
         pc' \in {"enter", "leave"}, pc' = "enter" => ctl = NoCtl,
         ctl.brk + ctl.cont > 0 => loopDepth' = loopDepth
  PROVE  CInv'
<1>1. pc' \notin {"idle", "step"} /\ (pc' = "enter" => ctl' = NoCtl)
  OBVIOUS
<1>2. Exiting(ctl)' = Exiting(ctl) /\ Leaving(ctl)' = Leaving(ctl)
  BY DEF Exiting, Leaving
<1>3. OneLevel => AtMostOneBreak'
  BY <1>2 DEF CInv, AtMostOneBreak
<1>4. Texts # {} /\ SyntaxErrorsUnwind => SyntaxOK'
  BY <1>2 DEF CInv, SyntaxOK, JustRefused
<1> QED
  BY <1>1, <1>3, <1>4 DEF CInv

(* A builtin that sets a flag.                                             *)
LEMMA SetKeeps ==
  ASSUME CInv, IInv, pc = "step", pc' = "leave", UNCHANGED <<stack, parseError>>,
         Interactive => ctl'.ret = None,
         Breaks = {} => ctl'.brk = 0 /\ ctl'.cont = 0,
         OneLevel => AtMostOneBreak'
  PROVE  CInv'
<1>1. Texts # {} /\ SyntaxErrorsUnwind => SyntaxOK'
  BY Quiet DEF SyntaxOK
<1> QED
  BY <1>1 DEF CInv

-----------------------------------------------------------------------------
(* The steps that leave the flags alone.                                   *)

(* What a step that runs in a node knows of its frame.                     *)
LEMMA TopSound ==
  ASSUME IInv, CInv, pc \in {"enter", "step", "leave", "back"}
  PROVE  /\ stack # <<>> /\ stack \in Seq(Sound)
         /\ top \in Sound /\ top \in Frame /\ top.saved = NoCtl /\ Used(top.kind)
         /\ top.neg => "not" \in Kinds
         /\ ctl \in Ctl /\ status \in Status /\ lastStatus \in Status /\ parseError \in BOOLEAN
<1>1. stack # <<>> /\ stack \in Seq(Sound)
  BY DEF IInv, CInv
<1> QED
  BY <1>1, SoundTop DEF IInv, ScalarsOK

(* Entering a node.                                                        *)
LEMMA EnterKeepsCInv ==
  ASSUME IInv, CInv, EnterSimple \/ (\E k \in Kinds \cup {"list"} : EnterCompound(k))
  PROVE  CInv'
<1> DEFINE f(k, neg, ph) == NewFrame(k, exempt, neg, ph)
<1>1. pc = "enter" /\ UNCHANGED <<ctl, parseError>>
  BY DEF EnterSimple, EnterCompound, NoCtlChange
<1>2. exempt \in BOOLEAN /\ stack \in Seq(Sound)
  BY DEF IInv, ScalarsOK, CInv
<1>3. \A k \in {"simple"} \cup (Compound \cap (Kinds \cup {"list"})) :
        k \in FrameKind /\ Used(k)
  BY DEF FrameKind, Used, Compound, Boundary
<1>4. stack' \in Seq(Sound)
  <2>1. CASE EnterSimple
    <3>1. PICK neg \in BOOLEAN, ph \in {"words", "pure"} :
            Push(f("simple", neg, ph)) /\ (neg => "not" \in Kinds)
      BY <2>1 DEF EnterSimple
    <3>2. ph \in Phase
      BY DEF Phase
    <3>3. f("simple", neg, ph) \in Sound
      BY <1>2, <1>3, <3>1, <3>2, SoundNew
    <3> QED
      BY <1>2, <3>1, <3>3, SoundPush
  <2>2. ASSUME NEW k \in Kinds \cup {"list"}, EnterCompound(k) PROVE stack' \in Seq(Sound)
    <3>1. PICK neg \in BOOLEAN, ph \in {"redir", "start"} :
            Push(f(k, neg, ph)) /\ (neg => "not" \in Kinds)
      BY <2>2 DEF EnterCompound
    <3>2. ph \in Phase
      BY DEF Phase
    <3>3. k \in {"simple"} \cup (Compound \cap (Kinds \cup {"list"}))
      BY <2>2, ConstantsAssumption DEF EnterCompound, ChildKinds, Compound, Command
    <3>4. f(k, neg, ph) \in Sound
      BY <1>2, <1>3, <3>1, <3>2, <3>3, SoundNew
    <3> QED
      BY <1>2, <3>1, <3>4, SoundPush
  <2> QED
    BY <2>1, <2>2
<1> QED
  BY <1>1, <1>4, QuietKeeps

(* Going on in one.                                                        *)
Steps ==
  \/ CompoundRedir \/ CompoundRedirFails \/ SubstRedirFails
  \/ SimpleWords \/ SimpleNoArgs \/ SimpleAssign \/ SimplePure \/ SimpleBare
  \/ SimpleRedir \/ RunPlain \/ RunSet
  \/ AndOrLeft \/ WhileStart \/ ForWords \/ ForStart \/ CaseWord \/ CaseMatch
  \/ GroupStart \/ SubshellStart \/ PipeStart \/ PipeNext

(* Each of these changes the innermost frame at most.                      *)
LEMMA StepKeepsCInv ==
  ASSUME IInv, CInv, Steps
  PROVE  CInv'
<1>1. pc = "step" /\ UNCHANGED <<ctl, parseError>>
  BY DEF Steps, CompoundRedir, CompoundRedirFails, SubstRedirFails, Expanding, Expanded,
         SimpleWords, SimpleNoArgs, SimpleAssign, SimplePure, SimpleBare, SimpleRedir,
         RunPlain, RunSet, Run, Running, AndOrLeft, WhileStart, ForWords, ForStart,
         CaseWord, CaseMatch, GroupStart, SubshellStart, PipeStart, PipeNext, NoCtlChange
<1>2. /\ stack # <<>> /\ stack \in Seq(Sound) /\ top \in Sound /\ top \in Frame
      /\ ctl = NoCtl /\ errexit \in BOOLEAN
  BY <1>1, TopSound, Quiet DEF IInv, ScalarsOK
<1>3. {"words", "worded", "assign", "assigned", "noargs", "noarged", "pure", "pured", "bare", "bared",
       "redir", "redired", "start", "cond", "body", "left", "first", "later"} \subseteq Phase
  BY DEF Phase
<1>4. /\ \A ph \in Phase : InPhase(ph) => stack' \in Seq(Sound)
      /\ UNCHANGED stack => stack' \in Seq(Sound)
      /\ Pop => stack' \in Seq(Sound)
      /\ \A f \in Sound : Become(f) => stack' \in Seq(Sound)
  BY <1>2, SoundPhase, SoundPop, SoundBecome
<1>5. /\ Expanding => After[top.phase] \in Phase
      /\ SubstStatus \in Status
  BY StatusFacts DEF Expanding, After, Phase, IInv
<1>6. stack' \in Seq(Sound)
  <2>1. CASE CompoundRedir \/ CompoundRedirFails \/ SubstRedirFails
    BY <2>1, <1>3, <1>4, <1>5 DEF CompoundRedir, CompoundRedirFails, SubstRedirFails
  <2>2. CASE SimpleNoArgs \/ SimpleBare \/ RunPlain \/ RunSet
    BY <2>2, <1>4 DEF SimpleNoArgs, SimpleBare, RunPlain, RunSet
  <2>3. CASE SimpleWords
    <3>1. [top EXCEPT !.phase = "noargs", !.acc = SubstStatus] \in Sound
      BY <1>2, <1>3, <1>5 DEF Sound, Frame, Used
    <3> QED
      BY <2>3, <3>1, <1>3, <1>4 DEF SimpleWords
  <2>4. CASE SimpleAssign \/ SimplePure \/ SimpleRedir
    BY <2>4, <1>3, <1>4 DEF SimpleAssign, SimplePure, SimpleRedir
  <2>5. CASE AndOrLeft \/ ForWords \/ CaseWord \/ GroupStart
    BY <2>5, <1>3, <1>4 DEF AndOrLeft, ForWords, CaseWord, GroupStart
  <2>6. CASE WhileStart \/ ForStart \/ CaseMatch
    BY <2>6, <1>3, <1>4 DEF WhileStart, ForStart, CaseMatch
  <2>7. CASE SubshellStart
    <3>1. [top EXCEPT !.phase = "body", !.saved = ctl, !.ee = errexit] \in Sound
      BY <1>2, <1>3, SoundSave
    <3> QED
      BY <2>7, <3>1, <1>4 DEF SubshellStart
  <2>8. CASE PipeStart \/ PipeNext
    <3>1. \A ph \in {"first", "later"} : [top EXCEPT !.phase = ph, !.saved = ctl] \in Sound
      BY <1>2, <1>3, SoundSave
    <3> QED
      BY <2>8, <3>1, <1>4 DEF PipeStart, PipeNext, PipeStage
  <2> QED
    BY <2>1, <2>2, <2>3, <2>4, <2>5, <2>6, <2>7, <2>8 DEF Steps
<1> QED
  BY <1>1, <1>6, QuietKeeps

-----------------------------------------------------------------------------
(* Running a text, a substitution or a function: the new frame saves no    *)
(* flags, and a text that cannot be parsed hands its status back at once.  *)

LEMMA StringKeeps ==
  ASSUME NEW s \in Seq(Sound), NEW f \in Sound, RunString(Append(s, f)),
         ctl' = NoCtl, Texts # {} /\ SyntaxErrorsUnwind => f.kind \in {"eval", "source", "line"}
  PROVE  CInv'
<1> DEFINE t == Append(s, f)
<1>1. t \in Seq(Sound) /\ Last(t) = f
  BY AppendProperties DEF Last
<1>2. stack' = t /\ (parseError' = FALSE \/ (pc' = "back" /\ status' = 2))
  BY DEF RunString, Call, Deliver, Goto
<1>3. parseError' = FALSE \/ f.kind \notin {"eval", "source", "line"} \/ JustRefused'
  BY <1>1, <1>2 DEF JustRefused, top
<1> QED
  BY <1>1, <1>2, <1>3, ClearKeeps

(* exec_node is called for a text, a substitution or a function.           *)
LEMMA CallKeepsCInv ==
  ASSUME IInv, CInv, ExpandSubst \/ RunText \/ ReadLine \/ RunCall
  PROVE  CInv'
<1>1. CASE ReadLine
  <2>1. ctl' = NoCtl /\ RunString(<<NewFrame("line", FALSE, FALSE, "start")>>)
    BY <1>1 DEF ReadLine, CInv
  <2>2. NewFrame("line", FALSE, FALSE, "start") \in Sound
        /\ NewFrame("line", FALSE, FALSE, "start").kind = "line"
    <3>1. "line" \in FrameKind /\ "start" \in Phase /\ Used("line")
      BY DEF FrameKind, Boundary, Phase, Used, Compound
    <3> QED
      BY <3>1, SoundNew
  <2> DEFINE f == NewFrame("line", FALSE, FALSE, "start")
  <2> HIDE DEF f
  <2>3. <<f>> = Append(<<>>, f) /\ <<>> \in Seq(Sound)
    OBVIOUS
  <2> QED
    BY <2>1, <2>2, <2>3, StringKeeps DEF f
<1>2. CASE ExpandSubst
  <2>1. /\ pc = "step" /\ "subst" \in Expansions
        /\ After[top.phase] \in Phase /\ UNCHANGED ctl
    BY <1>2 DEF ExpandSubst, Expanding, After, Phase
  <2>2. /\ stack # <<>> /\ stack \in Seq(Sound) /\ top \in Sound /\ ctl = NoCtl
    BY <2>1, TopSound, Quiet
  <2> DEFINE g == [top EXCEPT !.phase = After[top.phase]]
             s == [stack EXCEPT ![Len(stack)] = g]
             f == [NewFrame("subst", FALSE, FALSE, "start") EXCEPT !.saved = ctl]
  <2>3. g \in Sound
    BY <2>1, <2>2, SoundSave
  <2>4. s \in Seq(Sound)
    <3> HIDE DEF g
    <3> QED
      BY <2>2, <2>3
  <2>5. f \in Sound
    <3>1. "subst" \in FrameKind /\ "start" \in Phase /\ Used("subst")
      BY <2>1 DEF FrameKind, Boundary, Phase, Used, Compound
    <3>2. NewFrame("subst", FALSE, FALSE, "start") \in Sound
      BY <3>1, SoundNew
    <3> QED
      BY <2>2, <3>2, SoundSave
  <2>6. RunString(Append(s, f))
    BY <1>2 DEF ExpandSubst
  <2>7. ~(Texts # {} /\ SyntaxErrorsUnwind)
    BY <2>1 DEF SyntaxErrorsUnwind
  <2> HIDE DEF s, f
  <2> QED
    BY <2>1, <2>2, <2>4, <2>5, <2>6, <2>7, StringKeeps
<1>3. CASE RunText
  <2>1. pc = "step" /\ UNCHANGED ctl
    BY <1>3 DEF RunText, Run, Running
  <2>2. stack \in Seq(Sound) /\ ctl = NoCtl
    BY <2>1, TopSound, Quiet
  <2>3. PICK k \in {"eval", "source"} \cap Builtins :
          RunString(Append(stack, NewFrame(k, FALSE, FALSE, "start")))
    BY <1>3 DEF RunText
  <2>4. NewFrame(k, FALSE, FALSE, "start") \in Sound
        /\ NewFrame(k, FALSE, FALSE, "start").kind = k
    <3>1. k \in FrameKind /\ "start" \in Phase /\ Used(k)
      BY DEF FrameKind, Boundary, Phase, Used, Compound
    <3> QED
      BY <3>1, SoundNew
  <2> QED
    BY <2>1, <2>2, <2>3, <2>4, StringKeeps
<1>4. CASE RunCall
  <2>1. pc = "step" /\ UNCHANGED parseError
    BY <1>4 DEF RunCall, Run, Running
  <2>2. stack \in Seq(Sound) /\ ctl = NoCtl
    BY <2>1, TopSound, Quiet
  <2>3. [ctl EXCEPT !.ret = None] = NoCtl /\ ctl.ret = None
    BY <2>2 DEF NoCtl
  <2>4. UNCHANGED ctl
    BY <1>4, <2>2, <2>3 DEF RunCall
  <2>5. stack' \in Seq(Sound)
    <3> DEFINE f == [NewFrame("func", FALSE, FALSE, "start") EXCEPT !.saved.ret = ctl.ret]
    <3>1. NewFrame("func", FALSE, FALSE, "start") \in Sound
      <4>1. "func" \in FrameKind /\ "start" \in Phase /\ Used("func")
        BY DEF FrameKind, Boundary, Phase, Used, Compound
      <4> QED
        BY <4>1, SoundNew
    <3>2. f \in Sound
      <4> DEFINE h == NewFrame("func", FALSE, FALSE, "start")
      <4>1. h \in Sound
        BY <3>1
      <4> HIDE DEF h
      <4>2. [h EXCEPT !.saved.ret = ctl.ret] = h
        BY <4>1, <2>3 DEF Sound, Frame, NoCtl
      <4> QED
        BY <4>1, <4>2 DEF h
    <3>3. UNCHANGED stack \/ Push(f)
      BY <1>4 DEF RunCall
    <3> HIDE DEF f
    <3> QED
      BY <2>2, <3>2, <3>3, SoundPush
  <2> QED
    BY <2>1, <2>4, <2>5, QuietKeeps
<1> QED
  BY <1>1, <1>2, <1>3, <1>4

-----------------------------------------------------------------------------
(* A child has ended: the node goes on only when nothing is pending.       *)

(* Where a break may be pending there is no if and no and-or list, which   *)
(* go on without a look at it.                                             *)
LEMMA BreaksTested ==
  ASSUME IInv, CInv, Orderly, pc = "back", top.kind \in {"andor", "if"}
  PROVE  ctl.brk = 0 /\ ctl.cont = 0
<1>1. top.kind \in Kinds
  BY TopSound DEF Used, Compound
<1>2. Breaks = {}
  BY <1>1 DEF Orderly
<1> QED
  BY <1>2 DEF CInv

Ends ==
  \/ (ListStep /\ pc = "back") \/ ListStops \/ AndOrRight \/ (IfCond /\ pc = "back")
  \/ IfBody \/ IfEnds \/ BodyEnds \/ WhileTest

(* What follows a child: its next sibling or the end of the node.          *)
LEMMA EndKeepsCInv ==
  ASSUME IInv, CInv, Orderly, Ends
  PROVE  CInv'
<1> USE DEF Goto, Call, Finish, NoCtlChange, NoDepthChange
<1>1. /\ pc = "back" /\ UNCHANGED <<ctl, parseError>> /\ pc' \in {"enter", "leave"}
      /\ top.kind \notin {"eval", "source", "line"}
  <2>1. CASE (ListStep /\ pc = "back") \/ ListStops \/ AndOrRight
    BY <2>1 DEF ListStep, ListStops, AndOrRight, Back, Running
  <2>2. CASE (IfCond /\ pc = "back") \/ IfBody \/ IfEnds \/ BodyEnds
    BY <2>2 DEF IfCond, IfBody, IfEnds, BodyEnds, CondEnds, Back, Running
  <2>3. CASE WhileTest
    BY <2>3 DEF WhileTest, CondLoop, LoopEnds
  <2> QED
    BY <2>1, <2>2, <2>3 DEF Ends
<1>2. stack # <<>> /\ stack \in Seq(Sound) /\ ctl \in Ctl
  BY <1>1, TopSound
<1>3. stack' \in Seq(Sound)
  <2>1. {"body", "cond", "elif", "ended"} \subseteq Phase
    BY DEF Phase
  <2>2. UNCHANGED stack \/ (\E ph \in {"body", "cond", "elif", "ended"} : InPhase(ph))
    BY DEF Ends, ListStep, ListStops, AndOrRight, IfCond, IfBody, IfEnds, BodyEnds, WhileTest,
           LoopEnds
  <2> QED
    BY <1>2, <2>1, <2>2, SoundPhase
<1>4. ASSUME pc' = "enter" PROVE ctl = NoCtl
  <2>1. ~Leaving(ctl)
    BY <1>1, <1>4 DEF Ends, ListStep, ListStops, AndOrRight, IfCond, IfBody, IfEnds, BodyEnds,
       WhileTest, Back, Running, Pending, LoopEnds
  <2>2. ctl.brk = 0 /\ ctl.cont = 0
    <3>1. CASE top.kind \in {"andor", "if"}
      BY <1>1, <3>1, BreaksTested
    <3>2. CASE ListStep
      BY <1>1, <1>2, <3>2 DEF ListStep, Running, Pending, Ctl
    <3>3. CASE WhileTest
      BY <3>3 DEF WhileTest
    <3>4. CASE ListStops \/ BodyEnds
      BY <1>4, <3>4 DEF ListStops, BodyEnds
    <3> QED
      BY <1>1, <3>1, <3>2, <3>3, <3>4 DEF Ends, AndOrRight, IfCond, IfBody, IfEnds, Back, Running, CondEnds
  <2> QED
    BY <1>2, <2>1, <2>2, CtlIsNone DEF Leaving, Exiting
<1>5. ctl.brk + ctl.cont > 0 => loopDepth' = loopDepth
  BY <1>2 DEF Ends, ListStep, ListStops, AndOrRight, IfCond, IfBody, IfEnds, BodyEnds, WhileTest
<1> QED
  BY <1>1, <1>3, <1>4, <1>5, BackKeeps

(* What loop_control leaves pending.                                       *)
LEMMA LoopControlFacts ==
  ASSUME ctl \in Ctl
  PROVE  /\ LoopControl(ctl) \in Ctl
         /\ LoopControl(ctl).exit = ctl.exit /\ LoopControl(ctl).ret = ctl.ret
         /\ ctl.brk = 0 /\ ctl.cont = 0 => LoopControl(ctl) = ctl
         /\ ~Leaving(ctl) /\ ctl.brk + ctl.cont <= 1 =>
              LoopControl(ctl).brk = 0 /\ LoopControl(ctl).cont = 0
         /\ ~LoopStops(ctl) => LoopControl(ctl) = NoCtl
  BY DEF LoopControl, LoopStops, Leaving, Exiting, Ctl, NoCtl

(* A loop's condition or body has ended.                                   *)
LEMMA LoopKeepsCInv ==
  ASSUME IInv, CInv, WhileCondStops \/ WhileBodyEnds \/ ForBodyEnds
  PROVE  CInv'
<1> USE DEF Goto, Call, Finish
<1>1. /\ pc = "back" /\ UNCHANGED parseError /\ ctl' = LoopControl(ctl)
      /\ pc' \in {"enter", "leave"} /\ top.kind \notin {"eval", "source", "line"}
      /\ pc' = "enter" => ~LoopStops(ctl)
  BY DEF WhileCondStops, WhileBodyEnds, ForBodyEnds, Back, CondLoop, LoopEnds
<1>2. /\ stack # <<>> /\ stack \in Seq(Sound) /\ ctl \in Ctl
      /\ top \in Sound /\ status \in Status
  BY <1>1, TopSound
<1>3. stack' \in Seq(Sound)
  <2>1. /\ [top EXCEPT !.phase = "cond", !.acc = status] \in Sound
        /\ "ended" \in Phase
    BY <1>2 DEF Sound, Frame, Used, Phase
  <2>2. UNCHANGED stack \/ InPhase("ended") \/ Become([top EXCEPT !.phase = "cond", !.acc = status])
    BY DEF WhileCondStops, WhileBodyEnds, ForBodyEnds, LoopEnds
  <2> QED
    BY <1>2, <2>1, <2>2, SoundPhase, SoundBecome
<1>4. pc' \in {"enter", "step", "idle"} => ctl' = NoCtl
  BY <1>1, <1>2, LoopControlFacts
<1>5. Exiting(ctl)' = Exiting(ctl) /\ Leaving(ctl)' = Leaving(ctl) /\ ctl'.ret = ctl.ret
  BY <1>1, <1>2, LoopControlFacts DEF Exiting, Leaving
<1>6. Breaks = {} => ctl'.brk = 0 /\ ctl'.cont = 0
  BY <1>1, <1>2, LoopControlFacts DEF CInv
<1>7. OneLevel => AtMostOneBreak'
  <2> SUFFICES ASSUME OneLevel PROVE ctl'.brk = 0 /\ ctl'.cont = 0
    BY DEF AtMostOneBreak
  <2>1. ctl.brk \in Nat /\ ctl.cont \in Nat
    BY <1>2 DEF Ctl
  <2>2. CASE ctl.brk + ctl.cont > 0
    BY <1>1, <1>2, <2>2, LoopControlFacts DEF CInv, AtMostOneBreak
  <2>3. CASE ~(ctl.brk + ctl.cont > 0)
    BY <1>1, <1>2, <2>1, <2>3, LoopControlFacts
  <2> QED
    BY <2>2, <2>3
<1>8. Texts # {} /\ SyntaxErrorsUnwind => SyntaxOK'
  BY <1>1, <1>5 DEF CInv, SyntaxOK, JustRefused
<1> QED
  BY <1>3, <1>4, <1>5, <1>6, <1>7, <1>8 DEF CInv

(* A substitution, a subshell or a stage puts the saved flags back.        *)
LEMMA RestoreKeepsCInv ==
  ASSUME IInv, CInv, SubstReturns \/ SubshellEnds \/ StageEnds
  PROVE  CInv' /\ ctl' = NoCtl
<1>1. /\ pc = "back" /\ ctl' = top.saved /\ top.kind \in {"subst", "subshell", "pipe"}
  BY DEF SubstReturns, SubshellEnds, StageEnds, Back
<1>2. /\ stack # <<>> /\ stack \in Seq(Sound) /\ ctl' = NoCtl /\ Used(top.kind)
  BY <1>1, TopSound
<1>3. stack' \in Seq(Sound)
  <2>1. "later" \in Phase
    BY DEF Phase
  <2>2. UNCHANGED stack \/ Pop \/ InPhase("later")
    BY DEF SubstReturns, SubshellEnds, StageEnds, InPhase
  <2> QED
    BY <1>2, <2>1, <2>2, SoundPhase, SoundPop
<1>4. ~(Texts # {} /\ SyntaxErrorsUnwind)
  BY <1>1, <1>2 DEF Used, Compound, SyntaxErrorsUnwind
<1> QED
  BY <1>2, <1>3, <1>4, ClearKeeps

-----------------------------------------------------------------------------
(* The builtins that set a flag, and what returns to a simple command.     *)

(* exit, return, break, continue and their bad arguments.                  *)
LEMMA SetKeepsCInv ==
  ASSUME IInv, CInv, Orderly, RunExit \/ RunReturn \/ RunBreak \/ RunContinue \/ RunBadArg
  PROVE  CInv'
<1> USE DEF Goto, Finish
<1>1. pc = "step" /\ pc' = "leave" /\ UNCHANGED <<stack, parseError, loopDepth>>
  BY DEF RunExit, RunReturn, RunBreak, RunContinue, RunBadArg, Run, Running, NoDepthChange
<1>2. /\ ctl = NoCtl /\ ctl \in Ctl /\ loopDepth \in Nat
      /\ ctl.exit = None /\ ctl.ret = None /\ ctl.brk = 0 /\ ctl.cont = 0
  BY <1>1, TopSound, Quiet, NoCtlFacts, CountedNat DEF IInv
<1>3. Interactive => ctl'.ret = None
  <2>1. CASE RunReturn
    BY <2>1 DEF RunReturn, Orderly
  <2> QED
    BY <2>1, <1>2 DEF RunExit, RunBreak, RunContinue, RunBadArg, Ctl
<1>4. Breaks = {} => ctl'.brk = 0 /\ ctl'.cont = 0
  <2>1. CASE RunBreak \/ RunContinue \/ RunBadArg
    BY <2>1 DEF RunBreak, RunContinue, RunBadArg, Breaks
  <2> QED
    BY <2>1, <1>2 DEF RunExit, RunReturn, Ctl
<1>5. OneLevel => AtMostOneBreak'
  <2>1. CASE RunExit \/ RunReturn
    BY <2>1, <1>2 DEF RunExit, RunReturn, AtMostOneBreak, Ctl
  <2>2. CASE RunBreak \/ RunContinue
    <3> SUFFICES ASSUME OneLevel PROVE AtMostOneBreak'
      OBVIOUS
    <3>1. PICK n \in Levels : ctl' = ctl \/ (loopDepth > 0 /\ ctl' \in {[ctl EXCEPT !.brk = n], [ctl EXCEPT !.cont = n]})
      BY <2>2 DEF RunBreak, RunContinue
    <3>2. n = 1
      BY <3>1 DEF OneLevel
    <3> QED
      BY <3>1, <3>2, <1>1, <1>2 DEF AtMostOneBreak, Leaving, Exiting, Ctl
  <2>3. CASE RunBadArg
    BY <2>3, <1>1, <1>2 DEF RunBadArg, AtMostOneBreak, Leaving, Exiting, Ctl
  <2> QED
    BY <2>1, <2>2, <2>3
<1> QED
  BY <1>1, <1>3, <1>4, <1>5, SetKeeps

(* errexit only adds to what is not pending.                               *)
LEMMA LeaveKeepsCInv ==
  ASSUME IInv, CInv, Leave
  PROVE  CInv'
<1>1. pc = "leave" /\ pc' = "back" /\ Pop /\ UNCHANGED <<parseError, loopDepth>>
  BY DEF Leave, Deliver, Goto, NoDepthChange
<1>2. stack # <<>> /\ stack \in Seq(Sound) /\ ctl \in Ctl
  BY <1>1, TopSound
<1>3. stack' \in Seq(Sound)
  BY <1>1, <1>2, SoundPop
<1>4. \/ ctl' = ctl
      \/ ~Pending(ctl) /\ ctl' = [ctl EXCEPT !.exit = Negate(top, status)]
  BY DEF Leave, ErrexitFires
<1>5. ctl'.ret = ctl.ret /\ ctl'.brk = ctl.brk /\ ctl'.cont = ctl.cont
  BY <1>2, <1>4 DEF Ctl
<1>6. OneLevel => AtMostOneBreak'
  BY <1>1, <1>2, <1>4, <1>5 DEF CInv, AtMostOneBreak, Pending, Leaving, Exiting, Ctl
<1>7. Texts # {} /\ SyntaxErrorsUnwind => SyntaxOK'
  BY <1>1, <1>4 DEF CInv, SyntaxOK, JustRefused, Pending, Leaving
<1> QED
  BY <1>1, <1>3, <1>5, <1>6, <1>7 DEF CInv

(* A function, eval or source ends: an error of syntax becomes an exit,    *)
(* which no break survives.                                                *)
LEMMA ReturnKeepsCInv ==
  ASSUME IInv, CInv, FuncReturns \/ EvalReturns \/ SourceReturns
  PROVE  CInv'
<1> USE DEF Goto, Finish
<1>1. /\ pc = "back" /\ pc' = "leave" /\ Pop /\ UNCHANGED <<parseError, loopDepth>>
      /\ top.kind \in {"func", "eval", "source"}
  BY DEF FuncReturns, EvalReturns, SourceReturns, Back, NoDepthChange
<1>2. /\ stack # <<>> /\ stack \in Seq(Sound) /\ ctl \in Ctl
      /\ top.saved = NoCtl /\ Used(top.kind) /\ parseError \in BOOLEAN
  BY <1>1, TopSound
<1>3. stack' \in Seq(Sound)
  BY <1>1, <1>2, SoundPop
<1>4. /\ ctl'.brk = ctl.brk /\ ctl'.cont = ctl.cont /\ ctl'.ret \in {None, ctl.ret}
      /\ ctl'.exit = IF top.kind # "func" /\ parseError THEN 2 ELSE ctl.exit
  <2>1. CASE FuncReturns
    <3>1. ReturnPendingAfter(top.saved.ret) = {None}
      BY <1>2, NoCtlFacts DEF ReturnPendingAfter
    <3>2. ctl' = [ctl EXCEPT !.ret = None] /\ top.kind = "func"
      BY <2>1, <3>1 DEF FuncReturns, Back
    <3> QED
      BY <3>2, <1>2 DEF Ctl
  <2>2. CASE EvalReturns
    BY <2>2, <1>2 DEF EvalReturns, Back, SyntaxErrorIsFatal, Ctl
  <2>3. CASE SourceReturns
    <3>1. [ctl EXCEPT !.ret = None] \in Ctl /\ [ctl EXCEPT !.ret = None].ret = None
          /\ \A x \in {"exit", "brk", "cont"} : [ctl EXCEPT !.ret = None][x] = ctl[x]
      BY <1>2 DEF Ctl, None
    <3> QED
      BY <2>3, <3>1 DEF SourceReturns, Back, SyntaxErrorIsFatal, Ctl
  <2> QED
    BY <2>1, <2>2, <2>3
<1>5. /\ Exiting(ctl)' <=> Exiting(ctl) \/ (top.kind # "func" /\ parseError)
      /\ ~Leaving(ctl) /\ ~(top.kind # "func" /\ parseError) => ~Leaving(ctl)'
  BY <1>4 DEF Exiting, Leaving, None
<1>6. Interactive => ctl'.ret = None
  BY <1>4 DEF CInv
<1>7. OneLevel => AtMostOneBreak'
  <2> SUFFICES ASSUME OneLevel, ctl.brk + ctl.cont > 0 PROVE AtMostOneBreak'
    BY <1>4 DEF AtMostOneBreak
  <2>1. ctl.brk + ctl.cont = 1 /\ ~Leaving(ctl) /\ loopDepth >= 1
    BY DEF CInv, AtMostOneBreak
  <2>2. ~(top.kind # "func" /\ parseError)
    <3> SUFFICES ASSUME top.kind # "func", parseError PROVE FALSE
      OBVIOUS
    <3>1. Texts # {} /\ SyntaxErrorsUnwind
      BY <1>1, <1>2 DEF Used, Texts, OneLevel
    <3>2. Exiting(ctl) \/ ctl = NoCtl
      BY <1>1, <3>1 DEF CInv, SyntaxOK, JustRefused
    <3> QED
      BY <2>1, <3>2, NoCtlFacts DEF Leaving
  <2> QED
    BY <2>1, <2>2, <1>1, <1>4, <1>5 DEF AtMostOneBreak
<1>8. Texts # {} /\ SyntaxErrorsUnwind => SyntaxOK'
  BY <1>1, <1>5 DEF CInv, SyntaxOK, JustRefused
<1> QED
  BY <1>1, <1>3, <1>4, <1>6, <1>7, <1>8 DEF CInv

(* Between the lines of the prompt nothing is pending.                     *)
LEMMA LineKeepsCInv ==
  ASSUME IInv, IInv', CInv, Orderly, LineEnds
  PROVE  CInv'
<1> USE DEF Goto
<1>1. /\ pc = "back" /\ pc' = (IF Interactive THEN "idle" ELSE "done")
      /\ stack' = <<>> /\ UNCHANGED <<parseError, loopDepth>>
      /\ ctl' = IF Interactive THEN [ctl EXCEPT !.exit = None] ELSE ctl
  BY DEF LineEnds, Back, NoDepthChange
<1>2. ctl \in Ctl /\ stack' \in Seq(Sound)
  BY <1>1, TopSound
<1>3. loopDepth = 0
  <2>1. Counted(<<>>, loopDepth, callDepth')
    BY <1>1 DEF IInv
  <2> QED
    BY <2>1, NothingCounted, FS_EmptySet DEF Counted
<1>4. OneLevel => ctl.brk = 0 /\ ctl.cont = 0
  BY <1>2, <1>3 DEF CInv, AtMostOneBreak, Ctl
<1>5. Interactive => ctl' = NoCtl
  <2> SUFFICES ASSUME Interactive PROVE ctl' = NoCtl
    OBVIOUS
  <2>1. ctl.ret = None /\ ctl.brk = 0 /\ ctl.cont = 0
    BY <1>4 DEF CInv, Orderly
  <2> QED
    BY <2>1, <1>1, <1>2 DEF Ctl, NoCtl
<1>6. /\ Breaks = {} => ctl'.brk = 0 /\ ctl'.cont = 0
      /\ OneLevel => ctl'.brk = 0 /\ ctl'.cont = 0
  BY <1>1, <1>4, <1>5, NoCtlFacts DEF CInv
<1>7. (OneLevel => AtMostOneBreak') /\ SyntaxOK'
  BY <1>1, <1>6 DEF AtMostOneBreak, SyntaxOK
<1> QED
  BY <1>1, <1>2, <1>5, <1>6, <1>7, NoCtlFacts, ConstantsAssumption DEF CInv

-----------------------------------------------------------------------------
(* Every step keeps the invariant.                                         *)
LEMMA NextKeepsCInv ==
  ASSUME IInv, IInv', CInv, Orderly, Next
  PROVE  CInv'
<1>1. CASE ListStep \/ IfCond
  <2>1. CASE pc = "back"
    BY <1>1, <2>1, EndKeepsCInv DEF Ends
  <2>2. CASE pc # "back"
    <3>1. pc = "step" /\ UNCHANGED <<ctl, parseError>>
      BY <1>1, <2>2 DEF ListStep, IfCond, Running, Back, NoCtlChange
    <3>2. stack # <<>> /\ stack \in Seq(Sound)
      BY <3>1, TopSound
    <3>3. UNCHANGED stack \/ InPhase("cond")
      BY <1>1, <2>2 DEF ListStep, IfCond, Back
    <3>4. "cond" \in Phase
      BY DEF Phase
    <3>5. stack' \in Seq(Sound)
      BY <3>2, <3>3, <3>4, SoundPhase
    <3> QED
      BY <3>1, <3>5, QuietKeeps
  <2> QED
    BY <2>1, <2>2
<1>2. CASE Leave
  BY <1>2, LeaveKeepsCInv
<1>3. CASE LineEnds
  BY <1>3, LineKeepsCInv
<1>4. CASE ExpandFatal
  BY <1>4 DEF ExpandFatal, Orderly
<1>5. CASE EnterSimple \/ (\E k \in Kinds \cup {"list"} : EnterCompound(k))
  BY <1>5, EnterKeepsCInv
<1>6. CASE Steps
  BY <1>6, StepKeepsCInv
<1>7. CASE ExpandSubst \/ RunText \/ ReadLine \/ RunCall
  BY <1>7, CallKeepsCInv
<1>8. CASE ListStops \/ AndOrRight \/ IfBody \/ IfEnds \/ BodyEnds \/ WhileTest
  BY <1>8, EndKeepsCInv DEF Ends
<1>9. CASE WhileCondStops \/ WhileBodyEnds \/ ForBodyEnds
  BY <1>9, LoopKeepsCInv
<1>10. CASE SubstReturns \/ SubshellEnds \/ StageEnds
  BY <1>10, RestoreKeepsCInv
<1>11. CASE RunExit \/ RunReturn \/ RunBreak \/ RunContinue \/ RunBadArg
  BY <1>11, SetKeepsCInv
<1>12. CASE FuncReturns \/ EvalReturns \/ SourceReturns
  BY <1>12, ReturnKeepsCInv
<1> QED
  BY <1>1, <1>2, <1>3, <1>4, <1>5, <1>6, <1>7, <1>8, <1>9, <1>10, <1>11, <1>12
     DEF Next, Exec, Node, Expand, Simple, Branch, Loop, Isolate, Steps

(* The invariant holds of every orderly program.                           *)
LEMMA ControlInvariance ==
  ASSUME Orderly
  PROVE  Spec => [](IInv /\ CInv)
<1>1. Init => CInv
  BY NoCtlFacts DEF Init, CInv, AtMostOneBreak, SyntaxOK
<1>2. IInv /\ IInv' /\ CInv /\ [Next]_vars => CInv'
  <2>1. ASSUME CInv, UNCHANGED vars PROVE CInv'
    BY <2>1 DEF CInv, AtMostOneBreak, SyntaxOK, JustRefused, Exiting, Leaving, vars, top
  <2> QED
    BY <2>1, NextKeepsCInv
<1> QED
  BY <1>1, <1>2, Invariance, PTL DEF Spec

-----------------------------------------------------------------------------
(* What the invariant shows.                                               *)

(* While exit, return, break or continue unwinds, exec_simple runs no      *)
(* command and calls no function: each exec_... function looks at what is  *)
(* pending before its next child, and each place that saves and restores   *)
(* the flags does so when nothing is pending.                              *)
THEOREM NothingRuns ==
  ASSUME Orderly
  PROVE  Spec => []NothingRunsWhilePending
<1>1. CInv => NothingRunsWhilePending
  BY NoCtlFacts DEF CInv, NothingRunsWhilePending, Run, Running
<1> QED
  BY <1>1, ControlInvariance, PTL

(* A pending break or continue has an active loop to consume it (builtin   *)
(* break checks loop_depth, and calls, texts and isolated parts hand it on *)
(* or drop it), never two are pending, and every prompt line starts with   *)
(* nothing pending.                                                        *)
THEOREM BreaksEndInTheirLoop ==
  ASSUME Orderly, Breaks = {} \/ OneLevel
  PROVE  Spec => []BreakHasLoop
<1>1. IInv /\ CInv => BreakHasLoop
  <2> SUFFICES ASSUME IInv, CInv PROVE BreakHasLoop
    OBVIOUS
  <2>1. ctl \in Ctl /\ loopDepth \in Nat
    BY CountedNat DEF IInv, ScalarsOK
  <2>2. pc = "idle" => ~Pending(ctl)
    BY NoCtlFacts DEF CInv
  <2>3. CASE Breaks = {}
    BY <2>1, <2>2, <2>3 DEF CInv, BreakHasLoop, Ctl
  <2>4. CASE OneLevel
    BY <2>1, <2>2, <2>4 DEF CInv, AtMostOneBreak, BreakHasLoop, Ctl
  <2> QED
    BY <2>3, <2>4
<1> QED
  BY <1>1, ControlInvariance, PTL

(* Where a subshell, a substitution or a stage has ended, the next step is *)
(* the one that restores the flags.                                        *)
LEMMA NextAfterIsolated ==
  ASSUME IInv, Next, pc = "back", Isolating(top)
  PROVE  SubstReturns \/ SubshellEnds \/ StageEnds
<1>1. top.kind \in {"subst", "pipe", "subshell"} /\ (top.kind = "subshell" => top.phase = "body")
  BY DEF Isolating
<1>2. ~ReadLine /\ ~LineEnds /\ ~Node
  BY <1>1 DEF ReadLine, LineEnds, Back, Node, EnterSimple, EnterCompound, CompoundRedir,
       CompoundRedirFails, Leave
<1>3. ~ExpandFatal /\ ~ExpandSubst /\ ~SubstRedirFails
  BY DEF ExpandFatal, ExpandSubst, SubstRedirFails, Expanding
<1>4. ~Simple
  BY <1>1 DEF Simple, SimpleWords, SimpleNoArgs, SimpleAssign, SimplePure, SimpleBare, SimpleRedir,
       Expanded, RunPlain, RunExit, RunReturn, RunBreak, RunContinue, RunBadArg, RunSet, RunCall,
       RunText, Run, Running, FuncReturns, EvalReturns, SourceReturns, Back
<1>5. ~Branch
  BY <1>1 DEF Branch, ListStep, ListStops, AndOrLeft, AndOrRight, IfCond, IfBody, IfEnds, BodyEnds,
       CaseWord, CaseMatch, Running, Back, CondEnds, Expanded
<1>6. ~Loop
  BY <1>1 DEF Loop, WhileStart, WhileCondStops, WhileTest, WhileBodyEnds, ForWords, ForStart,
       ForBodyEnds, Running, Back, Expanded, CondLoop
<1>7. ~GroupStart /\ ~SubshellStart /\ ~PipeStart /\ ~PipeNext
  BY DEF GroupStart, SubshellStart, PipeStart, PipeNext, Running
<1> QED
  BY <1>2, <1>3, <1>4, <1>5, <1>6, <1>7 DEF Next, Exec, Expand, Isolate

(* exit, return, break and continue end no more than the subshell, command *)
(* substitution or pipeline stage they are in: what encloses it goes on    *)
(* with the flags it had, which were clear.                                *)
THEOREM IsolationHolds ==
  ASSUME Orderly
  PROVE  Spec => IsolationConfinesControl
<1>1. IInv /\ CInv /\ [Next]_vars => [Confines]_vars
  <2> SUFFICES ASSUME IInv, CInv, Next, pc = "back", Isolating(top)
               PROVE  ~Pending(ctl')
    BY DEF Confines
  <2>1. ctl' = NoCtl
    BY NextAfterIsolated, RestoreKeepsCInv
  <2> QED
    BY <2>1, NoCtlFacts
<1> QED
  BY <1>1, ControlInvariance, PTL DEF Spec, IsolationConfinesControl

-----------------------------------------------------------------------------
(* What set -e aborts.  The exempt argument that exec_node hands down says *)
(* of each node whether a construct around it tests its status, up to the  *)
(* text that holds it.                                                     *)

TextKinds == {"line", "source", "subst"}

Under(s, n) ==
  \E i \in 1 .. n : Tests(s[i]) /\ \A j \in i + 1 .. n : s[j].kind \notin TextKinds

Marked(s, i) ==
  IF s[i].kind \in Boundary THEN ~s[i].neg ELSE s[i].exempt <=> Under(s, i - 1)

ExemptOK ==
  /\ \A i \in 1 .. Len(stack) : Marked(stack, i)
  /\ pc = "enter" => (exempt <=> Under(stack, Len(stack)))

(* Under looks at the first n frames only.                                 *)
LEMMA UnderSame ==
  ASSUME NEW s, NEW t, NEW n \in Int, \A i \in 1 .. n : s[i] = t[i]
  PROVE  Under(s, n) = Under(t, n)
<1>1. \A i \in 1 .. n : \A j \in i + 1 .. n : j \in 1 .. n
  OBVIOUS
<1> QED
  BY <1>1 DEF Under

(* The innermost of n frames tests, or hands down what it was handed.      *)
LEMMA UnderStep ==
  ASSUME NEW s, NEW n \in Nat, n >= 1
  PROVE  Under(s, n) <=> Tests(s[n]) \/ (s[n].kind \notin TextKinds /\ Under(s, n - 1))
<1>1. ASSUME Under(s, n), ~Tests(s[n])
      PROVE  s[n].kind \notin TextKinds /\ Under(s, n - 1)
  <2>1. PICK i \in 1 .. n : Tests(s[i]) /\ \A j \in i + 1 .. n : s[j].kind \notin TextKinds
    BY <1>1 DEF Under
  <2>2. i # n
    BY <1>1, <2>1
  <2>3. i \in 1 .. n - 1 /\ n \in i + 1 .. n /\ \A j \in i + 1 .. n - 1 : j \in i + 1 .. n
    BY <2>2
  <2> QED
    BY <2>1, <2>3 DEF Under
<1>2. ASSUME Tests(s[n]) PROVE Under(s, n)
  <2>1. n \in 1 .. n /\ n + 1 .. n = {}
    OBVIOUS
  <2> QED
    BY <1>2, <2>1 DEF Under
<1>3. ASSUME s[n].kind \notin TextKinds, Under(s, n - 1) PROVE Under(s, n)
  <2>1. PICK i \in 1 .. n - 1 : Tests(s[i]) /\ \A j \in i + 1 .. n - 1 : s[j].kind \notin TextKinds
    BY <1>3 DEF Under
  <2>2. i \in 1 .. n /\ \A j \in i + 1 .. n : j = n \/ j \in i + 1 .. n - 1
    OBVIOUS
  <2>3. \A j \in i + 1 .. n : s[j].kind \notin TextKinds
    BY <1>3, <2>1, <2>2
  <2> QED
    BY <2>1, <2>2, <2>3 DEF Under
<1> QED
  BY <1>1, <1>2, <1>3

(* What is below a frame decides its mark.                                 *)
LEMMA MarkedSame ==
  ASSUME NEW s, NEW t, NEW i \in Int, Marked(s, i), \A j \in 1 .. i - 1 : s[j] = t[j],
         t[i].kind = s[i].kind, t[i].exempt = s[i].exempt, t[i].neg = s[i].neg
  PROVE  Marked(t, i)
<1>1. Under(s, i - 1) = Under(t, i - 1)
  <2>1. i - 1 \in Int
    OBVIOUS
  <2> QED
    BY <2>1, UnderSame
<1> QED
  BY <1>1 DEF Marked

(* A change of the innermost frame that keeps its marks.                   *)
LEMMA ReplaceMarks ==
  ASSUME NEW s \in Seq(Frame), s # <<>>, \A i \in 1 .. Len(s) : Marked(s, i),
         NEW f \in Frame, f.kind = Last(s).kind, f.exempt = Last(s).exempt,
         f.neg = Last(s).neg, f.kind \notin Boundary
  PROVE  /\ \A i \in 1 .. Len(Replaced(s, f)) : Marked(Replaced(s, f), i)
         /\ Under(Replaced(s, f), Len(Replaced(s, f))) <=> Tests(f) \/ f.exempt
<1> DEFINE t == Replaced(s, f)
           n == Len(s)
<1>1. n \in Nat /\ n >= 1 /\ n \in 1 .. n /\ Last(s) = s[n]
  BY EmptySeq DEF Last
<1>2. Len(t) = n /\ t[n] = f /\ \A i \in 1 .. n : i # n => t[i] = s[i]
  BY <1>1, ReplacedFrames
<1> HIDE DEF t, n
<1>3. ASSUME NEW i \in 1 .. n PROVE Marked(t, i)
  <2>1. Marked(s, i)
    BY DEF n
  <2>2. /\ i \in Int /\ \A j \in 1 .. i - 1 : s[j] = t[j]
        /\ t[i].kind = s[i].kind /\ t[i].exempt = s[i].exempt /\ t[i].neg = s[i].neg
    BY <1>1, <1>2
  <2> QED
    BY <2>1, <2>2, MarkedSame
<1>4. Under(t, n) <=> Tests(f) \/ Under(t, n - 1)
  BY <1>1, <1>2, UnderStep DEF TextKinds, Boundary
<1>5. f.exempt <=> Under(t, n - 1)
  BY <1>1, <1>2, <1>3 DEF Marked
<1> QED
  BY <1>2, <1>3, <1>4, <1>5 DEF t

(* A new frame, marked with what is below it.                              *)
LEMMA AppendMarks ==
  ASSUME NEW s \in Seq(Frame), \A i \in 1 .. Len(s) : Marked(s, i), NEW f \in Frame,
         IF f.kind \in Boundary THEN ~f.neg ELSE f.exempt <=> Under(s, Len(s))
  PROVE  /\ \A i \in 1 .. Len(Append(s, f)) : Marked(Append(s, f), i)
         /\ Under(Append(s, f), Len(Append(s, f))) <=>
              Tests(f) \/ (f.kind \notin TextKinds /\ Under(s, Len(s)))
<1> DEFINE t == Append(s, f)
           n == Len(s)
           m == n + 1
<1>1. n \in Nat /\ m \in Nat /\ m >= 1 /\ m - 1 = n
  OBVIOUS
<1>2. Len(t) = m /\ t[m] = f /\ \A i \in 1 .. n : t[i] = s[i]
  BY AppendedFrames
<1>3. \A i \in 1 .. m : i \in 1 .. n \/ i = m
  BY <1>1
<1> HIDE DEF t, n, m
<1>4. Under(t, n) = Under(s, n)
  BY <1>1, <1>2, UnderSame
<1>5. Under(t, m) <=> Tests(f) \/ (f.kind \notin TextKinds /\ Under(t, n))
  <2>1. Under(t, m) <=> Tests(t[m]) \/ (t[m].kind \notin TextKinds /\ Under(t, m - 1))
    BY <1>1, UnderStep
  <2> QED
    BY <1>1, <1>2, <2>1, Zenon
<1>6. ASSUME NEW i \in 1 .. n PROVE Marked(t, i)
  <2>1. Marked(s, i)
    BY DEF n
  <2>2. i \in Int /\ t[i] = s[i] /\ \A j \in 1 .. i - 1 : s[j] = t[j]
    BY <1>1, <1>2
  <2> QED
    BY <2>1, <2>2, MarkedSame
<1>7. Marked(t, m)
  <2>1. Under(t, m - 1) = Under(t, n)
    BY <1>1, Zenon
  <2> QED
    BY <2>1, <1>2, <1>4 DEF Marked, n
<1>8. \A i \in 1 .. m : Marked(t, i)
  BY <1>3, <1>6, <1>7
<1> QED
  BY <1>2, <1>4, <1>5, <1>8 DEF t, n

(* A frame that ends.                                                      *)
LEMMA PopMarks ==
  ASSUME NEW s \in Seq(Frame), s # <<>>, \A i \in 1 .. Len(s) : Marked(s, i)
  PROVE  \A i \in 1 .. Len(Front(s)) : Marked(Front(s), i)
<1> DEFINE t == Front(s)
           n == Len(s) - 1
<1>1. n \in Nat /\ \A i \in 1 .. n : i \in 1 .. Len(s)
  BY EmptySeq
<1>2. Len(t) = n /\ \A i \in 1 .. n : t[i] = s[i]
  BY PoppedFrames
<1> HIDE DEF t, n
<1>3. ASSUME NEW i \in 1 .. n PROVE Marked(t, i)
  <2>1. Marked(s, i)
    BY <1>1
  <2>2. i \in Int /\ t[i] = s[i] /\ \A j \in 1 .. i - 1 : s[j] = t[j]
    BY <1>1, <1>2
  <2> QED
    BY <2>1, <2>2, MarkedSame
<1> QED
  BY <1>2, <1>3 DEF t

(* The same, of the actions that change the stack.                         *)
LEMMA BecomeExempt ==
  ASSUME IInv, ExemptOK, pc \in {"step", "back"}, NEW f \in Frame, Become(f),
         f.kind = top.kind, f.exempt = top.exempt, f.neg = top.neg, f.kind \notin Boundary,
         pc' = "enter" => exempt' = (Tests(f) \/ f.exempt)
  PROVE  ExemptOK'
<1>1. stack \in Seq(Frame) /\ stack # <<>> /\ stack' = Replaced(stack, f) /\ top = Last(stack)
  BY DEF IInv, Counted, Become, Replaced, top
<1>2. /\ \A i \in 1 .. Len(stack') : Marked(stack', i)
      /\ Under(stack', Len(stack')) <=> Tests(f) \/ f.exempt
  BY <1>1, ReplaceMarks DEF ExemptOK
<1> QED
  BY <1>2 DEF ExemptOK, Marked

(* A new phase.                                                            *)
LEMMA PhaseExempt ==
  ASSUME IInv, ExemptOK, pc \in {"step", "back"}, NEW ph \in Phase, InPhase(ph),
         top.kind \notin Boundary,
         pc' = "enter" => exempt' = (Tests([top EXCEPT !.phase = ph]) \/ top.exempt)
  PROVE  ExemptOK'
<1> DEFINE f == [top EXCEPT !.phase = ph]
<1>1. top \in Frame
  BY TopFacts DEF IInv, Active
<1>2. f \in Frame /\ f.kind = top.kind /\ f.exempt = top.exempt /\ f.neg = top.neg /\ Become(f)
  BY <1>1 DEF Frame, InPhase
<1> HIDE DEF f
<1>3. pc' = "enter" => exempt' = (Tests(f) \/ f.exempt)
  BY <1>2 DEF f
<1> QED
  BY <1>2, <1>3, BecomeExempt

(* No change of the stack.                                                 *)
LEMMA SameExempt ==
  ASSUME IInv, ExemptOK, pc \in {"step", "back", "leave"}, UNCHANGED stack,
         pc' = "enter" =>
           top.kind \notin Boundary /\ pc # "leave" /\ exempt' = (Tests(top) \/ top.exempt)
  PROVE  ExemptOK'
<1>1. CASE pc' = "enter"
  <2>1. top \in Frame /\ stack \in Seq(Frame) /\ stack # <<>>
    BY TopFacts DEF IInv, Active, Counted
  <2>2. Become(top)
    <3>1. Len(stack) \in 1 .. Len(stack) /\ top = stack[Len(stack)]
      BY <2>1 DEF top, Last
    <3> QED
      BY <2>1, <3>1 DEF Become
  <2> QED
    BY <1>1, <2>1, <2>2, BecomeExempt
<1>2. CASE pc' # "enter"
  BY <1>2 DEF ExemptOK, Marked, Under
<1> QED
  BY <1>1, <1>2

(* A new frame.                                                            *)
LEMMA PushExempt ==
  ASSUME IInv, ExemptOK, NEW f \in Frame, Push(f),
         IF f.kind \in Boundary THEN ~f.neg ELSE f.exempt <=> Under(stack, Len(stack)),
         pc' = "enter" =>
           (exempt' <=> Tests(f) \/ (f.kind \notin TextKinds /\ Under(stack, Len(stack))))
  PROVE  ExemptOK'
<1>1. stack \in Seq(Frame) /\ stack' = Append(stack, f)
  BY DEF IInv, Counted, Push
<1>2. /\ \A i \in 1 .. Len(stack') : Marked(stack', i)
      /\ Under(stack', Len(stack')) <=>
           Tests(f) \/ (f.kind \notin TextKinds /\ Under(stack, Len(stack)))
  BY <1>1, AppendMarks DEF ExemptOK
<1> QED
  BY <1>2 DEF ExemptOK, Marked

(* A frame that ends.                                                      *)
LEMMA PopExempt ==
  ASSUME IInv, ExemptOK, pc \notin {"idle", "done"}, Pop, pc' # "enter"
  PROVE  ExemptOK'
<1>1. stack \in Seq(Frame) /\ stack # <<>> /\ stack' = Front(stack)
  BY DEF IInv, Counted, Pop
<1>2. \A i \in 1 .. Len(stack') : Marked(stack', i)
  BY <1>1, PopMarks DEF ExemptOK
<1> QED
  BY <1>2 DEF ExemptOK, Marked

(* A node whose phase does not test its child hands down what it was       *)
(* handed, and its negation.                                               *)
LEMMA InnerExempt ==
  ASSUME top \in Frame,
         NEW ph \in {"left", "cond", "elif", "body", "first", "later"}
  PROVE  LET f == [top EXCEPT !.phase = ph] IN
         /\ Tests(f) <=> \/ top.neg \/ (top.kind = "andor" /\ ph = "left")
                         \/ (top.kind \in {"if", "while", "until"} /\ ph \in {"cond", "elif"})
         /\ ph \in {"body", "first", "later"} => Inner(top) = (Tests(f) \/ top.exempt)
  BY DEF Tests, Inner, Frame

(* Every step keeps the marks: one case per action.                        *)
LEMMA NextKeepsExempt ==
  ASSUME IInv, ExemptOK, Next, "eval" \notin Builtins
  PROVE  ExemptOK'
<1> USE DEF Goto, Call, Stay, Finish, Deliver
<1>t. /\ pc \notin {"idle", "done"} =>
            top \in Frame /\ (top.kind \in Boundary => top.phase = "start")
      /\ status \in Status /\ SubstStatus \in Status /\ errexit \in BOOLEAN /\ ctl \in Ctl
  BY TopFacts, StatusFacts DEF IInv, Active, ScalarsOK
<1>p. {"words", "worded", "assign", "assigned", "noargs", "noarged", "pure", "pured", "bare", "bared",
       "redir", "redired", "start", "cond", "elif", "body", "left", "first", "later", "ended"} \subseteq Phase
  BY DEF Phase
<1>1. CASE \/ RunPlain \/ RunExit \/ RunReturn \/ RunBreak \/ RunContinue \/ RunBadArg \/ RunSet
           \/ SimpleNoArgs \/ SimpleBare
  <2>1. pc = "step" /\ pc' = "leave" /\ UNCHANGED stack
    BY <1>1 DEF RunPlain, RunExit, RunReturn, RunBreak, RunContinue, RunBadArg, RunSet,
       SimpleNoArgs, SimpleBare, Run, Running, Expanded
  <2> QED
    BY <2>1, SameExempt
<1>2. CASE ListStops \/ IfEnds \/ BodyEnds \/ SubshellEnds
  <2>1. pc = "back" /\ pc' = "leave" /\ UNCHANGED stack
    BY <1>2 DEF ListStops, IfEnds, BodyEnds, SubshellEnds, CondEnds, Back
  <2> QED
    BY <2>1, SameExempt
<1>3. CASE CompoundRedirFails \/ Leave \/ SubstReturns \/ FuncReturns \/ EvalReturns \/ SourceReturns
  <2>1. pc \notin {"idle", "done"} /\ pc' # "enter" /\ Pop
    BY <1>3 DEF CompoundRedirFails, Leave, SubstReturns, FuncReturns, EvalReturns, SourceReturns, Back
  <2> QED
    BY <2>1, PopExempt
<1>4. CASE \/ CompoundRedir \/ ExpandFatal \/ SubstRedirFails \/ SimpleAssign \/ SimplePure
           \/ SimpleRedir \/ ForWords \/ CaseWord
  <2>1. /\ pc = "step" /\ pc' \in {"step", "leave"} /\ top.kind \notin Boundary
        /\ UNCHANGED stack \/ \E ph \in Phase : InPhase(ph)
    <3>1. CASE CompoundRedir
      BY <1>t, <1>p, <3>1 DEF CompoundRedir
    <3>2. CASE ExpandFatal \/ SubstRedirFails
      BY <1>t, <1>p, <3>2 DEF ExpandFatal, SubstRedirFails, Expanding, After
    <3>3. CASE SimpleAssign \/ SimplePure \/ SimpleRedir
      BY <1>p, <3>3 DEF SimpleAssign, SimplePure, SimpleRedir, Expanded, Boundary
    <3>4. CASE ForWords \/ CaseWord
      BY <1>p, <3>4 DEF ForWords, CaseWord, Running, Boundary
    <3> QED
      BY <1>4, <3>1, <3>2, <3>3, <3>4
  <2> QED
    BY <2>1, SameExempt, PhaseExempt
<1>5. CASE SimpleWords
  <2>1. pc = "step" /\ pc' \in {"step", "leave"} /\ top.kind = "simple" /\ top.kind \notin Boundary
    BY <1>5 DEF SimpleWords, Expanded, Boundary
  <2> DEFINE f == [top EXCEPT !.phase = "noargs", !.acc = SubstStatus]
  <2>2. UNCHANGED stack \/ Become(f) \/ \E ph \in {"start", "assign", "redir"} : InPhase(ph)
    BY <1>5 DEF SimpleWords
  <2>3. f \in Frame /\ f.kind = top.kind /\ f.exempt = top.exempt /\ f.neg = top.neg
    BY <1>t, <1>p, <2>1 DEF Frame
  <2> HIDE DEF f
  <2> QED
    BY <1>p, <2>1, <2>2, <2>3, SameExempt, BecomeExempt, PhaseExempt
<1>6. CASE AndOrLeft \/ IfCond
  <2>1. /\ pc \in {"step", "back"} /\ pc' = "enter" /\ exempt' = TRUE
        /\ \/ top.kind = "andor" /\ InPhase("left")
           \/ top.kind = "if" /\ InPhase("cond")
           \/ top.kind = "if" /\ InPhase("elif")
    BY <1>6 DEF AndOrLeft, IfCond, Running, Back
  <2>2. top.kind \notin Boundary /\ top \in Frame
    BY <1>t, <2>1 DEF Boundary
  <2> QED
    BY <1>p, <2>1, <2>2, InnerExempt, PhaseExempt
<1>7. CASE AndOrRight \/ IfBody \/ CaseMatch \/ GroupStart \/ ForStart
  <2>1. /\ pc \in {"step", "back"} /\ top.kind \notin Boundary
        /\ \/ UNCHANGED stack /\ pc' = "leave"
           \/ InPhase("body") /\ pc' = "enter" /\ exempt' = Inner(top)
    <3>1. CASE AndOrRight \/ IfBody
      BY <3>1 DEF AndOrRight, IfBody, CondEnds, Back, Boundary
    <3>2. CASE CaseMatch \/ GroupStart \/ ForStart
      BY <3>2 DEF CaseMatch, GroupStart, ForStart, Expanded, Running, Boundary
    <3> QED
      BY <1>7, <3>1, <3>2
  <2> QED
    BY <1>t, <1>p, <2>1, InnerExempt, SameExempt, PhaseExempt
<1>8. CASE ListStep \/ ForBodyEnds
  <2>1. /\ pc \in {"step", "back"} /\ top.kind \in {"list", "for"}
        /\ \/ UNCHANGED stack /\ (pc' = "leave" \/ (pc' = "enter" /\ exempt' = Inner(top)))
           \/ InPhase("ended") /\ pc' = "leave"
    <3>1. CASE ListStep
      BY <3>1 DEF ListStep, Running, Back
    <3>2. CASE ForBodyEnds
      BY <3>2 DEF ForBodyEnds, Back, LoopEnds
    <3> QED
      BY <1>8, <3>1, <3>2
  <2>2. top \in Frame /\ top.kind \notin Boundary /\ Inner(top) = (Tests(top) \/ top.exempt)
    BY <1>t, <2>1 DEF Boundary, Tests, Inner, Frame
  <2> QED
    BY <1>p, <2>1, <2>2, SameExempt, PhaseExempt
<1>9. CASE WhileStart \/ WhileTest \/ WhileCondStops
  <2>1. /\ pc \in {"step", "back"} /\ top.kind \in {"while", "until"}
        /\ \/ UNCHANGED stack /\ pc' = "leave"
           \/ InPhase("ended") /\ pc' = "leave"
           \/ InPhase("cond") /\ pc' = "enter" /\ exempt' = TRUE
           \/ InPhase("body") /\ pc' = "enter" /\ exempt' = Inner(top)
    <3>1. CASE WhileStart
      BY <3>1 DEF WhileStart, CondLoop
    <3>2. CASE WhileTest
      BY <3>2 DEF WhileTest, CondLoop, LoopEnds
    <3>3. CASE WhileCondStops
      BY <3>3 DEF WhileCondStops, CondLoop, LoopEnds
    <3> QED
      BY <1>9, <3>1, <3>2, <3>3
  <2>2. top.kind \notin Boundary /\ top \in Frame
    BY <1>t, <2>1 DEF Boundary
  <2> QED
    BY <1>p, <2>1, <2>2, InnerExempt, SameExempt, PhaseExempt
<1>10. CASE WhileBodyEnds
  <2> DEFINE f == [top EXCEPT !.phase = "cond", !.acc = status]
  <2>1. /\ pc = "back" /\ top.kind \in {"while", "until"}
        /\ \/ InPhase("ended") /\ pc' = "leave"
           \/ Become(f) /\ pc' = "enter" /\ exempt' = TRUE
    BY <1>10 DEF WhileBodyEnds, CondLoop, LoopEnds
  <2>2. /\ top.kind \notin Boundary /\ top \in Frame
        /\ f \in Frame /\ f.kind = top.kind /\ f.exempt = top.exempt /\ f.neg = top.neg /\ f.phase = "cond"
    BY <1>t, <1>p, <2>1 DEF Boundary, Frame
  <2> HIDE DEF f
  <2>3. Tests(f)
    BY <2>1, <2>2 DEF Tests
  <2> QED
    BY <1>p, <2>1, <2>2, <2>3, PhaseExempt, BecomeExempt
<1>11. CASE SubshellStart
  <2> DEFINE f == [top EXCEPT !.phase = "body", !.saved = ctl, !.ee = errexit]
  <2>1. pc = "step" /\ top.kind = "subshell" /\ Become(f) /\ pc' = "enter" /\ exempt' = Inner(top)
    BY <1>11 DEF SubshellStart, Running
  <2>2. /\ top.kind \notin Boundary /\ top \in Frame
        /\ f \in Frame /\ f.kind = top.kind /\ f.exempt = top.exempt /\ f.neg = top.neg
    BY <1>t, <1>p, <2>1 DEF Boundary, Frame
  <2> HIDE DEF f
  <2>3. Inner(top) = (Tests(f) \/ f.exempt)
    BY <2>1, <2>2 DEF Tests, Inner, Frame
  <2> QED
    BY <2>1, <2>2, <2>3, BecomeExempt
<1>12. CASE PipeStart \/ PipeNext \/ StageEnds
  <2> DEFINE f(ph) == [top EXCEPT !.phase = ph, !.saved = ctl]
  <2>1. /\ pc \in {"step", "back"} /\ top.kind = "pipe"
        /\ \/ UNCHANGED stack /\ pc' = "leave"
           \/ InPhase("later") /\ pc' = "step"
           \/ \E ph \in {"first", "later"} : Become(f(ph)) /\ pc' = "enter" /\ exempt' = Inner(top)
    <3>1. CASE PipeStart \/ PipeNext
      BY <3>1 DEF PipeStart, PipeNext, PipeStage, Running
    <3>2. CASE StageEnds
      BY <3>2 DEF StageEnds, InPhase
    <3> QED
      BY <1>12, <3>1, <3>2
  <2>2. top.kind \notin Boundary /\ top \in Frame
    BY <1>t, <2>1 DEF Boundary
  <2>3. \A ph \in {"first", "later"} :
          /\ f(ph) \in Frame /\ f(ph).kind = top.kind /\ f(ph).exempt = top.exempt /\ f(ph).neg = top.neg
    BY <1>t, <1>p, <2>2 DEF Frame
  <2> HIDE DEF f
  <2>4. \A ph \in {"first", "later"} : Inner(top) = (Tests(f(ph)) \/ f(ph).exempt)
    BY <2>1, <2>2, <2>3 DEF Tests, Inner, Frame
  <2> QED
    BY <1>p, <2>1, <2>2, <2>3, <2>4, SameExempt, PhaseExempt, BecomeExempt
<1>13. CASE EnterSimple \/ (\E k \in Kinds \cup {"list"} : EnterCompound(k))
  <2>1. PICK k \in Compound \cup {"simple"}, neg \in BOOLEAN, ph \in Phase :
          Push(NewFrame(k, exempt, neg, ph))
    <3>1. CASE EnterSimple
      BY <1>p, <3>1 DEF EnterSimple
    <3>2. ASSUME NEW k \in Kinds \cup {"list"}, EnterCompound(k)
          PROVE  \E neg \in BOOLEAN, ph \in Phase :
                   k \in Compound \cup {"simple"} /\ Push(NewFrame(k, exempt, neg, ph))
      <4>1. k \in Compound \cup {"simple"}
        BY <3>2 DEF EnterCompound, ChildKinds, Command, Compound
      <4> QED
        BY <1>p, <3>2, <4>1 DEF EnterCompound
    <3> QED
      BY <1>13, <3>1, <3>2
  <2>2. pc = "enter" /\ pc' = "step"
    BY <1>13 DEF EnterSimple, EnterCompound
  <2> DEFINE f == NewFrame(k, exempt, neg, ph)
  <2>3. f \in Frame /\ f.kind = k /\ f.exempt = exempt
    <3>1. k \in FrameKind /\ exempt \in BOOLEAN
      BY DEF FrameKind, IInv, ScalarsOK
    <3> QED
      BY <3>1, NewFrameType DEF NewFrame
  <2>4. f.kind \notin Boundary /\ (f.exempt <=> Under(stack, Len(stack)))
    BY <2>2, <2>3 DEF ExemptOK, Boundary, Compound
  <2> HIDE DEF f
  <2> QED
    BY <2>1, <2>2, <2>3, <2>4, PushExempt DEF f
<1>14. CASE RunCall \/ RunText
  <2>1. pc = "step" /\ top.kind = "simple" /\ top.phase = "start" /\ top \in Frame
    BY <1>14, <1>t DEF RunCall, RunText, Run, Running
  <2>2. stack \in Seq(Frame) /\ stack # <<>>
    BY <2>1 DEF IInv, Counted
  <2>3. Under(stack, Len(stack)) <=> Inner(top)
    <3>1. Len(stack) \in Nat /\ Len(stack) >= 1 /\ top = stack[Len(stack)] /\ Len(stack) \in 1 .. Len(stack)
      BY <2>2, EmptySeq DEF top, Last
    <3>2. top.exempt <=> Under(stack, Len(stack) - 1)
      BY <2>1, <3>1 DEF ExemptOK, Marked, Boundary
    <3>3. Under(stack, Len(stack)) <=> Tests(top) \/ (top.kind \notin TextKinds /\ top.exempt)
      BY <3>1, <3>2, UnderStep
    <3> QED
      BY <2>1, <3>3 DEF Tests, Inner, TextKinds, Frame
  <2>4. CASE UNCHANGED stack /\ pc' = "leave"
    BY <2>1, <2>4, SameExempt
  <2>5. CASE RunCall /\ ~(UNCHANGED stack /\ pc' = "leave")
    <3> DEFINE h == NewFrame("func", FALSE, FALSE, "start")
               f == [h EXCEPT !.saved.ret = ctl.ret]
    <3>1. Push(f) /\ exempt' = Inner(top)
      BY <2>5 DEF RunCall
    <3>2. h \in Frame /\ h.kind = "func" /\ h.neg = FALSE
      BY <1>p, NewFrameType DEF FrameKind, Boundary, NewFrame
    <3> HIDE DEF h
    <3>3. f \in Frame /\ f.kind = "func" /\ f.neg = FALSE
      <4>1. ctl.ret \in Status \cup {None} /\ h.saved \in Ctl
        BY <3>2, <1>t DEF Frame, Ctl
      <4>2. [h.saved EXCEPT !.ret = ctl.ret] \in Ctl
        BY <4>1 DEF Ctl
      <4> QED
        BY <3>2, <4>2 DEF Frame
    <3> HIDE DEF f
    <3>4. f.kind \in Boundary /\ f.kind \notin TextKinds /\ ~Tests(f)
      BY <3>3 DEF Boundary, TextKinds, Tests
    <3> QED
      BY <2>3, <3>1, <3>3, <3>4, PushExempt
  <2>6. CASE RunText
    <3> DEFINE f == NewFrame("source", FALSE, FALSE, "start")
    <3>1. Push(f) /\ (pc' = "enter" => exempt' = FALSE)
      BY <2>6 DEF RunText, RunString, Push
    <3>2. f \in Frame /\ f.kind = "source" /\ f.neg = FALSE
      BY <1>p, NewFrameType DEF FrameKind, Boundary, NewFrame
    <3> HIDE DEF f
    <3>3. f.kind \in Boundary /\ f.kind \in TextKinds /\ ~Tests(f)
      BY <3>2 DEF Boundary, TextKinds, Tests
    <3> QED
      BY <3>1, <3>2, <3>3, PushExempt
  <2>7. CASE RunCall /\ UNCHANGED stack /\ pc' # "leave"
    <3>1. Len(stack') = Len(stack) + 1
      BY <2>2, <2>7, AppendProperties DEF RunCall, Push
    <3> QED
      BY <2>2, <2>7, <3>1
  <2> QED
    BY <1>14, <2>4, <2>5, <2>6, <2>7
<1>15. CASE ExpandSubst
  <2> DEFINE g == [top EXCEPT !.phase = After[top.phase]]
             s == Replaced(stack, g)
             h == NewFrame("subst", FALSE, FALSE, "start")
             f == [h EXCEPT !.saved = ctl]
  <2>1. pc = "step" /\ After[top.phase] \in Phase /\ stack' = Append(s, f) /\ (pc' = "enter" => exempt' = FALSE)
        /\ top.phase # "start"
    BY <1>15 DEF ExpandSubst, Expanding, RunString, After, Phase, Replaced
  <2>2. stack \in Seq(Frame) /\ stack # <<>> /\ top = Last(stack) /\ top \in Frame /\ top.kind \notin Boundary
    BY <1>t, <2>1 DEF IInv, Counted, top
  <2>3. g \in Frame /\ g.kind = top.kind /\ g.exempt = top.exempt /\ g.neg = top.neg
    BY <2>1, <2>2 DEF Frame
  <2>4. f \in Frame /\ f.kind = "subst" /\ f.neg = FALSE
    <3>1. h \in Frame /\ h.kind = "subst" /\ h.neg = FALSE
      BY <1>p, NewFrameType DEF FrameKind, Boundary, NewFrame
    <3> HIDE DEF h
    <3> QED
      BY <3>1, <1>t DEF Frame
  <2> HIDE DEF g, f
  <2>5. s \in Seq(Frame) /\ \A i \in 1 .. Len(s) : Marked(s, i)
    BY <2>2, <2>3, ReplacedFrames, ReplaceMarks DEF ExemptOK
  <2> HIDE DEF s
  <2>6. f.kind \in Boundary /\ f.kind \in TextKinds /\ ~Tests(f)
    BY <2>4 DEF Boundary, TextKinds, Tests
  <2>7. /\ \A i \in 1 .. Len(stack') : Marked(stack', i)
        /\ ~Under(stack', Len(stack'))
    BY <2>1, <2>4, <2>5, <2>6, AppendMarks
  <2> QED
    BY <2>1, <2>7 DEF ExemptOK, Marked
<1>16. CASE ReadLine
  <2> DEFINE f == NewFrame("line", FALSE, FALSE, "start")
  <2>1. stack = <<>> /\ stack' = <<f>> /\ (pc' = "enter" => exempt' = FALSE)
    BY <1>16 DEF ReadLine, RunString, IInv
  <2>2. f \in Frame /\ f.kind = "line" /\ f.neg = FALSE
    BY <1>p, NewFrameType DEF FrameKind, Boundary, NewFrame
  <2> HIDE DEF f
  <2>3. f.kind \in Boundary /\ f.kind \in TextKinds /\ ~Tests(f)
    BY <2>2 DEF Boundary, TextKinds, Tests
  <2>4. Push(f)
    BY <2>1 DEF Push
  <2> QED
    BY <2>1, <2>2, <2>3, <2>4, PushExempt
<1>17. CASE LineEnds
  <2>1. stack' = <<>> /\ pc' # "enter"
    BY <1>17 DEF LineEnds
  <2>2. 1 .. Len(stack') = {}
    BY <2>1
  <2> QED
    BY <2>1, <2>2 DEF ExemptOK
<1> QED
  BY <1>1, <1>2, <1>3, <1>4, <1>5, <1>6, <1>7, <1>8, <1>9, <1>10, <1>11, <1>12, <1>13, <1>14,
     <1>15, <1>16, <1>17
     DEF Next, Exec, Node, Expand, Simple, Branch, Loop, Isolate

(* At its end a node is tested exactly when it is marked so.               *)
LEMMA TestedIsMarked ==
  ASSUME IInv, ExemptOK, pc = "leave"
  PROVE  Tested <=> top.neg \/ top.exempt
<1> DEFINE n == Len(stack)
<1>1. n \in Nat /\ n >= 1 /\ top = stack[n] /\ n \in 1 .. n /\ top.kind \notin Boundary
  BY EmptySeq DEF IInv, Counted, top, Last
<1>2. top.exempt <=> Under(stack, n - 1)
  BY <1>1 DEF ExemptOK, Marked
<1>3. stack[n].kind \notin TextKinds
  BY <1>1 DEF Boundary, TextKinds
<1>4. \A i \in 1 .. n - 1 :
        (\A j \in i + 1 .. n : stack[j].kind \notin TextKinds)
          <=> \A j \in i + 1 .. n - 1 : stack[j].kind \notin TextKinds
  <2>1. \A i \in 1 .. n - 1 : \A j \in i + 1 .. n : j = n \/ j \in i + 1 .. n - 1
    BY <1>1
  <2>2. \A i \in 1 .. n - 1 : \A j \in i + 1 .. n - 1 : j \in i + 1 .. n
    BY <1>1
  <2> QED
    BY <2>1, <2>2, <1>3
<1> QED
  BY <1>2, <1>4 DEF Tested, Under, TextKinds

(* A node ends in exec_node's epilogue only.                               *)
LEMMA NodeEndsInLeave ==
  ASSUME IInv, Next, NodeEnds, "redirfail" \notin Expansions
  PROVE  Leave
<1> SUFFICES ASSUME ~Leave PROVE FALSE
  OBVIOUS
<1>1. stack \in Seq(Frame) /\ Len(stack') < Len(stack) /\ top.kind \notin Boundary
  BY DEF IInv, Counted, NodeEnds
<1>2. /\ ~UNCHANGED stack
      /\ \A f : ~Become(f) /\ ~(stack' = Append(stack, f))
      /\ \A f, g : ~(stack' = Append([stack EXCEPT ![Len(stack)] = g], f))
  <2>1. Len(stack) \in Nat
    BY <1>1
  <2>2. \A g : /\ [stack EXCEPT ![Len(stack)] = g] \in Seq(Frame \cup {g})
               /\ Len([stack EXCEPT ![Len(stack)] = g]) = Len(stack)
    BY <1>1
  <2>3. \A f, g : Len(Append([stack EXCEPT ![Len(stack)] = g], f)) = Len(stack) + 1
    <3> SUFFICES ASSUME NEW f, NEW g
                 PROVE  Len(Append([stack EXCEPT ![Len(stack)] = g], f)) = Len(stack) + 1
      OBVIOUS
    <3> DEFINE s == [stack EXCEPT ![Len(stack)] = g]
    <3>1. s \in Seq(Frame \cup {g, f}) /\ Len(s) = Len(stack)
      BY <1>1
    <3> HIDE DEF s
    <3>2. Len(Append(s, f)) = Len(s) + 1
      BY <3>1, AppendProperties
    <3> QED
      BY <3>1, <3>2 DEF s
  <2>4. \A f : Len(Append(stack, f)) = Len(stack) + 1
    BY <1>1
  <2> QED
    BY <1>1, <2>1, <2>2, <2>3, <2>4 DEF Become
<1>3. \A ph : ~InPhase(ph)
  BY <1>2 DEF InPhase
<1>4. ~Node
  <2>1. \A f : ~Push(f)
    BY <1>2 DEF Push
  <2> QED
    BY <2>1, <1>3 DEF Node, EnterSimple, EnterCompound, CompoundRedir, CompoundRedirFails
<1>5. ~Expand
  BY <1>1, <1>2, <1>3 DEF Expand, ExpandFatal, ExpandSubst, RunString, SubstRedirFails, SubstReturns,
     Back, Boundary
<1>6. ~Simple
  <2>1. ~SimpleWords /\ ~SimpleNoArgs /\ ~SimpleAssign /\ ~SimplePure /\ ~SimpleBare /\ ~SimpleRedir
    BY <1>2, <1>3 DEF SimpleWords, SimpleNoArgs, SimpleAssign, SimplePure, SimpleBare, SimpleRedir
  <2>2. ~RunPlain /\ ~RunExit /\ ~RunReturn /\ ~RunBreak /\ ~RunContinue /\ ~RunBadArg /\ ~RunSet
    BY <1>2 DEF RunPlain, RunExit, RunReturn, RunBreak, RunContinue, RunBadArg, RunSet
  <2>3. ~RunCall /\ ~RunText
    BY <1>2 DEF RunCall, RunText, RunString, Push
  <2>4. ~FuncReturns /\ ~EvalReturns /\ ~SourceReturns
    BY <1>1 DEF FuncReturns, EvalReturns, SourceReturns, Back, Boundary
  <2> QED
    BY <2>1, <2>2, <2>3, <2>4 DEF Simple
<1>7. ~Branch
  BY <1>2, <1>3 DEF Branch, ListStep, ListStops, AndOrLeft, AndOrRight, IfCond, IfBody, IfEnds,
     BodyEnds, CaseWord, CaseMatch
<1>8. ~Loop
  BY <1>2, <1>3 DEF Loop, WhileStart, WhileCondStops, WhileTest, WhileBodyEnds, ForWords, ForStart,
     ForBodyEnds, LoopEnds
<1>9. ~Isolate
  BY <1>2, <1>3 DEF Isolate, GroupStart, SubshellStart, SubshellEnds, PipeStart, PipeNext, PipeStage,
     StageEnds
<1>10. ~ReadLine /\ ~LineEnds
  <2>1. ~LineEnds
    BY <1>1 DEF LineEnds, Back, Boundary
  <2>2. ~ReadLine
    <3>1. ReadLine => stack = <<>>
      BY DEF ReadLine, IInv
    <3>2. ReadLine => Len(stack') = 1
      BY DEF ReadLine, RunString
    <3> QED
      BY <1>1, <3>1, <3>2
  <2> QED
    BY <2>1, <2>2
<1> QED
  BY <1>4, <1>5, <1>6, <1>7, <1>8, <1>9, <1>10 DEF Next, Exec

(* At pc = "leave" exec_node's epilogue is what comes next.                *)
LEMMA LeaveIsNext ==
  ASSUME Next, pc = "leave"
  PROVE  Leave
<1>1. ~ReadLine /\ ~LineEnds
  BY DEF ReadLine, LineEnds, Back
<1>2. ~Expand
  BY DEF Expand, ExpandFatal, ExpandSubst, SubstRedirFails, SubstReturns, Expanding, Back
<1>3. ~Simple
  BY DEF Simple, SimpleWords, SimpleNoArgs, SimpleAssign, SimplePure, SimpleBare, SimpleRedir,
     RunPlain, RunExit, RunReturn, RunBreak, RunContinue, RunBadArg, RunSet, RunCall, FuncReturns,
     RunText, EvalReturns, SourceReturns, Run, Running, Expanded, Back
<1>4. ~Branch
  BY DEF Branch, ListStep, ListStops, AndOrLeft, AndOrRight, IfCond, IfBody, IfEnds, BodyEnds,
     CaseWord, CaseMatch, Running, Back, CondEnds, Expanded
<1>5. ~Loop
  BY DEF Loop, WhileStart, WhileCondStops, WhileTest, WhileBodyEnds, ForWords, ForStart,
     ForBodyEnds, Running, Back, Expanded
<1>6. ~Isolate
  BY DEF Isolate, GroupStart, SubshellStart, SubshellEnds, PipeStart, PipeNext, StageEnds,
     Running, Back
<1> QED
  BY <1>1, <1>2, <1>3, <1>4, <1>5, <1>6 DEF Next, Exec, Node, EnterSimple, EnterCompound,
     CompoundRedir, CompoundRedirFails

(* Under set -e a failure aborts exactly where nothing tests it: the       *)
(* exempt argument that exec_node hands to its children says so through    *)
(* lists, groups, loops, functions and subshells.  It starts afresh in the *)
(* text of an eval, and a compound node whose redirection fails skips the  *)
(* epilogue that decides: both are left out.                               *)
THEOREM ErrexitExact ==
  ASSUME "eval" \notin Builtins, "redirfail" \notin Expansions
  PROVE  Spec => ErrexitIsExact
<1>1. Init => ExemptOK
  <2> SUFFICES ASSUME Init PROVE ExemptOK
    OBVIOUS
  <2>1. 1 .. Len(stack) = {} /\ pc # "enter"
    BY DEF Init
  <2> QED
    BY <2>1 DEF ExemptOK
<1>2. IInv /\ ExemptOK /\ [Next]_vars => ExemptOK'
  <2>1. ASSUME ExemptOK, UNCHANGED vars PROVE ExemptOK'
    BY <2>1 DEF ExemptOK, Marked, Under, vars
  <2> QED
    BY <2>1, NextKeepsExempt
<1>3. IInv /\ ExemptOK /\ [Next]_vars => [SparesTested /\ CatchesFailure]_vars
  <2> SUFFICES ASSUME IInv, ExemptOK, Next PROVE SparesTested /\ CatchesFailure
    OBVIOUS
  <2>1. SparesTested
    <3> SUFFICES ASSUME pc = "leave", ~Exiting(ctl), Exiting(ctl') PROVE ~Tested
      BY DEF SparesTested
    <3>1. ErrexitFires(top, Negate(top, status))
      BY LeaveIsNext DEF Leave
    <3> QED
      BY <3>1, TestedIsMarked DEF ErrexitFires
  <2>2. CatchesFailure
    <3> SUFFICES ASSUME NodeEnds, errexit, top.kind \notin Structural, ~Tested, status' # 0
                 PROVE  Pending(ctl')
      BY DEF CatchesFailure
    <3>1. Leave /\ pc = "leave"
      BY NodeEndsInLeave DEF Leave
    <3>2. ~top.exempt /\ ~top.neg
      BY <3>1, TestedIsMarked
    <3>3. /\ status' = Negate(top, status)
          /\ ctl' = IF ErrexitFires(top, status') THEN [ctl EXCEPT !.exit = status'] ELSE ctl
      BY <3>1 DEF Leave, Deliver, Goto
    <3>4. CASE Pending(ctl)
      BY <3>3, <3>4 DEF ErrexitFires
    <3>5. CASE ~Pending(ctl)
      <4>1. ctl' = [ctl EXCEPT !.exit = status']
        BY <3>2, <3>3, <3>5 DEF ErrexitFires
      <4>2. ctl \in Ctl /\ status' \in Status
        BY <3>3, StatusFacts DEF IInv, ScalarsOK, Negate, Status
      <4>3. ctl'.exit = status' /\ status' # None
        BY <4>1, <4>2, ConstantsAssumption DEF Ctl, Status, None
      <4> QED
        BY <4>3 DEF Pending, Leaving, Exiting
    <3> QED
      BY <3>4, <3>5
  <2> QED
    BY <2>1, <2>2
<1> QED
  BY <1>1, <1>2, <1>3, Invariance, PTL DEF Spec, ErrexitIsExact

-----------------------------------------------------------------------------
(* What an exit hands to the part that confines it.                        *)

(* A while loop that an exit in its condition ends, and a negated command, *)
(* have a status of their own.                                             *)
StatusHandedOn ==
  SyntaxErrorsUnwind /\ Kinds \cap {"while", "until", "not"} = {}

ExitOK ==
  Exiting(ctl) /\ pc \in {"leave", "back"} =>
    /\ ctl.ret = None /\ status = ctl.exit
    /\ pc = "back" => lastStatus = ctl.exit
    /\ Texts # {} /\ parseError => ctl.exit = 2

(* Where a step begins with nothing pending and changes no flag, no exit   *)
(* follows.                                                                *)
LEMMA NoExitKeeps ==
  ASSUME ctl' = NoCtl \/ pc' \notin {"leave", "back"}
  PROVE  ExitOK'
  BY NoCtlFacts DEF ExitOK

(* The builtins and exec_node's epilogue.                                  *)
LEMMA SetKeepsExitOK ==
  ASSUME IInv, CInv, Orderly, StatusHandedOn, ExitOK,
         RunExit \/ RunReturn \/ RunBreak \/ RunContinue \/ RunBadArg \/ Leave
  PROVE  ExitOK'
<1> USE DEF Goto, Finish, Deliver
<1>1. CASE RunExit \/ RunReturn \/ RunBreak \/ RunContinue \/ RunBadArg
  <2>1. pc = "step" /\ pc' = "leave" /\ UNCHANGED parseError
    BY <1>1 DEF RunExit, RunReturn, RunBreak, RunContinue, RunBadArg, Run, Running
  <2>2. /\ ctl \in Ctl /\ ctl.exit = None /\ ctl.ret = None
        /\ Texts # {} => ~parseError
    BY <2>1, TopSound, Quiet, NoCtlFacts DEF StatusHandedOn
  <2>3. ctl'.exit # None => ctl'.ret = None /\ status' = ctl'.exit
    <3>1. CASE RunExit
      BY <3>1, <2>2 DEF RunExit, Ctl
    <3>2. CASE RunBadArg
      BY <3>2, <2>2 DEF RunBadArg, Ctl
    <3>3. CASE RunReturn \/ RunBreak \/ RunContinue
      BY <3>3, <2>2 DEF RunReturn, RunBreak, RunContinue, Ctl
    <3> QED
      BY <1>1, <3>1, <3>2, <3>3
  <2> QED
    BY <2>1, <2>2, <2>3 DEF ExitOK, Exiting
<1>2. CASE Leave
  <2>1. pc = "leave" /\ pc' = "back" /\ UNCHANGED parseError
    BY <1>2 DEF Leave
  <2>2. ctl \in Ctl /\ ~top.neg
    BY <2>1, TopSound DEF StatusHandedOn
  <2>3. status' = status /\ lastStatus' = status
    BY <1>2, <2>2 DEF Leave, Negate
  <2>4. CASE ctl' = ctl
    BY <2>1, <2>3, <2>4 DEF ExitOK, Exiting
  <2>5. CASE ~Pending(ctl) /\ ctl' = [ctl EXCEPT !.exit = status]
    <3>1. ctl'.exit = status /\ ctl'.ret = None
      BY <2>2, <2>5 DEF Pending, Leaving, Ctl
    <3>2. Texts # {} => ~parseError
      BY <2>1, <2>5 DEF CInv, StatusHandedOn, SyntaxOK, JustRefused, Pending, Leaving
    <3> QED
      BY <2>1, <2>3, <3>1, <3>2 DEF ExitOK
  <2>6. ctl' = ctl \/ (~Pending(ctl) /\ ctl' = [ctl EXCEPT !.exit = status])
    BY <1>2, <2>2 DEF Leave, ErrexitFires, Negate
  <2> QED
    BY <2>4, <2>5, <2>6
<1> QED
  BY <1>1, <1>2

(* Nodes hand on the status of the child that an exit ended.               *)
LEMMA EndKeepsExitOK ==
  ASSUME IInv, CInv, Orderly, StatusHandedOn, ExitOK,
         Ends \/ WhileCondStops \/ WhileBodyEnds \/ ForBodyEnds
  PROVE  ExitOK'
<1> USE DEF Goto, Call, Finish, NoCtlChange
<1>1. pc = "back" /\ pc' \in {"enter", "leave"} /\ UNCHANGED parseError
  <2>1. CASE Ends
    BY <2>1 DEF Ends, ListStep, ListStops, AndOrRight, IfCond, IfBody, IfEnds, BodyEnds, WhileTest,
       CondEnds, Back, Running, LoopEnds
  <2>2. CASE WhileCondStops \/ WhileBodyEnds \/ ForBodyEnds
    BY <2>2 DEF WhileCondStops, WhileBodyEnds, ForBodyEnds, Back, LoopEnds
  <2> QED
    BY <2>1, <2>2
<1>2. ctl \in Ctl /\ top.kind \notin CondLoop
  BY <1>1, TopSound DEF Used, StatusHandedOn, Compound, CondLoop
<1>3. ~WhileTest /\ ~WhileCondStops /\ ~WhileBodyEnds
  BY <1>2 DEF WhileTest, WhileCondStops, WhileBodyEnds
<1>4. ctl'.exit = ctl.exit /\ ctl'.ret = ctl.ret
  <2>1. CASE Ends
    BY <2>1, <1>3 DEF Ends, ListStep, ListStops, AndOrRight, IfCond, IfBody, IfEnds, BodyEnds
  <2>2. CASE ForBodyEnds
    BY <2>2, <1>2, LoopControlFacts DEF ForBodyEnds
  <2> QED
    BY <2>1, <2>2, <1>3
<1>5. Exiting(ctl) /\ pc' = "leave" => status' = status
  <2>1. CASE Ends
    BY <2>1, <1>3 DEF Ends, ListStep, ListStops, AndOrRight, IfCond, IfBody, IfEnds, BodyEnds,
       Leaving, Pending, Running, Back
  <2>2. CASE ForBodyEnds
    BY <2>2 DEF ForBodyEnds, LoopEnds
  <2> QED
    BY <2>1, <2>2, <1>3
<1> QED
  BY <1>1, <1>4, <1>5 DEF ExitOK, Exiting

(* A function, eval or source that an exit ended.                          *)
LEMMA ReturnKeepsExitOK ==
  ASSUME IInv, CInv, Orderly, StatusHandedOn, ExitOK, FuncReturns \/ EvalReturns \/ SourceReturns
  PROVE  ExitOK'
<1> USE DEF Goto, Finish
<1>1. /\ pc = "back" /\ pc' = "leave" /\ UNCHANGED parseError
      /\ top.kind \in {"func", "eval", "source"}
  BY DEF FuncReturns, EvalReturns, SourceReturns, Back
<1>2. ctl \in Ctl /\ top.saved = NoCtl /\ Used(top.kind) /\ parseError \in BOOLEAN
  BY <1>1, TopSound
<1>3. CASE FuncReturns
  <2>1. ReturnPendingAfter(top.saved.ret) = {None}
    BY <1>2, NoCtlFacts DEF ReturnPendingAfter
  <2>2. /\ ctl' = [ctl EXCEPT !.ret = None]
        /\ status' = IF ctl.ret # None THEN ctl.ret ELSE lastStatus
    BY <1>3, <2>1 DEF FuncReturns
  <2>3. ctl'.exit = ctl.exit /\ ctl'.ret = None
    BY <2>2, <1>2 DEF Ctl
  <2> QED
    BY <1>1, <2>2, <2>3 DEF ExitOK, Exiting
<1>4. CASE EvalReturns \/ SourceReturns
  <2>1. Texts # {}
    BY <1>2, <1>4 DEF EvalReturns, SourceReturns, Back, Used, Texts
  <2>2. parseError => (Exiting(ctl) /\ ctl.exit = 2) \/ (ctl.exit = None /\ ctl.ret = None /\ status = 2)
    BY <1>1, <2>1, NoCtlFacts DEF CInv, SyntaxOK, JustRefused, ExitOK, StatusHandedOn
  <2>3. /\ ctl'.exit = IF parseError THEN 2 ELSE ctl.exit
        /\ ctl'.ret \in {None, ctl.ret}
    <3>1. CASE EvalReturns
      BY <3>1, <1>2 DEF EvalReturns, SyntaxErrorIsFatal, Ctl
    <3>2. CASE SourceReturns
      <4>1. /\ [ctl EXCEPT !.ret = None] \in Ctl /\ [ctl EXCEPT !.ret = None].ret = None
            /\ [ctl EXCEPT !.ret = None].exit = ctl.exit
        BY <1>2 DEF Ctl, None
      <4> QED
        BY <3>2, <4>1 DEF SourceReturns, SyntaxErrorIsFatal, Ctl
    <3> QED
      BY <1>4, <3>1, <3>2
  <2>4. /\ Exiting(ctl) => ctl.ret = None /\ status = ctl.exit
        /\ ctl.ret = None => status' = StringStatus
    BY <1>1, <1>4 DEF ExitOK, EvalReturns, SourceReturns
  <2> QED
    BY <1>1, <2>1, <2>2, <2>3, <2>4 DEF ExitOK, Exiting, StringStatus
<1> QED
  BY <1>3, <1>4

(* Every step hands the code of an exit on.                                *)
LEMMA NextKeepsExitOK ==
  ASSUME IInv, CInv, Orderly, StatusHandedOn, ExitOK, Next
  PROVE  ExitOK'
<1>1. CASE \/ EnterSimple \/ (\E k \in Kinds \cup {"list"} : EnterCompound(k)) \/ Steps
           \/ ExpandSubst \/ RunText \/ ((ListStep \/ IfCond) /\ pc # "back")
  <2>1. pc \in {"enter", "step"} /\ UNCHANGED ctl
    <3>1. CASE EnterSimple \/ (\E k \in Kinds \cup {"list"} : EnterCompound(k))
      BY <3>1 DEF EnterSimple, EnterCompound, NoCtlChange
    <3>2. CASE Steps
      BY <3>2 DEF Steps, CompoundRedir, CompoundRedirFails, SubstRedirFails, Expanding, Expanded,
         SimpleWords, SimpleNoArgs, SimpleAssign, SimplePure, SimpleBare, SimpleRedir,
         RunPlain, RunSet, Run, Running, AndOrLeft, WhileStart, ForWords, ForStart,
         CaseWord, CaseMatch, GroupStart, SubshellStart, PipeStart, PipeNext, NoCtlChange
    <3>3. CASE ExpandSubst \/ RunText
      BY <3>3 DEF ExpandSubst, RunText, Expanding, Run, Running
    <3>4. CASE (ListStep \/ IfCond) /\ pc # "back"
      BY <3>4 DEF ListStep, IfCond, Running, Back, NoCtlChange
    <3> QED
      BY <1>1, <3>1, <3>2, <3>3, <3>4
  <2> QED
    BY <2>1, Quiet, NoExitKeeps
<1>2. CASE RunCall
  <2>1. pc = "step" /\ (UNCHANGED ctl \/ pc' = "enter")
    BY <1>2 DEF RunCall, Run, Running, Call, Goto
  <2> QED
    BY <2>1, Quiet, NoExitKeeps
<1>3. CASE ReadLine
  BY <1>3, NoExitKeeps DEF ReadLine, CInv
<1>4. CASE LineEnds
  <2>1. pc' \in {"idle", "done"}
    BY <1>4 DEF LineEnds, Goto
  <2> QED
    BY <2>1, NoExitKeeps
<1>5. CASE ExpandFatal
  BY <1>5 DEF ExpandFatal, Orderly
<1>6. CASE SubstReturns \/ SubshellEnds \/ StageEnds
  BY <1>6, RestoreKeepsCInv, NoExitKeeps
<1>7. CASE RunExit \/ RunReturn \/ RunBreak \/ RunContinue \/ RunBadArg \/ Leave
  BY <1>7, SetKeepsExitOK
<1>8. CASE \/ ((ListStep \/ IfCond) /\ pc = "back") \/ ListStops \/ AndOrRight \/ IfBody \/ IfEnds
           \/ BodyEnds \/ WhileTest \/ WhileCondStops \/ WhileBodyEnds \/ ForBodyEnds
  BY <1>8, EndKeepsExitOK DEF Ends
<1>9. CASE FuncReturns \/ EvalReturns \/ SourceReturns
  BY <1>9, ReturnKeepsExitOK
<1> QED
  BY <1>1, <1>2, <1>3, <1>4, <1>5, <1>6, <1>7, <1>8, <1>9
     DEF Next, Exec, Node, Expand, Simple, Branch, Loop, Isolate, Steps

(* exit n in a subshell, a command substitution or a pipeline stage makes  *)
(* n its status, through every list, group, loop, case, if, function, eval *)
(* and source inside it.                                                   *)
THEOREM ExitCodeHandedOn ==
  ASSUME Orderly, StatusHandedOn
  PROVE  Spec => []ExitCodeIsStatus
<1>1. Init => ExitOK
  BY NoCtlFacts DEF Init, ExitOK
<1>2. IInv /\ CInv /\ ExitOK /\ [Next]_vars => ExitOK'
  <2>1. ASSUME ExitOK, UNCHANGED vars PROVE ExitOK'
    BY <2>1 DEF ExitOK, Exiting, vars
  <2> QED
    BY <2>1, NextKeepsExitOK
<1>3. ExitOK => ExitCodeIsStatus
  BY DEF ExitOK, ExitCodeIsStatus
<1> QED
  BY <1>1, <1>2, <1>3, ControlInvariance, PTL DEF Spec
=============================================================================
