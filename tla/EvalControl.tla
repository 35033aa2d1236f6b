----------------------------- MODULE EvalControl -----------------------------
(***************************************************************************)
(* The control flow of the evaluator: nested term lists, operands, loops,  *)
(* scopes, method calls and loaded tables, each a C call that works on the *)
(* one shared AML_STATE and must put back what it changed, whether the     *)
(* code in it ends, is interrupted or fails.                               *)
(*                                                                         *)
(* The byte code is arbitrary: a term list runs any of the terms that its  *)
(* pass evaluates, in any order, and may end or fail at any point.  The C  *)
(* stack is "frames"; "ok" is what the last call returned, and remains     *)
(* TRUE while a list or an operand runs.  Arguments of a call are operands *)
(* that are evaluated before it.                                           *)
(***************************************************************************)
EXTENDS Integers, Sequences, FiniteSets

CONSTANTS MaxDepth,       \* AML_BUILD_MAX_RECURSION_DEPTH
          MaxIterations,  \* AML_BUILD_MAX_LOOP_ITERATIONS
          MaxTerms,       \* bound: terms that a list may evaluate
          MaxLeaks        \* bound: snapshots that are left behind

ASSUME EvalAssumption ==
  /\ MaxDepth \in Nat \ {0}
  /\ MaxIterations \in Nat \ {0}
  /\ MaxTerms \in Nat \ {0}
  /\ MaxLeaks \in Nat

VARIABLES
  frames,    \* the active C calls, innermost last
  ok,        \* what the last call returned
  eval,      \* the part of AML_STATE that a snapshot saves
  snapshots, \* the state snapshot stack
  depth,     \* RecursionDepth
  panic,     \* AML_DEBUG_PANIC or AML_TRAP_STRING was reached
  leaks      \* snapshots that a failed call has left behind

vars == <<frames, ok, eval, snapshots, depth, panic, leaks>>

Events == {"none", "break", "continue", "return"}

\* data and window are the frames whose code block, and whose part of it, the
\* decoder reads: 0 when no code runs.
EvalState == [pass: {"namespace", "full"}, level: Nat, start: Nat, loops: Nat,
              event: Events, ns: Nat, data: Nat, window: Nat]

\* AmlStateCreate: a first snapshot, then the root method scope.
Init ==
  /\ frames = <<>>
  /\ ok = TRUE
  /\ eval = [pass |-> "full", level |-> 1, start |-> 0, loops |-> 0,
             event |-> "none", ns |-> 0, data |-> 0, window |-> 0]
  /\ snapshots = <<[eval EXCEPT !.level = 0]>>
  /\ depth = 0
  /\ panic = FALSE
  /\ leaks = 0

Top == frames[Len(frames)]
Below == SubSeq(frames, 1, Len(frames) - 1)
OnTop(kind) == frames # <<>> /\ ~panic /\ Top.kind = kind

-----------------------------------------------------------------------------
(* AmlEvalTermListCode.  A list that fails restores nothing; one that is    *)
(* refused has changed nothing.                                             *)

EnterList(fs, e) ==
  \/ /\ depth < MaxDepth
     /\ frames' = Append(fs, [kind |-> "list", left |-> MaxTerms,
                              depth |-> depth, window |-> e.window])
     /\ eval' = [e EXCEPT !.window = Len(fs) + 1]
     /\ depth' = depth + 1
     /\ ok' = TRUE
  \/ /\ frames' = fs
     /\ eval' = e
     /\ ok' = FALSE
     /\ UNCHANGED depth

\* A term of the list, or an expression of the operand, may be evaluated.
Ready ==
  /\ frames # <<>> /\ ~panic /\ ok
  /\ Top.kind \in {"list", "arg"}
  /\ Top.left > 0
  /\ eval.event = "none"

Statement == Ready /\ Top.kind = "list" /\ eval.pass = "full"

\* The frames once the innermost one has one term less to evaluate.
Consumed == [frames EXCEPT ![Len(frames)].left = @ - 1]

\* A term that changes none of this state.
Plain ==
  /\ Ready
  /\ frames' = Consumed
  /\ UNCHANGED <<ok, eval, snapshots, depth, panic, leaks>>

\* An If may fail after its branch, with an event pending.
TermFails ==
  /\ frames # <<>> /\ ~panic /\ ok
  /\ Top.kind \in {"list", "arg"}
  /\ ok' = FALSE
  /\ UNCHANGED <<frames, eval, snapshots, depth, panic, leaks>>

\* The code ends, or an interruption event is pending.
ListEnds ==
  /\ OnTop("list") /\ ok
  /\ frames' = Below
  /\ depth' = Top.depth
  /\ eval' = [eval EXCEPT !.window = Top.window]
  /\ UNCHANGED <<ok, snapshots, panic, leaks>>

ListFails ==
  /\ OnTop("list") /\ ~ok
  /\ frames' = Below
  /\ UNCHANGED <<ok, eval, snapshots, depth, panic, leaks>>

\* AmlEvalIfElse: one branch in the full pass, both in the namespace pass.
If ==
  /\ Ready /\ Top.kind = "list"
  /\ EnterList(Consumed, eval)
  /\ UNCHANGED <<snapshots, panic, leaks>>

-----------------------------------------------------------------------------
(* AmlEvalTermArg restores the depth whether or not the operand evaluates.  *)

EnterArg(fs, returns) ==
  \/ /\ depth < MaxDepth
     /\ frames' = Append(fs, [kind |-> "arg", left |-> 1, depth |-> depth,
                              returns |-> returns])
     /\ depth' = depth + 1
     /\ ok' = TRUE
  \/ /\ depth >= MaxDepth
     /\ frames' = fs
     /\ ok' = FALSE
     /\ UNCHANGED depth

Operand ==
  /\ Ready /\ eval.pass = "full"
  /\ EnterArg(Consumed, FALSE)
  /\ UNCHANGED <<eval, snapshots, panic, leaks>>

\* The operand of a Return has the event set by the statement.
ArgEnds ==
  /\ OnTop("arg")
  /\ frames' = Below
  /\ depth' = Top.depth
  /\ eval' = IF ok /\ Top.returns THEN [eval EXCEPT !.event = "return"] ELSE eval
  /\ UNCHANGED <<ok, snapshots, panic, leaks>>

-----------------------------------------------------------------------------
(* AmlEvalStatementOpcode: Break, Continue, Return.                         *)

Interrupt(event) ==
  /\ Statement
  /\ frames' = Consumed
  /\ eval' = IF eval.loops = 0 THEN eval ELSE [eval EXCEPT !.event = event]
  /\ UNCHANGED <<ok, snapshots, depth, panic, leaks>>

Return ==
  /\ Statement
  /\ IF eval.level = 1
     THEN frames' = frames /\ ok' = FALSE /\ UNCHANGED depth
     ELSE EnterArg(Consumed, TRUE)
  /\ UNCHANGED <<eval, snapshots, panic, leaks>>

-----------------------------------------------------------------------------
(* AmlEvalWhile.  An error in the predicate or in the body leaves the loop  *)
(* level as it is.                                                          *)

While ==
  /\ Statement
  /\ EnterArg(Append(Consumed, [kind |-> "while", i |-> 0, body |-> FALSE,
                                event |-> "none"]), FALSE)
  /\ UNCHANGED <<eval, snapshots, panic, leaks>>

\* The predicate is true, and the iterations are not used up.
Iterate ==
  /\ OnTop("while") /\ ok /\ ~Top.body
  /\ Top.i < MaxIterations
  /\ EnterList(Append(Below, [Top EXCEPT !.body = TRUE, !.event = eval.event]),
               [eval EXCEPT !.loops = @ + 1, !.event = "none"])
  /\ UNCHANGED <<snapshots, panic, leaks>>

\* The predicate is false, or the loop fails.
LoopEnds ==
  /\ OnTop("while")
  /\ ~Top.body \/ ~ok
  /\ frames' = Below
  /\ ok' \in {ok, ok /\ Top.i < MaxIterations}
  /\ UNCHANGED <<eval, snapshots, depth, panic, leaks>>

\* The iterations are not counted.
IterationEnds_NoCount ==
  LET next == [Top EXCEPT !.body = FALSE]
  IN  /\ OnTop("while") /\ ok /\ Top.body
      /\ eval' = [eval EXCEPT !.loops = @ - 1,
                    !.event = IF @ = "return" THEN @ ELSE Top.event]
      /\ IF eval.event \in {"break", "return"}
         THEN frames' = Below /\ UNCHANGED <<ok, depth>>
         ELSE EnterArg(Append(Below, next), FALSE)
      /\ UNCHANGED <<snapshots, panic, leaks>>

\* A Return leaves the loop before the level is decreased.
IterationEnds_LevelLast ==
  LET next == [Top EXCEPT !.body = FALSE, !.i = @ + 1]
  IN  /\ OnTop("while") /\ ok /\ Top.body
      /\ eval' = IF eval.event = "return" THEN eval
                 ELSE [eval EXCEPT !.loops = @ - 1, !.event = Top.event]
      /\ IF eval.event \in {"break", "return"}
         THEN frames' = Below /\ UNCHANGED <<ok, depth>>
         ELSE EnterArg(Append(Below, next), FALSE)
      /\ UNCHANGED <<snapshots, panic, leaks>>

\* The list of the body has ended.
IterationEnds ==
  LET next == [Top EXCEPT !.body = FALSE, !.i = @ + 1]
  IN  /\ OnTop("while") /\ ok /\ Top.body
      /\ eval' = [eval EXCEPT !.loops = @ - 1,
                    !.event = IF @ = "return" THEN @ ELSE Top.event]
      /\ IF eval.event \in {"break", "return"}
         THEN frames' = Below /\ UNCHANGED <<ok, depth>>
         ELSE EnterArg(Append(Below, next), FALSE)
      /\ UNCHANGED <<snapshots, panic, leaks>>

-----------------------------------------------------------------------------
(* AmlEvalScope, and the named objects with a body.  An error leaves the    *)
(* namespace scope pushed.                                                  *)

Scope ==
  /\ Ready /\ Top.kind = "list"
  /\ EnterList(Append(Consumed, [kind |-> "scope"]), [eval EXCEPT !.ns = @ + 1])
  /\ UNCHANGED <<snapshots, panic, leaks>>

ScopeEnds ==
  /\ OnTop("scope")
  /\ frames' = Below
  /\ eval' = IF ok THEN [eval EXCEPT !.ns = @ - 1] ELSE eval
  /\ UNCHANGED <<ok, snapshots, depth, panic, leaks>>

-----------------------------------------------------------------------------
(* AmlStateSnapshotCommit with RestoreEvalState, which is also what         *)
(* AmlStateSnapshotRollback does in the build that is shipped.              *)

\* Only the position in the code is restored, not the loop level.
Saved_NoLoops == [snapshots[Len(snapshots)] EXCEPT !.loops = eval.loops]

Saved == snapshots[Len(snapshots)]

\* What was popped beyond the snapshot cannot be put back.
Unrestorable(e) ==
  e.level < Saved.level \/ e.start < Saved.start \/ e.ns < Saved.ns

Commit(e) ==
  /\ snapshots' = SubSeq(snapshots, 1, Len(snapshots) - 1)
  /\ panic' = Unrestorable(e)

-----------------------------------------------------------------------------
(* AmlMethodInvoke.                                                         *)

Invoke(fs) ==
  LET pushed == [eval EXCEPT !.level = @ + 1]
      entered == [pushed EXCEPT !.ns = @ + 1]
      called == Append(fs, [kind |-> "method", level |-> pushed.level,
                            event |-> eval.event])
  IN  \/ \* No method scope, or no snapshot: nothing remains of the call.
         /\ frames' = fs /\ ok' = FALSE
         /\ UNCHANGED <<eval, snapshots, depth, leaks>>
      \/ \* No namespace scope: the snapshot remains.
         /\ leaks < MaxLeaks
         /\ leaks' = leaks + 1
         /\ snapshots' = Append(snapshots, pushed)
         /\ frames' = fs /\ ok' = FALSE
         /\ UNCHANGED <<eval, depth>>
      \/ \* A method of the host.
         /\ frames' = called /\ eval' = entered
         /\ ok' \in BOOLEAN
         /\ snapshots' = Append(snapshots, pushed)
         /\ UNCHANGED <<depth, leaks>>
      \/ \* A method of the table.
         /\ EnterList(called, [entered EXCEPT !.data = Len(called)])
         /\ snapshots' = Append(snapshots, pushed)
         /\ UNCHANGED leaks

Call ==
  /\ Ready /\ eval.pass = "full"
  /\ Invoke(Consumed)
  /\ UNCHANGED panic

\* A call that fails keeps its snapshot.
MethodReturns_NoRollback ==
  LET popped == [eval EXCEPT !.ns = IF @ = 0 THEN 0 ELSE @ - 1]
  IN  /\ OnTop("method")
      /\ frames' = Below
      /\ snapshots' = IF ok THEN SubSeq(snapshots, 1, Len(snapshots) - 1)
                      ELSE snapshots
      /\ panic' = (Unrestorable(popped) \/ Saved.level # Top.level)
      /\ UNCHANGED ok
      /\ eval' = [Saved EXCEPT !.event = Top.event, !.level = @ - 1]
      /\ UNCHANGED <<depth, leaks>>

\* The namespace scope is popped, the snapshot is committed or rolled back, and
\* the scope of the method is popped.
MethodReturns ==
  LET popped == [eval EXCEPT !.ns = IF @ = 0 THEN 0 ELSE @ - 1]
      misplaced == Saved.event \notin {"none", "return"}
  IN  /\ OnTop("method")
      /\ frames' = Below
      /\ snapshots' = SubSeq(snapshots, 1, Len(snapshots) - 1)
      /\ panic' = (Unrestorable(popped) \/ Saved.level # Top.level)
      /\ ok' = (ok /\ eval.ns > 0 /\ ~misplaced /\ Saved.level > Saved.start)
      /\ eval' = [Saved EXCEPT !.event = IF misplaced THEN @ ELSE Top.event,
                    !.level = IF @ > Saved.start THEN @ - 1 ELSE @]
      /\ UNCHANGED <<depth, leaks>>

-----------------------------------------------------------------------------
(* AmlEvalLoadedTableCode: the table is evaluated twice, in a method scope  *)
(* of its own.  LoadTable takes a failed load for a result of zero.         *)

\* The recursion starts afresh as the loops do.
EnterTable_ResetDepth(fs, tolerant) ==
  LET level == eval.level + 1
  IN  /\ snapshots' = Append(snapshots, eval)
      /\ frames' = fs \o <<[kind |-> "table", full |-> FALSE, level |-> level,
                            tolerant |-> tolerant],
                           [kind |-> "list", left |-> MaxTerms, depth |-> 0,
                            window |-> eval.window]>>
      /\ eval' = [eval EXCEPT !.pass = "namespace", !.level = level,
                    !.start = level, !.loops = 0, !.event = "none",
                    !.ns = @ + 1, !.data = Len(fs) + 1, !.window = Len(fs) + 2]
      /\ depth' = 1
      /\ ok' = TRUE

EnterTable(fs, tolerant) ==
  LET level == eval.level + 1
  IN  \/ \* No snapshot, or no scope: nothing remains of the load.
         /\ frames' = fs /\ ok' = tolerant
         /\ UNCHANGED <<eval, snapshots, depth>>
      \/ /\ snapshots' = Append(snapshots, eval)
         /\ EnterList(Append(fs, [kind |-> "table", full |-> FALSE,
                                  level |-> level, tolerant |-> tolerant]),
                      [eval EXCEPT !.pass = "namespace", !.level = level,
                         !.start = level, !.loops = 0, !.event = "none",
                         !.ns = @ + 1, !.data = Len(fs) + 1])

Load ==
  /\ Ready /\ eval.pass = "full"
  /\ \E tolerant \in BOOLEAN : EnterTable(Consumed, tolerant)
  /\ UNCHANGED <<panic, leaks>>

FullPass ==
  /\ OnTop("table") /\ ok /\ ~Top.full
  /\ EnterList(Append(Below, [Top EXCEPT !.full = TRUE]),
               [eval EXCEPT !.pass = "full"])
  /\ UNCHANGED <<snapshots, panic, leaks>>

TableEnds ==
  /\ OnTop("table")
  /\ ok => Top.full
  /\ frames' = Below
  /\ Commit(eval)
  /\ eval' = Saved
  /\ ok' = (ok \/ Top.tolerant)
  /\ UNCHANGED <<depth, leaks>>

-----------------------------------------------------------------------------
(* The host loads a table or invokes a method.                              *)

HostEnters ==
  /\ frames = <<>> /\ ~panic
  /\ \/ Invoke(<<>>)
     \/ EnterTable(<<>>, FALSE) /\ UNCHANGED leaks
  /\ UNCHANGED panic

Step ==
  \/ Plain \/ TermFails \/ ListEnds \/ ListFails \/ If
  \/ Operand \/ ArgEnds
  \/ Interrupt("break") \/ Interrupt("continue") \/ Return
  \/ While \/ Iterate \/ LoopEnds \/ IterationEnds
  \/ Scope \/ ScopeEnds
  \/ Call \/ MethodReturns
  \/ Load \/ FullPass \/ TableEnds

Next == HostEnters \/ Step

Spec == Init /\ [][Next]_vars

\* The evaluator runs on the thread that called it, and goes on running.
FairSpec == Spec /\ WF_vars(Step)

-----------------------------------------------------------------------------
Frames(kind) == {i \in DOMAIN frames : frames[i].kind = kind}
Calls == Frames("method") \cup Frames("table")
Innermost(S) == IF S = {} THEN 0 ELSE CHOOSE i \in S : \A j \in S : j <= i
LastTable == Innermost(Frames("table"))
Loops == {i \in Frames("while") : frames[i].body /\ i > LastTable}

\* The variables keep their types, and the recursion its limit.
TypeOK ==
  /\ \A i \in DOMAIN frames :
       frames[i].kind \in {"list", "arg", "while", "scope", "method", "table"}
  /\ ok \in BOOLEAN
  /\ eval \in EvalState
  /\ \A i \in DOMAIN snapshots : snapshots[i] \in EvalState
  /\ depth \in 0..MaxDepth
  /\ panic \in BOOLEAN
  /\ leaks \in 0..MaxLeaks

\* Also while an error is on its way out, there is one method scope and one
\* snapshot for each active call and load, and the scopes of the code that
\* loaded the innermost table are out of its reach.
ScopesMatchFrames ==
  leaks = 0 =>
    /\ eval.level = 1 + Cardinality(Calls)
    /\ eval.start = IF LastTable = 0 THEN 0
                    ELSE 1 + Cardinality({i \in Calls : i <= LastTable})
    /\ Len(snapshots) = 1 + Cardinality(Calls)

\* Unless an error is on its way out, the loop level counts the loops of the
\* innermost table whose body runs, the namespace scope is as deep as the scopes
\* and calls, the decoder reads the code of the innermost list, and the pass is
\* the one that the innermost table is in: whatever failed before.
ContextMatchesFrames ==
  leaks = 0 /\ ok =>
    /\ eval.loops = Cardinality(Loops)
    /\ eval.ns = Cardinality(Calls \cup Frames("scope"))
    /\ eval.window = Innermost(Frames("list"))
    /\ frames # <<>> /\ Top.kind # "method" => eval.data = Innermost(Calls)
    /\ eval.pass = IF LastTable = 0 \/ frames[LastTable].full THEN "full"
                   ELSE "namespace"

\* When a call of the host has returned, failed or not, nothing of it is left in
\* the state that the next one starts from.
IdleIsClean ==
  frames = <<>> /\ leaks = 0 /\ ~panic =>
    /\ eval = [pass |-> "full", level |-> 1, start |-> 0, loops |-> 0,
               event |-> "none", ns |-> 0, data |-> 0, window |-> 0]
    /\ Len(snapshots) = 1

\* The recursion depth never falls behind the lists and operands that are on the
\* C stack, so that its limit does bound the stack.
DepthCoversStack == Cardinality(Frames("list") \cup Frames("arg")) <= depth

\* A break or continue is pending only where a loop will take it, a return only
\* within a call; and while one is pending no operand is evaluated.
InterruptionsAreTaken ==
  ok /\ leaks = 0 =>
    /\ eval.event \in {"break", "continue"} => Loops # {}
    /\ eval.event = "return" => Calls # {}
    /\ eval.event # "none" => Top.kind # "arg"

\* However the evaluation came here, through errors and interruptions, what the
\* evaluator shares between its levels is what the C stack says.
StateMatchesFrames ==
  TypeOK /\ ScopesMatchFrames /\ ContextMatchesFrames /\ InterruptionsAreTaken

\* No snapshot finds that its scopes have been popped by the code within it.
SnapshotsHoldScopes == leaks = 0 => ~panic

\* Byte code cannot keep the host for ever: every call of the host returns.
EveryEntryReturns == []<>(frames = <<>> \/ panic)

\* A return is executed in the body of a method, not in that of a table
\* (aml_eval_statement.c: "Return outside of method body").
ReturnsAreInMethods ==
  ok /\ eval.event = "return" /\ Calls # {} =>
    frames[Innermost(Calls)].kind = "method"

\* The body of a method ends by itself or by a return (aml_method.c: "No control
\* flow interruption events other than return should be triggered").
MethodsEndByReturn ==
  OnTop("method") /\ ok => eval.event \in {"none", "return"}

\* Code within a snapshot never pops beyond it (aml_state_snapshot.c: "The code
\* executed within the snapshot should never be able to pop the scope out of the
\* bounds of the snapshot."), also when memory has run out.
ScopesStayInSnapshots == ~panic

\* The depth counts the recursion that is active (aml_state.h: "Active recursion
\* depth."): none when no call is.
IdleHasNoDepth == frames = <<>> => depth = 0
=============================================================================
