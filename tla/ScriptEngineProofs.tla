------------------------- MODULE ScriptEngineProofs -------------------------
(***************************************************************************)
(* Theorems about ScriptEngine, for every inventory, list of requested     *)
(* tasks and depth of calls: the inductive invariant and what follows from *)
(* it; then, resting on it, that a role meets a server once, which         *)
(* archives are left on disk, that the log context follows the calls,      *)
(* that nothing is left between tasks, that kafe.on is a Rollout, and what *)
(* exit code 0 means.                                                      *)
(***************************************************************************)
EXTENDS ScriptEngine, SequenceTheorems, TLAPS

\* The stack of protected calls: a task or the evaluation of the file is at
\* its bottom and nowhere else, and was called when no other was active.
StackShape ==
    /\ proc = "script" => stack # <<>>
    /\ proc # "script" => stack = <<>> /\ errorJmp = "none"
    /\ \A d \in DOMAIN stack : stack[d].kind \in {"evaluate", "task"} <=> d = 1
    /\ stack # <<>> => stack[1].outer = "none"

\* The tasks are known to be defined from the moment they were verified.
VerifiedOnce == (proc = "next" => AllDefined) /\ TasksVerified

IInv ==
    /\ TypeOK
    /\ StackShape
    /\ NoNestedRoles
    /\ ApiMatchesStack
    /\ TargetsInScope
    /\ VerifiedOnce

-----------------------------------------------------------------------------
(* Sequences.                                                              *)

\* What is left of a sequence when its end is cut off.
LEMMA Prefix ==
    ASSUME NEW S, NEW s \in Seq(S), NEW n \in Int, n <= Len(s)
    PROVE  /\ SubSeq(s, 1, n) \in Seq(S)
           /\ Len(SubSeq(s, 1, n)) = IF 1 <= n THEN n ELSE 0
           /\ DOMAIN SubSeq(s, 1, n) = 1..n
           /\ \A i \in 1..n : SubSeq(s, 1, n)[i] = s[i]
<1>1. Len(s) \in Nat /\ \A i \in 1..n : s[i] \in S
  BY ElementOfSeq, LenProperties
<1>2. /\ SubSeq(s, 1, n) \in Seq(S)
      /\ Len(SubSeq(s, 1, n)) = IF 1 <= n THEN n - 1 + 1 ELSE 0
      /\ \A i \in 1..(n - 1 + 1) : SubSeq(s, 1, n)[i] = s[1 + i - 1]
  BY <1>1, SubSeqProperties
<1>3. DOMAIN SubSeq(s, 1, n) = 1..Len(SubSeq(s, 1, n))
  BY <1>2, LenProperties
<1> QED  BY <1>1, <1>2, <1>3

\* What a sequence is after an element was added to it.
LEMMA Longer ==
    ASSUME NEW S, NEW s \in Seq(S), NEW e \in S
    PROVE  /\ Append(s, e) \in Seq(S)
           /\ Len(Append(s, e)) = Len(s) + 1
           /\ DOMAIN Append(s, e) = 1..(Len(s) + 1)
           /\ Append(s, e) # <<>>
           /\ \A i \in 1..Len(s) : Append(s, e)[i] = s[i]
           /\ Append(s, e)[Len(s) + 1] = e
OBVIOUS

-----------------------------------------------------------------------------
(* The invariant holds at the start and is kept by every way a step can    *)
(* change the stack.                                                       *)

LEMMA InitInv == Init => IInv
<1> SUFFICES ASSUME Init PROVE IInv  OBVIOUS
<1>1. TypeOK
  BY EmptySeq DEF Init, TypeOK, Ended, Orderly, Replies, NoReply
<1>2. DOMAIN stack = {} /\ RoleDepths = {}
  BY DEF Init, RoleDepths
<1> QED
  BY <1>1, <1>2 DEF Init, IInv, StackShape, NoNestedRoles, ApiMatchesStack,
     TargetsInScope, VerifiedOnce, TasksVerified, HasApi

\* The run ends.
LEMMA EndKeepsInv ==
    ASSUME IInv, NEW how \in Ended, NEW disk0 \in SUBSET Archives,
           End(how, disk0)
    PROVE  IInv'
<1>1. TypeOK'
  BY EmptySeq DEF IInv, TypeOK, End, Replies, NoReply, Ended, Orderly
<1>2. DOMAIN stack' = {} /\ RoleDepths' = {}
  BY DEF End, RoleDepths
<1> QED
  BY <1>1, <1>2 DEF End, IInv, StackShape, NoNestedRoles, ApiMatchesStack,
     TargetsInScope, VerifiedOnce, TasksVerified, HasApi, Ended, Orderly

\* kafe.invoke and pcall push a frame.
LEMMA PushShape ==
    ASSUME IInv, InScript, NEW kind \in {"invoke", "pcall"},
           stack' = Append(stack, Call(kind))
    PROVE  /\ stack' \in Seq(Frame) /\ stack' # <<>>
           /\ DOMAIN stack = 1..Len(stack) /\ Len(stack) \in Nat \ {0}
           /\ DOMAIN stack' = 1..(Len(stack) + 1)
           /\ \A i \in 1..Len(stack) : stack'[i] = stack[i]
           /\ stack'[Len(stack) + 1] = Call(kind)
           /\ RoleDepths' = RoleDepths
<1>1. Call(kind) \in Frame
  BY DEF Call, Frame, IInv, TypeOK
<1>2. /\ stack \in Seq(Frame) /\ Len(stack) \in Nat \ {0}
      /\ DOMAIN stack = 1..Len(stack)
  BY LenProperties, EmptySeq DEF IInv, TypeOK, StackShape, InScript
<1>3. /\ stack' \in Seq(Frame) /\ stack' # <<>>
      /\ DOMAIN stack' = 1..(Len(stack) + 1)
      /\ \A i \in 1..Len(stack) : stack'[i] = stack[i]
      /\ stack'[Len(stack) + 1] = Call(kind)
  BY <1>1, <1>2, Longer
<1>4. RoleDepths' = RoleDepths
  BY <1>2, <1>3 DEF RoleDepths, Call
<1> QED  BY <1>2, <1>3, <1>4

LEMMA PushKeepsInv ==
    ASSUME IInv, InScript, NEW kind \in {"invoke", "pcall"},
           stack' = Append(stack, Call(kind)), errorJmp' = "live",
           is_strict_exec_mode' \in BOOLEAN, reply' = NoReply,
           UNCHANGED <<proc, next_task, current_api, context, scope>>
    PROVE  IInv'
<1> USE DEF IInv
<1>1. /\ stack' \in Seq(Frame) /\ stack' # <<>>
      /\ DOMAIN stack = 1..Len(stack) /\ Len(stack) \in Nat \ {0}
      /\ DOMAIN stack' = 1..(Len(stack) + 1)
      /\ \A i \in 1..Len(stack) : stack'[i] = stack[i]
      /\ stack'[Len(stack) + 1] = Call(kind)
      /\ RoleDepths' = RoleDepths
  BY PushShape
<1>2. TypeOK'
  BY <1>1 DEF TypeOK, scope, archives, Replies, NoReply
<1>3. StackShape'
  BY <1>1 DEF StackShape, Call, InScript
<1>4. NoNestedRoles' /\ ApiMatchesStack' /\ TargetsInScope'
  BY <1>1 DEF NoNestedRoles, ApiMatchesStack, TargetsInScope, HasApi, scope,
     RoleDepths
<1>5. VerifiedOnce'
  BY <1>1 DEF VerifiedOnce, TasksVerified, AllDefined, Call, scope, InScript
<1> QED  BY <1>2, <1>3, <1>4, <1>5

\* A call is left: frame d and those above it go, the others stay.
LEMMA LeaveShape ==
    ASSUME IInv, NEW d \in DOMAIN stack,
           stack[d].kind \notin {"evaluate", "task"},
           stack' = SubSeq(stack, 1, d - 1)
    PROVE  /\ DOMAIN stack = 1..Len(stack) /\ Len(stack) \in Nat
           /\ d \in 2..Len(stack)
           /\ stack' \in Seq(Frame) /\ stack' # <<>>
           /\ DOMAIN stack' = 1..(d - 1)
           /\ \A i \in 1..(d - 1) : stack'[i] = stack[i]
<1>1. stack \in Seq(Frame) /\ Len(stack) \in Nat /\ DOMAIN stack = 1..Len(stack)
  BY LenProperties DEF IInv, TypeOK
<1>2. d \in 2..Len(stack)
  BY <1>1 DEF IInv, StackShape
<1>3. /\ stack' \in Seq(Frame)
      /\ Len(stack') = d - 1
      /\ DOMAIN stack' = 1..(d - 1)
      /\ \A i \in 1..(d - 1) : stack'[i] = stack[i]
  BY <1>1, <1>2, Prefix
<1>4. stack' # <<>>
  BY <1>2, <1>3, EmptySeq
<1> QED  BY <1>1, <1>2, <1>3, <1>4

\* kafe.invoke and pcall are left with no role above them, ...
LEMMA LeaveCallShape ==
    ASSUME IInv, NEW d \in DOMAIN stack,
           stack[d].kind \in {"invoke", "pcall"},
           \A e \in (d + 1)..Len(stack) : stack[e].kind # "on",
           stack' = SubSeq(stack, 1, d - 1)
    PROVE  RoleDepths' = RoleDepths
<1>1. /\ DOMAIN stack = 1..Len(stack) /\ Len(stack) \in Nat
      /\ d \in 2..Len(stack) /\ DOMAIN stack' = 1..(d - 1)
      /\ \A i \in 1..(d - 1) : stack'[i] = stack[i]
  BY LeaveShape
<1>2. ASSUME NEW e \in RoleDepths PROVE e \in RoleDepths'
  BY <1>1 DEF RoleDepths
<1>3. ASSUME NEW e \in RoleDepths' PROVE e \in RoleDepths
  BY <1>1 DEF RoleDepths
<1> QED  BY <1>2, <1>3

\* ... kafe.on with the only one.
LEMMA LeaveRoleShape ==
    ASSUME IInv, NEW d \in RoleDepths, stack' = SubSeq(stack, 1, d - 1)
    PROVE  RoleDepths' = {}
<1>1. d \in DOMAIN stack /\ stack[d].kind = "on"
  BY DEF RoleDepths
<1>2. /\ DOMAIN stack = 1..Len(stack) /\ Len(stack) \in Nat
      /\ d \in 2..Len(stack) /\ DOMAIN stack' = 1..(d - 1)
      /\ \A i \in 1..(d - 1) : stack'[i] = stack[i]
  BY <1>1, LeaveShape
<1> QED  BY <1>2 DEF RoleDepths, NoNestedRoles, IInv

LEMMA LeaveCallKeepsInv ==
    ASSUME IInv, InScript, NEW d \in DOMAIN stack,
           NEW jmp \in {"none", "live", "dead"}, NEW r \in Replies,
           stack[d].kind \in {"invoke", "pcall"},
           \A e \in (d + 1)..Len(stack) : stack[e].kind # "on",
           LeaveCall(d, jmp, r), UNCHANGED <<current_api, context>>
    PROVE  IInv'
<1> USE DEF IInv
<1>1. /\ DOMAIN stack = 1..Len(stack) /\ Len(stack) \in Nat
      /\ d \in 2..Len(stack)
      /\ stack' \in Seq(Frame) /\ stack' # <<>>
      /\ DOMAIN stack' = 1..(d - 1)
      /\ \A i \in 1..(d - 1) : stack'[i] = stack[i]
  BY LeaveShape DEF LeaveCall
<1>2. RoleDepths' = RoleDepths
  BY LeaveCallShape DEF LeaveCall
<1>3. TypeOK'
  BY <1>1 DEF TypeOK, LeaveCall, scope, archives
<1>4. StackShape'
  BY <1>1 DEF StackShape, LeaveCall, InScript
<1>5. \A e \in RoleDepths : e \in 1..(d - 1) /\ stack'[e] = stack[e]
  BY <1>1, <1>2 DEF RoleDepths
<1>6. inventory' = inventory /\ current_api' = current_api
  BY DEF LeaveCall, scope
<1>7. NoNestedRoles'
  BY <1>2 DEF NoNestedRoles
<1>8. ApiMatchesStack'
  BY <1>2, <1>5, <1>6 DEF ApiMatchesStack, HasApi
<1>9. TargetsInScope'
  BY <1>2, <1>5, <1>6 DEF TargetsInScope
<1>10. VerifiedOnce'
  BY <1>1 DEF VerifiedOnce, TasksVerified, AllDefined, LeaveCall, scope,
     InScript
<1> QED  BY <1>3, <1>4, <1>7, <1>8, <1>9, <1>10

\* kafe.on: the loop is left, for whatever reason.
LEMMA LeaveRoleKeepsInv ==
    ASSUME IInv, InScript, NEW d \in RoleDepths,
           NEW jmp \in {"none", "live", "dead"}, NEW result \in {"true", "false"},
           LeaveRole(d, jmp, result)
    PROVE  IInv'
<1> USE DEF IInv
<1>1. /\ DOMAIN stack = 1..Len(stack) /\ Len(stack) \in Nat
      /\ d \in 2..Len(stack)
      /\ stack' \in Seq(Frame) /\ stack' # <<>>
      /\ DOMAIN stack' = 1..(d - 1)
      /\ \A i \in 1..(d - 1) : stack'[i] = stack[i]
  BY LeaveShape DEF LeaveRole, LeaveCall, RoleDepths
<1>2. RoleDepths' = {}
  BY LeaveRoleShape DEF LeaveRole, LeaveCall
<1>3. context' \in Seq(TaskNames \cup Roles \cup Remotes)
  <2>1. /\ context \in Seq(TaskNames \cup Roles \cup Remotes)
        /\ Len(context) \in Nat
    BY LenProperties DEF TypeOK
  <2> QED  BY <2>1, Prefix DEF LeaveRole, Drop2
<1>4. TypeOK'
  BY <1>1, <1>3 DEF TypeOK, LeaveRole, LeaveCall, scope, archives, Replies
<1>5. StackShape'
  BY <1>1 DEF StackShape, LeaveRole, LeaveCall, InScript
<1>6. NoNestedRoles' /\ ApiMatchesStack' /\ TargetsInScope'
  BY <1>2 DEF NoNestedRoles, ApiMatchesStack, TargetsInScope, HasApi, LeaveRole
<1>7. VerifiedOnce'
  BY <1>1 DEF VerifiedOnce, TasksVerified, AllDefined, LeaveRole, LeaveCall,
     scope, InScript
<1> QED  BY <1>4, <1>5, <1>6, <1>7

\* kafe.on: the loop enters a host, from the call (n is the whole stack) or
\* from the host before it (n is the stack below the role).
LEMMA EnterHostShape ==
    ASSUME IInv, NEW n \in 1..Len(stack), NEW frame \in Frame,
           \A e \in RoleDepths : e > n,
           frame.kind = "on", NEW i \in frame.targets,
           i \in DOMAIN inventory, NEW ctx,
           EnterHost(SubSeq(stack, 1, n), frame, i, ctx)
    PROVE  /\ n \in Nat /\ 1..n \subseteq DOMAIN stack
           /\ stack' \in Seq(Frame) /\ stack' # <<>>
           /\ DOMAIN stack' = 1..(n + 1)
           /\ \A e \in 1..n : stack'[e] = stack[e]
           /\ stack'[n + 1].kind = "on" /\ stack'[n + 1].at = i
           /\ stack'[n + 1].targets = frame.targets
           /\ stack'[n + 1].role = frame.role
           /\ RoleDepths' = {n + 1}
           /\ inventory[i] \in Items
<1> DEFINE f == [frame EXCEPT !.at = i]
<1>1. stack \in Seq(Frame) /\ Len(stack) \in Nat /\ DOMAIN stack = 1..Len(stack)
  BY LenProperties DEF IInv, TypeOK
<1>2. inventory[i] \in Items /\ i \in Nat
  <2>1. inventory \in Seq(Items)  BY DEF IInv, TypeOK
  <2>2. i \in 1..Len(inventory)  BY <2>1, LenProperties
  <2> QED  BY <2>1, <2>2, ElementOfSeq
<1>3. f \in Frame /\ f.kind = "on" /\ f.at = i /\ f.targets = frame.targets
      /\ f.role = frame.role
  BY <1>2 DEF Frame
<1>4. /\ SubSeq(stack, 1, n) \in Seq(Frame)
      /\ Len(SubSeq(stack, 1, n)) = n
      /\ \A e \in 1..n : SubSeq(stack, 1, n)[e] = stack[e]
  BY <1>1, Prefix
<1>5. stack' = Append(SubSeq(stack, 1, n), f)
  BY DEF EnterHost
<1> HIDE DEF f
<1>6. /\ stack' \in Seq(Frame) /\ stack' # <<>>
      /\ DOMAIN stack' = 1..(n + 1)
      /\ \A e \in 1..n : stack'[e] = stack[e]
      /\ stack'[n + 1] = f
  <2>1. f \in Frame
    BY <1>3
  <2> QED  BY <1>4, <1>5, <2>1, Longer
<1>7. RoleDepths' = {n + 1}
  <2>1. n + 1 \in DOMAIN stack' /\ stack'[n + 1].kind = "on"
    BY <1>1, <1>3, <1>6
  <2>2. ASSUME NEW e \in RoleDepths', e # n + 1 PROVE FALSE
    BY <1>1, <1>6, <2>2 DEF RoleDepths
  <2> QED  BY <2>1, <2>2 DEF RoleDepths
<1> QED  BY <1>1, <1>2, <1>3, <1>6, <1>7

LEMMA EnterHostKeepsInv ==
    ASSUME IInv, InScript, NEW n \in 1..Len(stack), NEW frame \in Frame,
           \A e \in RoleDepths : e > n,
           frame.kind = "on", NEW i \in frame.targets,
           \A j \in frame.targets :
               /\ j \in DOMAIN inventory
               /\ inventory[j].environment = Environment
               /\ inventory[j].role = frame.role,
           NEW ctx \in Seq(TaskNames \cup Roles \cup Remotes),
           EnterHost(SubSeq(stack, 1, n), frame, i, ctx)
    PROVE  IInv'
<1> USE DEF IInv
<1>1. /\ n \in Nat /\ 1..n \subseteq DOMAIN stack
      /\ stack' \in Seq(Frame) /\ stack' # <<>>
      /\ DOMAIN stack' = 1..(n + 1)
      /\ \A e \in 1..n : stack'[e] = stack[e]
      /\ stack'[n + 1].kind = "on" /\ stack'[n + 1].at = i
      /\ stack'[n + 1].targets = frame.targets
      /\ stack'[n + 1].role = frame.role
      /\ RoleDepths' = {n + 1}
      /\ inventory[i] \in Items
  BY EnterHostShape
<1>2. inventory[i].remote \in Remotes
  BY <1>1 DEF Remotes
<1>3. context' \in Seq(TaskNames \cup Roles \cup Remotes)
  BY <1>2 DEF EnterHost
<1>4. TypeOK'
  BY <1>1, <1>2, <1>3 DEF TypeOK, EnterHost, scope, archives, Replies, NoReply
<1>5. StackShape'
  <2>1. /\ stack # <<>> => stack[1].outer = "none"
        /\ \A d \in DOMAIN stack : stack[d].kind \in {"evaluate", "task"} <=> d = 1
    BY DEF StackShape
  <2>2. proc' = "script"
    BY DEF EnterHost, InScript
  <2>3. \A e \in 1..n : stack'[e].kind \in {"evaluate", "task"} <=> e = 1
    BY <1>1, <2>1
  <2>4. stack'[n + 1].kind \notin {"evaluate", "task"}
    BY <1>1
  <2>5. n \in Nat \ {0} /\ stack # <<>>
    BY LenProperties DEF TypeOK
  <2>6. stack'[1].outer = "none"
    BY <1>1, <2>1, <2>5
  <2>7. \A e \in 1..(n + 1) : stack'[e].kind \in {"evaluate", "task"} <=> e = 1
    BY <1>1, <2>3, <2>4, <2>5
  <2> QED  BY <1>1, <2>2, <2>6, <2>7 DEF StackShape
<1>6. NoNestedRoles'
  BY <1>1 DEF NoNestedRoles
<1>7. ApiMatchesStack'
  <2>1. current_api' # NoApi
    BY <1>2, NoApiAssumption DEF EnterHost, Remotes
  <2>2. current_api' = inventory'[i].remote
    BY DEF EnterHost, scope
  <2> QED  BY <1>1, <2>1, <2>2 DEF ApiMatchesStack, HasApi
<1>8. TargetsInScope'
  BY <1>1 DEF TargetsInScope, EnterHost, scope
<1>9. VerifiedOnce'
  BY <1>1 DEF VerifiedOnce, TasksVerified, AllDefined, EnterHost, scope,
     InScript
<1> QED  BY <1>4, <1>5, <1>6, <1>7, <1>8, <1>9

\* Everything that leaves the stack alone while the script runs.
LEMMA QuietKeepsInv ==
    ASSUME IInv, InScript,
           UNCHANGED <<proc, next_task, stack, errorJmp, current_api, context>>,
           is_strict_exec_mode' \in BOOLEAN, reply' \in Replies,
           \/ inventory' = inventory
           \/ \E item \in Items : inventory' = Append(inventory, item),
           tasks' \in SUBSET TaskNames, tasks \subseteq tasks',
           disk' \in SUBSET Archives,
           files_to_rm_on_destruct' \in SUBSET Archives,
           kept' \in SUBSET Archives, unremovable' \in SUBSET Archives
    PROVE  IInv'
<1> USE DEF IInv
<1>1. /\ inventory \in Seq(Items)
      /\ inventory' \in Seq(Items)
      /\ DOMAIN inventory \subseteq DOMAIN inventory'
      /\ \A i \in DOMAIN inventory : inventory'[i] = inventory[i]
  <2>1. inventory \in Seq(Items)  BY DEF TypeOK
  <2> QED  BY <2>1, Longer, LenProperties
<1>2. TypeOK'
  BY <1>1 DEF TypeOK
<1>3. StackShape' /\ NoNestedRoles'
  BY DEF StackShape, NoNestedRoles, RoleDepths
<1>4. TargetsInScope'
  BY <1>1 DEF TargetsInScope, RoleDepths
<1>5. ApiMatchesStack'
  BY <1>1 DEF ApiMatchesStack, TargetsInScope, RoleDepths, HasApi
<1>6. VerifiedOnce'
  BY DEF VerifiedOnce, TasksVerified, AllDefined, InScript,
     Orderly
<1> QED  BY <1>2, <1>3, <1>4, <1>5, <1>6

-----------------------------------------------------------------------------
(* The steps.                                                              *)

\* While the script runs there is a function at the top of the stack.
LEMMA TopOfStack ==
    ASSUME IInv, InScript
    PROVE  /\ stack \in Seq(Frame)
           /\ Len(stack) \in Nat \ {0}
           /\ DOMAIN stack = 1..Len(stack)
           /\ Len(stack) \in DOMAIN stack
           /\ Top \in Frame
           /\ SubSeq(stack, 1, Len(stack)) = stack
<1>1. stack \in Seq(Frame) /\ stack # <<>>
  BY DEF IInv, TypeOK, StackShape, InScript
<1>2. Len(stack) \in Nat \ {0} /\ DOMAIN stack = 1..Len(stack)
  BY <1>1, EmptySeq, LenProperties
<1>3. Top \in Frame
  BY <1>1, <1>2, ElementOfSeq DEF Top
<1> QED  BY <1>1, <1>2, <1>3, SubSeqFull

LEMMA ThrowStrictKeepsInv == IInv /\ InScript /\ ThrowStrict => IInv'
<1> SUFFICES ASSUME IInv, InScript, ThrowStrict PROVE IInv'  OBVIOUS
<1>1. disk \in SUBSET Archives
  BY DEF IInv, TypeOK
<1>2. CASE End("aborted", disk) \/ End("exit0", disk)
  BY <1>1, <1>2, EndKeepsInv DEF Ended, Orderly
<1>3. ASSUME NEW d \in DOMAIN stack,
             stack[d].kind = "on", LeaveRole(d, "dead", "false")
      PROVE  IInv'
  BY <1>3, LeaveRoleKeepsInv DEF RoleDepths
<1>4. ASSUME NEW d \in DOMAIN stack,
             \A e \in (d + 1)..Len(stack) : stack[e].kind \notin StrictHandlers,
             stack[d].kind = "invoke", LeaveInvoke(d, "dead", "false")
      PROVE  IInv'
  <2>1. \A e \in (d + 1)..Len(stack) : stack[e].kind # "on"
    BY <1>4 DEF StrictHandlers
  <2>2. [by |-> "invoke", is |-> "false"] \in Replies
    BY DEF Replies
  <2> QED  BY <1>4, <2>1, <2>2, LeaveCallKeepsInv DEF LeaveInvoke
<1> QED  BY <1>2, <1>3, <1>4 DEF ThrowStrict

LEMMA EngineKeepsInv == IInv /\ Engine => IInv'
<1> SUFFICES ASSUME IInv, Engine PROVE IInv'  OBVIOUS
<1> USE DEF IInv
<1>1. disk \in SUBSET Archives
  BY DEF TypeOK
<1>2. CASE End("exit0", disk) \/ End("exit1", disk)
  BY <1>1, <1>2, EndKeepsInv DEF Ended, Orderly
<1>3. ASSUME NEW kind \in {"evaluate", "task"}, proc # "script",
             proc' = "script", stack' = <<Call(kind)>>, errorJmp' = "live",
             is_strict_exec_mode' \in BOOLEAN, reply' \in Replies,
             context' \in Seq(TaskNames \cup Roles \cup Remotes),
             kind = "task" => AllDefined /\ next_task \in DOMAIN Requested,
             UNCHANGED <<next_task, current_api, scope>>
      PROVE  IInv'
  <2>1. Call(kind) \in Frame /\ Call(kind).kind = kind /\ Call(kind).outer = "none"
    BY <1>3 DEF Call, Frame, TypeOK, StackShape
  <2>2. /\ stack' \in Seq(Frame) /\ stack' # <<>>
        /\ DOMAIN stack' = {1} /\ stack'[1] = Call(kind)
    BY <1>3, <2>1
  <2>3. RoleDepths = {} /\ RoleDepths' = {}
    BY <1>3, <2>1, <2>2 DEF RoleDepths, StackShape
  <2>4. TypeOK'
    BY <1>3, <2>2 DEF TypeOK, scope, archives
  <2>5. StackShape'
    BY <1>3, <2>1, <2>2 DEF StackShape
  <2>6. NoNestedRoles' /\ ApiMatchesStack' /\ TargetsInScope'
    BY <1>3, <2>3 DEF NoNestedRoles, ApiMatchesStack, TargetsInScope, HasApi
  <2>7. VerifiedOnce'
    BY <1>3, <2>1, <2>2 DEF VerifiedOnce, TasksVerified, AllDefined, scope
  <2> QED  BY <2>4, <2>5, <2>6, <2>7
<1>4. CASE LoadFile
  BY <1>2, <1>3, <1>4 DEF LoadFile, TypeOK, Replies, NoReply
<1>5. CASE VerifyTasks
  <2>1. CASE /\ AllDefined
             /\ proc = "verify" /\ proc' = "next" /\ next_task' = 1
             /\ reply' = NoReply
             /\ UNCHANGED <<stack, errorJmp, current_api, is_strict_exec_mode,
                            context, scope>>
    BY <2>1 DEF TypeOK, StackShape, NoNestedRoles, ApiMatchesStack, HasApi,
       TargetsInScope, VerifiedOnce, TasksVerified, AllDefined, RoleDepths,
       Replies, NoReply, scope, archives
  <2> QED  BY <1>2, <1>5, <2>1 DEF VerifyTasks
<1>6. CASE StartTask
  <2>1. stack' = <<Call("task")>>
    BY <1>6 DEF StartTask, StackShape
  <2>2. context' \in Seq(TaskNames \cup Roles \cup Remotes)
    BY <1>6, RequestedAssumption DEF StartTask, TypeOK
  <2> QED
    BY <1>3, <1>6, <2>1, <2>2 DEF StartTask, VerifiedOnce, Replies, NoReply
<1>7. CASE Finish
  BY <1>2, <1>7 DEF Finish
<1> QED  BY <1>4, <1>5, <1>6, <1>7 DEF Engine

\* The file or a task returns: the stack is empty again.
LEMMA BottomReturns ==
    ASSUME IInv, InScript, Top.kind \in {"evaluate", "task"},
           stack' = Front(stack), errorJmp' = Top.outer, reply' = NoReply,
           \/ proc' = "verify" /\ next_task' = next_task
           \/ proc' = "next" /\ next_task' = next_task + 1 /\ AllDefined,
           context' \in Seq(TaskNames \cup Roles \cup Remotes),
           UNCHANGED <<current_api, is_strict_exec_mode, scope>>
    PROVE  IInv'
<1> USE DEF IInv
<1>1. Len(stack) = 1
  BY TopOfStack DEF StackShape, Top
<1>2. stack' = <<>> /\ errorJmp' = "none"
  <2>1. stack' = <<>>
    BY <1>1, SubSeqEmpty DEF Front
  <2>2. Top.outer = "none"
    BY <1>1, TopOfStack DEF StackShape, Top, InScript
  <2> QED  BY <2>1, <2>2
<1>3. RoleDepths = {} /\ RoleDepths' = {}
  BY <1>1, <1>2, TopOfStack DEF RoleDepths, Top
<1>4. TypeOK'
  BY <1>2, EmptySeq DEF TypeOK, scope, archives, Replies, NoReply
<1>5. StackShape'
  BY <1>2 DEF StackShape
<1>6. NoNestedRoles' /\ ApiMatchesStack' /\ TargetsInScope'
  BY <1>3 DEF NoNestedRoles, ApiMatchesStack, TargetsInScope, HasApi
<1>7. VerifiedOnce'
  BY <1>2 DEF VerifiedOnce, TasksVerified, AllDefined,
     Orderly, scope
<1> QED  BY <1>4, <1>5, <1>6, <1>7

LEMMA FunctionKeepsInv == IInv /\ Function => IInv'
<1> SUFFICES ASSUME IInv, Function PROVE IInv'  OBVIOUS
<1> USE DEF IInv
<1>0. InScript
  BY DEF Function, ReturnFromScript, ReturnFromTask, ReturnFromHost,
     ReturnFromInvoke, LeavePcall, RaiseError
<1>1. /\ disk \in SUBSET Archives /\ Top.outer \in {"none", "live", "dead"}
      /\ context \in Seq(TaskNames \cup Roles \cup Remotes)
      /\ Len(stack) \in DOMAIN stack /\ Top = stack[Len(stack)]
  BY <1>0, TopOfStack DEF TypeOK, Frame, Top
<1>2. ASSUME NEW result \in {"true", "false"}, Top.kind = "on",
             LeaveRole(Len(stack), Top.outer, result)
      PROVE  IInv'
  BY <1>0, <1>1, <1>2, LeaveRoleKeepsInv DEF RoleDepths
<1>3. ASSUME NEW r \in Replies, Top.kind \in {"invoke", "pcall"},
             LeaveCall(Len(stack), Top.outer, r),
             UNCHANGED <<current_api, context>>
      PROVE  IInv'
  <2>1. \A e \in (Len(stack) + 1)..Len(stack) : stack[e].kind # "on"
    BY <1>0, TopOfStack
  <2> QED  BY <1>0, <1>1, <1>3, <2>1, LeaveCallKeepsInv
<1>4. ASSUME NEW result \in {"true", "false"}, Top.kind = "invoke",
             LeaveInvoke(Len(stack), Top.outer, result)
      PROVE  IInv'
  <2>1. [by |-> "invoke", is |-> result] \in Replies
    BY DEF Replies
  <2> QED  BY <1>3, <1>4, <2>1 DEF LeaveInvoke
<1>5. Front(context) \in Seq(TaskNames \cup Roles \cup Remotes)
  <2>1. Len(context) \in Nat
    BY <1>1, LenProperties
  <2> QED  BY <1>1, <2>1, Prefix DEF Front
<1>6. CASE ReturnFromScript
  BY <1>0, <1>1, <1>6, BottomReturns DEF ReturnFromScript
<1>7. CASE ReturnFromTask
  <2>1. AllDefined
    BY <1>1, <1>7 DEF ReturnFromTask, VerifiedOnce, TasksVerified, AllDefined
  <2> QED  BY <1>0, <1>5, <1>7, <2>1, BottomReturns DEF ReturnFromTask
<1>8. CASE ReturnFromHost
  <2>1. ASSUME NEW i \in HostsLeft,
               EnterHost(Front(stack), Top, i, Front(context))
        PROVE  IInv'
    <3>1. Len(stack) \in RoleDepths
      BY <1>1, <1>8 DEF ReturnFromHost, RoleDepths
    <3>2. Len(stack) - 1 \in 1..Len(stack)
      BY <1>0, <3>1, TopOfStack DEF StackShape, RoleDepths
    <3>3. \A e \in RoleDepths : e > Len(stack) - 1
      BY <1>0, <3>1, TopOfStack DEF NoNestedRoles
    <3>4. \A j \in Top.targets :
             /\ j \in DOMAIN inventory
             /\ inventory[j].environment = Environment
             /\ inventory[j].role = Top.role
      BY <1>1, <3>1 DEF TargetsInScope
    <3>5. i \in Top.targets /\ Top.kind = "on" /\ Top \in Frame
      BY <1>0, <1>8, TopOfStack DEF HostsLeft, ReturnFromHost
    <3> QED
      BY <1>0, <1>5, <2>1, <3>2, <3>3, <3>4, <3>5, EnterHostKeepsInv DEF Front
  <2> QED  BY <1>2, <1>8, <2>1 DEF ReturnFromHost
<1>9. CASE ReturnFromInvoke
  BY <1>4, <1>9 DEF ReturnFromInvoke
<1>10. CASE LeavePcall
  BY <1>3, <1>10 DEF LeavePcall, Replies, NoReply
<1>11. ASSUME NEW printable \in BOOLEAN, RaiseError(printable) PROVE IInv'
  <2>1. CASE \E how \in Ended : End(how, disk)
    BY <1>1, <2>1, EndKeepsInv
  <2> QED
    BY <1>2, <1>4, <1>10, <1>11, <2>1 DEF RaiseError, Ended, Orderly
<1> QED
  BY <1>6, <1>7, <1>8, <1>9, <1>10, <1>11 DEF Function

LEMMA CommandKeepsInv ==
    ASSUME IInv, InScript, NEW ok \in BOOLEAN, Command(ok)
    PROVE  IInv'
<1>1. CASE ThrowStrict
  BY <1>1, ThrowStrictKeepsInv
<1>2. CASE /\ reply' = [by |-> "command", is |-> IF ok THEN "true" ELSE "false"]
           /\ UNCHANGED <<proc, next_task, stack, errorJmp, current_api,
                          is_strict_exec_mode, context, scope>>
  <2>1. reply' \in Replies
    BY <1>2 DEF Replies
  <2> QED  BY <1>2, <2>1, QuietKeepsInv DEF IInv, TypeOK, scope, archives
<1> QED  BY <1>1, <1>2 DEF Command

LEMMA OnKeepsInv ==
    ASSUME IInv, NEW role \in Roles, On(role)
    PROVE  IInv'
<1> USE DEF IInv
<1>1. InScript /\ ~HasApi
  BY DEF On, EnterRole, CanCall
<1>2. CASE UNCHANGED <<proc, next_task, stack, errorJmp, current_api,
                       is_strict_exec_mode, context, scope>>
           /\ reply' = [by |-> "on", is |-> "nil"]
  <2>1. reply' \in Replies
    BY <1>2 DEF Replies
  <2> QED  BY <1>1, <1>2, <2>1, QuietKeepsInv DEF TypeOK, scope, archives
<1>3. ASSUME NEW i \in FindForScope(role),
             EnterHost(stack, RoleCall(role, FindForScope(role)), i,
                       Append(context, role))
      PROVE  IInv'
  <2> DEFINE frame == RoleCall(role, FindForScope(role))
  <2>1. FindForScope(role) \subseteq DOMAIN inventory /\ DOMAIN inventory \subseteq Nat
    <3>1. inventory \in Seq(Items)  BY DEF TypeOK
    <3> QED  BY <3>1, LenProperties DEF FindForScope
  <2>2. /\ frame \in Frame /\ frame.kind = "on"
        /\ frame.targets = FindForScope(role) /\ frame.role = role
    BY <2>1 DEF RoleCall, Frame, TypeOK
  <2>3. Append(context, role) \in Seq(TaskNames \cup Roles \cup Remotes)
    BY DEF TypeOK
  <2>4. \A j \in frame.targets :
            /\ j \in DOMAIN inventory
            /\ inventory[j].environment = Environment
            /\ inventory[j].role = frame.role
    BY <2>2 DEF FindForScope
  <2>5. \A e \in RoleDepths : e > Len(stack)
    BY <1>1 DEF ApiMatchesStack
  <2>6. Len(stack) \in 1..Len(stack) /\ SubSeq(stack, 1, Len(stack)) = stack
    BY <1>1, TopOfStack
  <2>7. EnterHost(SubSeq(stack, 1, Len(stack)), frame, i, Append(context, role))
    BY <1>3, <2>6
  <2> HIDE DEF frame
  <2> QED
    BY <1>1, <2>2, <2>3, <2>4, <2>5, <2>6, <2>7, EnterHostKeepsInv
<1> QED  BY <1>2, <1>3 DEF On, EnterRole

LEMMA OnFlaggedKeepsInv ==
    ASSUME IInv, NEW role \in Roles, NEW skip_empty \in BOOLEAN,
           OnFlagged(role, skip_empty)
    PROVE  IInv'
<1> USE DEF IInv
<1>1. InScript
  BY DEF OnFlagged
<1>2. CASE RaiseError(TRUE)
  BY <1>2, FunctionKeepsInv DEF Function
<1>3. ASSUME NEW is \in {"nil", "false"}, reply' = [by |-> "on", is |-> is],
             is_strict_exec_mode' \in BOOLEAN,
             UNCHANGED <<proc, next_task, stack, errorJmp, current_api, context,
                         scope>>
      PROVE  IInv'
  <2>1. reply' \in Replies
    BY <1>3 DEF Replies
  <2> QED  BY <1>1, <1>3, <2>1, QuietKeepsInv DEF TypeOK, scope, archives
<1> QED  BY <1>2, <1>3 DEF OnFlagged, TypeOK

LEMMA ArchiveKeepsInv ==
    ASSUME IInv, NEW a \in Archives, NEW outcome,
           ArchiveDirTmp(a, outcome) \/ ArchiveDir(a, outcome)
    PROVE  IInv'
<1> USE DEF IInv
<1>1. InScript /\ disk \in SUBSET Archives /\ disk \cup {a} \in SUBSET Archives
  BY DEF ArchiveDirTmp, ArchiveDir, TypeOK
<1>2. CASE End("exit1", disk) \/ End("aborted", disk \cup {a})
  BY <1>1, <1>2, EndKeepsInv DEF Ended, Orderly
<1>3. CASE /\ disk' = disk \cup {a}
           /\ \/ files_to_rm_on_destruct' = files_to_rm_on_destruct \cup {a}
              \/ files_to_rm_on_destruct' = files_to_rm_on_destruct
           /\ kept' \in {kept, kept \cup {a}} /\ unremovable' = unremovable
           /\ reply' = NoReply
           /\ UNCHANGED <<proc, next_task, stack, errorJmp, current_api,
                          is_strict_exec_mode, context, inventory, tasks>>
  <2>1. /\ files_to_rm_on_destruct' \in SUBSET Archives
        /\ disk' \in SUBSET Archives /\ reply' \in Replies
        /\ kept' \in SUBSET Archives /\ unremovable' \in SUBSET Archives
        /\ is_strict_exec_mode' \in BOOLEAN
    BY <1>1, <1>3 DEF TypeOK, Replies, NoReply
  <2>2. tasks' \in SUBSET TaskNames /\ tasks \subseteq tasks'
    BY <1>3 DEF TypeOK
  <2> QED  BY <1>1, <1>3, <2>1, <2>2, QuietKeepsInv
<1> QED  BY <1>2, <1>3 DEF ArchiveDirTmp, ArchiveDir

LEMMA ApiKeepsInv == IInv /\ Api => IInv'
<1> SUFFICES ASSUME IInv, Api PROVE IInv'  OBVIOUS
<1> USE DEF IInv
<1>1. disk \in SUBSET Archives /\ NoReply \in Replies
  BY DEF TypeOK, NoReply, Replies
<1>2. ASSUME NEW name \in TaskNames, TaskDefine(name) PROVE IInv'
  BY <1>1, <1>2, QuietKeepsInv DEF TaskDefine, TypeOK, archives
<1>3. ASSUME NEW item \in Items, AddInventory(item) PROVE IInv'
  BY <1>1, <1>3, QuietKeepsInv DEF AddInventory, TypeOK, archives
<1>4. CASE AddInventoryBadPort \/ CallOffThread \/ DefineUnprintable
  BY <1>1, <1>4, EndKeepsInv DEF AddInventoryBadPort, CallOffThread,
     DefineUnprintable, Ended, Orderly
<1>5. ASSUME NEW role \in Roles, On(role) PROVE IInv'
  BY <1>5, OnKeepsInv
<1>6. ASSUME NEW role \in Roles, NEW skip_empty \in BOOLEAN,
             OnFlagged(role, skip_empty)
      PROVE  IInv'
  BY <1>6, OnFlaggedKeepsInv
<1>7. CASE Invoke
  BY <1>7, PushKeepsInv DEF Invoke, CanCall
<1>8. CASE Pcall
  BY <1>8, PushKeepsInv DEF Pcall, CanCall, TypeOK
<1>9. ASSUME NEW outcome \in {"ok", "failed", "broken"}, RemoteShell(outcome)
      PROVE  IInv'
  <2>1. CASE End("exit1", disk)
    BY <1>1, <2>1, EndKeepsInv DEF Ended, Orderly
  <2>2. CASE InScript /\ Command(outcome = "ok")
    BY <2>2, CommandKeepsInv
  <2> QED  BY <1>9, <2>1, <2>2 DEF RemoteShell
<1>10. ASSUME NEW ok \in BOOLEAN, LocalShell(ok) \/ Transfer(ok) PROVE IInv'
  BY <1>10, CommandKeepsInv DEF LocalShell, Transfer
<1>11. ASSUME NEW a \in Archives, NEW outcome,
              ArchiveDirTmp(a, outcome) \/ ArchiveDir(a, outcome)
       PROVE  IInv'
  BY <1>11, ArchiveKeepsInv
<1> QED
  BY <1>2, <1>3, <1>4, <1>5, <1>6, <1>7, <1>8, <1>9, <1>10, <1>11 DEF Api

LEMMA RemovalKeepsInv == IInv /\ RemoveArchive => IInv'
<1> SUFFICES ASSUME IInv, RemoveArchive PROVE IInv'  OBVIOUS
<1> USE DEF IInv
<1>1. /\ UNCHANGED <<proc, next_task, stack, errorJmp, current_api,
                     is_strict_exec_mode, context, inventory, tasks, reply>>
      /\ disk' \in SUBSET Archives /\ files_to_rm_on_destruct' \in SUBSET Archives
      /\ kept' \in SUBSET Archives /\ unremovable' \in SUBSET Archives
  BY DEF RemoveArchive, TypeOK
<1>2. TypeOK'
  BY <1>1 DEF TypeOK
<1> QED
  BY <1>1, <1>2 DEF StackShape, NoNestedRoles, ApiMatchesStack, HasApi,
     TargetsInScope, VerifiedOnce, TasksVerified, AllDefined, RoleDepths

LEMMA NextKeepsInv == IInv /\ [Next]_vars => IInv'
<1> SUFFICES ASSUME IInv, [Next]_vars PROVE IInv'  OBVIOUS
<1>1. ASSUME NEW b \in BOOLEAN, Strict(b) PROVE IInv'
  <2>1. NoReply \in Replies
    BY DEF NoReply, Replies
  <2> QED  BY <1>1, <2>1, QuietKeepsInv DEF Strict, IInv, TypeOK, scope, archives
<1>2. CASE UNCHANGED vars
  BY <1>2 DEF IInv, TypeOK, StackShape, NoNestedRoles, ApiMatchesStack, HasApi,
     TargetsInScope, VerifiedOnce, TasksVerified, AllDefined, RoleDepths, vars
<1> QED
  BY <1>1, <1>2, EngineKeepsInv, FunctionKeepsInv, ApiKeepsInv, RemovalKeepsInv
     DEF Next, Terminated

-----------------------------------------------------------------------------
(* The theorems.                                                           *)

THEOREM Invariance == Spec => []IInv
BY InitInv, NextKeepsInv, PTL DEF Spec

\* The state always has the shape its declarations give it.
THEOREM TypeCorrect == Spec => []TypeOK
<1>1. IInv => TypeOK  BY DEF IInv
<1> QED  BY <1>1, Invariance, PTL

\* Roles never nest, whatever the script does and however its calls end.
THEOREM RolesNeverNest == Spec => []NoNestedRoles
<1>1. IInv => NoNestedRoles  BY DEF IInv
<1> QED  BY <1>1, Invariance, PTL

\* A remote is current exactly while a host body runs, and is that host: no
\* command goes to a host other than the one kafe.on is at.
THEOREM CommandsReachTheirHost == Spec => []ApiMatchesStack
<1>1. IInv => ApiMatchesStack  BY DEF IInv
<1> QED  BY <1>1, Invariance, PTL

\* Every host a role visits is of that role and of the run's environment.
THEOREM RolesStayInScope == Spec => []TargetsInScope
<1>1. IInv => TargetsInScope  BY DEF IInv
<1> QED  BY <1>1, Invariance, PTL

\* No task runs before all the requested ones are known to be defined.
THEOREM NoTaskBeforeVerification == Spec => []TasksVerified
<1>1. IInv => TasksVerified  BY DEF IInv, VerifiedOnce
<1> QED  BY <1>1, Invariance, PTL

-----------------------------------------------------------------------------
(* A server is visited once.                                               *)

\* add_inventory refused every item that was there already.
NoDuplicates ==
    \A i, j \in DOMAIN inventory : inventory[i] = inventory[j] => i = j

\* How a function of the script ends does not touch the inventory.
LEMMA EndKeepsInventory ==
    ASSUME NEW how, NEW disk0, End(how, disk0)
    PROVE  inventory' = inventory
BY DEF End

LEMMA LeaveKeepsInventory ==
    ASSUME NEW d, NEW jmp, NEW result,
           LeaveRole(d, jmp, result) \/ LeaveInvoke(d, jmp, result)
    PROVE  inventory' = inventory
BY DEF LeaveRole, LeaveInvoke, LeaveCall, scope

LEMMA CommandKeepsInventory ==
    ASSUME NEW ok, Command(ok)
    PROVE  inventory' = inventory
BY EndKeepsInventory, LeaveKeepsInventory DEF Command, ThrowStrict, scope

LEMMA FunctionKeepsInventory == Function => inventory' = inventory
<1>1. ASSUME NEW printable, RaiseError(printable) PROVE inventory' = inventory
  BY <1>1, EndKeepsInventory, LeaveKeepsInventory
     DEF RaiseError, LeavePcall, LeaveCall, scope
<1>2. CASE ReturnFromHost
  BY <1>2, LeaveKeepsInventory DEF ReturnFromHost, EnterHost, scope
<1> QED
  BY <1>1, <1>2, LeaveKeepsInventory DEF Function, ReturnFromScript,
     ReturnFromTask, ReturnFromInvoke, LeavePcall, LeaveCall, scope

\* Nothing but add_inventory changes the inventory.
LEMMA InventoryGrows ==
    ASSUME [Next]_vars
    PROVE  inventory' = inventory \/ \E item \in Items : AddInventory(item)
<1>1. CASE Engine
  BY <1>1, EndKeepsInventory
     DEF Engine, LoadFile, VerifyTasks, StartTask, Finish, scope
<1>2. CASE Api
  <2>1. ASSUME NEW role, On(role) PROVE inventory' = inventory
    BY <2>1 DEF On, EnterRole, EnterHost, scope
  <2>2. ASSUME NEW role, NEW skip_empty, OnFlagged(role, skip_empty)
        PROVE  inventory' = inventory
    <3>1. RaiseError(TRUE) => inventory' = inventory
      BY FunctionKeepsInventory DEF Function
    <3> QED  BY <2>2, <3>1 DEF OnFlagged, scope
  <2>3. ASSUME NEW outcome, RemoteShell(outcome) PROVE inventory' = inventory
    BY <2>3, EndKeepsInventory, CommandKeepsInventory DEF RemoteShell
  <2>4. ASSUME NEW ok, LocalShell(ok) \/ Transfer(ok)
        PROVE  inventory' = inventory
    BY <2>4, CommandKeepsInventory DEF LocalShell, Transfer
  <2>5. ASSUME NEW a, NEW outcome,
               ArchiveDirTmp(a, outcome) \/ ArchiveDir(a, outcome)
        PROVE  inventory' = inventory
    BY <2>5, EndKeepsInventory DEF ArchiveDirTmp, ArchiveDir
  <2>6. CASE Invoke \/ Pcall
    BY <2>6 DEF Invoke, Pcall, scope
  <2>7. CASE AddInventoryBadPort \/ CallOffThread \/ DefineUnprintable
    BY <2>7, EndKeepsInventory
       DEF AddInventoryBadPort, CallOffThread, DefineUnprintable
  <2>8. ASSUME NEW name, TaskDefine(name) PROVE inventory' = inventory
    BY <2>8 DEF TaskDefine
  <2> QED
    BY <1>2, <2>1, <2>2, <2>3, <2>4, <2>5, <2>6, <2>7, <2>8 DEF Api
<1>3. ASSUME NEW b, Strict(b) PROVE inventory' = inventory
  BY <1>3 DEF Strict, scope
<1> QED
  BY <1>1, <1>2, <1>3, FunctionKeepsInventory
     DEF Next, RemoveArchive, Terminated, vars

LEMMA NextKeepsNoDuplicates ==
    IInv /\ NoDuplicates /\ [Next]_vars => NoDuplicates'
<1> SUFFICES ASSUME IInv, NoDuplicates, [Next]_vars PROVE NoDuplicates'
  OBVIOUS
<1>1. CASE inventory' = inventory
  BY <1>1 DEF NoDuplicates
<1>2. ASSUME NEW item \in Items, AddInventory(item) PROVE NoDuplicates'
  <2>1. inventory \in Seq(Items)
    BY DEF IInv, TypeOK
  <2>2. /\ DOMAIN inventory' = 1..(Len(inventory) + 1)
        /\ \A i \in 1..Len(inventory) : inventory'[i] = inventory[i]
        /\ inventory'[Len(inventory) + 1] = item
    BY <1>2, <2>1, Longer DEF AddInventory
  <2>3. DOMAIN inventory = 1..Len(inventory) /\ Len(inventory) \in Nat
    BY <2>1, LenProperties
  <2>4. \A i \in 1..Len(inventory) : inventory[i] # item
    BY <1>2, <2>3 DEF AddInventory, ItemExists
  <2> QED  BY <2>2, <2>3, <2>4 DEF NoDuplicates
<1> QED  BY <1>1, <1>2, InventoryGrows

\* Two entries of a role's targets that name the same server are the same
\* entry: both are of the role and of the run's environment, and no item is
\* in the inventory twice.
THEOREM ServersVisitedOnce == Spec => []NoServerTwice
<1>1. Init => NoDuplicates
  <2>1. Init => DOMAIN inventory = {}
    BY DEF Init
  <2> QED  BY <2>1 DEF NoDuplicates
<1>2. IInv /\ NoDuplicates => NoServerTwice
  <2> SUFFICES ASSUME IInv, NoDuplicates, NEW d \in RoleDepths,
                      NEW i \in stack[d].targets, NEW j \in stack[d].targets,
                      inventory[i].remote = inventory[j].remote
               PROVE  i = j
    BY DEF NoServerTwice
  <2>1. /\ i \in DOMAIN inventory /\ j \in DOMAIN inventory
        /\ inventory[i].environment = inventory[j].environment
        /\ inventory[i].role = inventory[j].role
    BY DEF IInv, TargetsInScope
  <2>2. inventory[i] \in Items /\ inventory[j] \in Items
    <3>1. inventory \in Seq(Items)  BY DEF IInv, TypeOK
    <3> QED  BY <2>1, <3>1, LenProperties, ElementOfSeq
  <2>3. inventory[i] = inventory[j]
    BY <2>1, <2>2, ItemsAssumption
  <2> QED  BY <2>1, <2>3 DEF NoDuplicates
<1> QED
  BY <1>1, <1>2, NextKeepsNoDuplicates, Invariance, PTL DEF Spec

-----------------------------------------------------------------------------
(* The archives on disk.                                                   *)

Dead == {"aborted", "undefined"}        \* no destructor ran

\* Until ~ExecutionScope is done, the disk holds what was kept, what could not
\* be removed, and what is still to be removed; no archive is two of these.
ArchiveInv ==
    /\ proc \notin Dead => disk = kept \cup files_to_rm_on_destruct \cup unremovable
    /\ files_to_rm_on_destruct \cap (kept \cup unremovable) = {}

\* A step that touches no archive, and is not taken by a dead process.
Elsewhere == UNCHANGED archives /\ proc \notin Dead

LEMMA EndElsewhere ==
    ASSUME NEW how, End(how, disk), proc \notin Dead
    PROVE  Elsewhere
BY DEF End, Elsewhere, archives

LEMMA LeaveElsewhere ==
    ASSUME NEW d, NEW jmp, NEW result, InScript,
           LeaveRole(d, jmp, result) \/ LeaveInvoke(d, jmp, result)
    PROVE  Elsewhere
BY DEF LeaveRole, LeaveInvoke, LeaveCall, scope, Elsewhere, Dead, InScript

LEMMA CommandElsewhere ==
    ASSUME NEW ok, Command(ok), InScript
    PROVE  Elsewhere
<1>1. proc \notin Dead
  BY DEF InScript, Dead
<1>2. CASE ThrowStrict
  BY <1>1, <1>2, EndElsewhere, LeaveElsewhere DEF ThrowStrict
<1> QED  BY <1>1, <1>2 DEF Command, scope, Elsewhere

LEMMA FunctionElsewhere == Function => Elsewhere
<1> SUFFICES ASSUME Function PROVE Elsewhere  OBVIOUS
<1>1. InScript /\ proc \notin Dead
  BY DEF Function, ReturnFromScript, ReturnFromTask, ReturnFromHost,
     ReturnFromInvoke, LeavePcall, RaiseError, InScript, Dead
<1>2. LeavePcall => Elsewhere
  BY <1>1 DEF LeavePcall, LeaveCall, scope, Elsewhere
<1>3. ASSUME NEW printable, RaiseError(printable) PROVE Elsewhere
  BY <1>1, <1>2, <1>3, EndElsewhere, LeaveElsewhere DEF RaiseError
<1>4. CASE ReturnFromHost
  BY <1>1, <1>4, LeaveElsewhere DEF ReturnFromHost, EnterHost, scope, Elsewhere
<1> QED
  BY <1>1, <1>2, <1>3, <1>4, LeaveElsewhere DEF Function, ReturnFromScript,
     ReturnFromTask, ReturnFromInvoke, scope, Elsewhere

\* Archives are written by two functions of the API and removed by the loop of
\* the destructor, and by nothing else.
LEMMA ArchivesChange ==
    ASSUME Next
    PROVE  \/ Elsewhere
           \/ UNCHANGED vars
           \/ RemoveArchive
           \/ \E a, outcome : ArchiveDirTmp(a, outcome) \/ ArchiveDir(a, outcome)
<1>1. CASE Engine
  BY <1>1, EndElsewhere DEF Engine, LoadFile, VerifyTasks, StartTask, Finish,
     scope, Elsewhere, Dead
<1>2. ASSUME NEW role, On(role) PROVE Elsewhere
  BY <1>2 DEF On, EnterRole, CanCall, InScript, Dead, EnterHost, scope, Elsewhere
<1>3. ASSUME NEW role, NEW skip_empty, OnFlagged(role, skip_empty)
      PROVE  Elsewhere
  <2>1. RaiseError(TRUE) => Elsewhere
    BY FunctionElsewhere DEF Function
  <2> QED  BY <1>3, <2>1 DEF OnFlagged, InScript, Dead, scope, Elsewhere
<1>4. ASSUME NEW outcome, RemoteShell(outcome) PROVE Elsewhere
  BY <1>4, EndElsewhere, CommandElsewhere DEF RemoteShell, InScript, Dead
<1>5. ASSUME NEW ok, LocalShell(ok) \/ Transfer(ok) PROVE Elsewhere
  BY <1>5, CommandElsewhere DEF LocalShell, Transfer
<1>6. CASE Invoke \/ Pcall
  BY <1>6 DEF Invoke, Pcall, CanCall, InScript, Dead, scope, Elsewhere
<1>7. CASE AddInventoryBadPort \/ CallOffThread \/ DefineUnprintable
  BY <1>7, EndElsewhere DEF AddInventoryBadPort, CallOffThread,
     DefineUnprintable, InScript, Dead
<1>8. ASSUME NEW x, TaskDefine(x) \/ AddInventory(x) \/ Strict(x)
      PROVE  Elsewhere
  BY <1>8 DEF TaskDefine, AddInventory, Strict, InScript, Dead, scope, Elsewhere
<1>9. CASE Api
  BY <1>2, <1>3, <1>4, <1>5, <1>6, <1>7, <1>8, <1>9 DEF Api
<1> QED
  BY <1>1, <1>8, <1>9, FunctionElsewhere DEF Next, Terminated

LEMMA ArchiveWritten ==
    ASSUME ArchiveInv, NEW a, NEW outcome,
           ArchiveDirTmp(a, outcome) \/ ArchiveDir(a, outcome)
    PROVE  ArchiveInv'
<1>1. InScript /\ proc \notin Dead
  BY DEF ArchiveDirTmp, ArchiveDir, InScript, Dead
<1>2. CASE End("exit1", disk)
  BY <1>1, <1>2 DEF End, ArchiveInv
<1>3. CASE End("aborted", disk \cup {a})
  BY <1>3 DEF End, ArchiveInv, Dead
<1>4. CASE /\ a \notin disk /\ disk' = disk \cup {a} /\ proc' = proc
           /\ \/ /\ files_to_rm_on_destruct' = files_to_rm_on_destruct \cup {a}
                 /\ UNCHANGED <<kept, unremovable>>
              \/ /\ kept' = kept \cup {a}
                 /\ UNCHANGED <<files_to_rm_on_destruct, unremovable>>
  BY <1>1, <1>4 DEF ArchiveInv
<1> QED  BY <1>2, <1>3, <1>4 DEF ArchiveDirTmp, ArchiveDir

LEMMA ArchiveRemoved ==
    ASSUME ArchiveInv, RemoveArchive
    PROVE  ArchiveInv'
<1>1. proc \notin Dead /\ proc' = proc /\ kept' = kept
  BY DEF RemoveArchive, Orderly, Dead
<1>2. PICK a \in files_to_rm_on_destruct :
        /\ files_to_rm_on_destruct' = files_to_rm_on_destruct \ {a}
        /\ \/ disk' = disk \ {a} /\ UNCHANGED unremovable
           \/ unremovable' = unremovable \cup {a} /\ UNCHANGED disk
  BY DEF RemoveArchive
<1> QED  BY <1>1, <1>2 DEF ArchiveInv

LEMMA NextKeepsArchives == ArchiveInv /\ [Next]_vars => ArchiveInv'
<1> SUFFICES ASSUME ArchiveInv, [Next]_vars PROVE ArchiveInv'  OBVIOUS
<1>1. CASE Elsewhere
  BY <1>1 DEF Elsewhere, archives, ArchiveInv
<1>2. CASE UNCHANGED vars
  BY <1>2 DEF vars, ArchiveInv
<1> QED
  BY <1>1, <1>2, ArchivesChange, ArchiveWritten, ArchiveRemoved

\* When main has returned, what is on disk is what the script asked to keep and
\* what could not be removed, however the script ended and however many of the
\* removals failed.
THEOREM OnlyKeptArchivesLeft == Spec => []ArchivesLeft
<1>1. Init => ArchiveInv
  BY DEF Init, ArchiveInv
<1>2. ArchiveInv => ArchivesLeft
  BY DEF ArchiveInv, ArchivesLeft, Orderly, Dead
<1> QED
  BY <1>1, <1>2, NextKeepsArchives, PTL DEF Spec

-----------------------------------------------------------------------------
(* The log context.                                                        *)

\* What context_pop takes off is what context_push put on.
LEMMA PushPop ==
    ASSUME NEW S, NEW t \in Seq(S), NEW a \in S, NEW b \in S
    PROVE  /\ Front(Append(t, a)) = t
           /\ Drop2(Append(Append(t, a), b)) = t
           /\ Append(Append(t, a), b) = t \o <<a, b>>
<1>1. ASSUME NEW x \in S PROVE Front(Append(t, x)) = t
  <2>1. /\ Append(t, x) \in Seq(S) /\ Len(Append(t, x)) = Len(t) + 1
        /\ Len(t) \in Nat
        /\ \A i \in 1..Len(t) : Append(t, x)[i] = t[i]
    BY AppendProperties, LenProperties
  <2>2. /\ Front(Append(t, x)) \in Seq(S) /\ Len(Front(Append(t, x))) = Len(t)
        /\ \A i \in 1..Len(t) : Front(Append(t, x))[i] = t[i]
    BY <2>1, Prefix DEF Front
  <2> QED  BY <2>2, SeqEqual
<1>2. /\ Append(t, a) \in Seq(S) /\ Len(Append(t, a)) = Len(t) + 1
      /\ Len(t) \in Nat
      /\ \A i \in 1..Len(t) : Append(t, a)[i] = t[i]
      /\ Append(t, a)[Len(t) + 1] = a
  BY AppendProperties, LenProperties
<1> DEFINE u == Append(t, a)  v == Append(u, b)
<1>3. /\ v \in Seq(S) /\ Len(v) = Len(t) + 2
      /\ \A i \in 1..Len(t) : v[i] = t[i]
      /\ v[Len(t) + 1] = a /\ v[Len(t) + 2] = b
  <2> HIDE DEF u
  <2>1. u \in Seq(S) /\ Len(u) = Len(t) + 1
    BY <1>2 DEF u
  <2>2. /\ v \in Seq(S) /\ Len(v) = Len(u) + 1
        /\ \A i \in 1..Len(u) : v[i] = u[i]
        /\ v[Len(u) + 1] = b
    BY <2>1, AppendProperties
  <2> QED  BY <1>2, <2>1, <2>2 DEF u
<1>4. Drop2(v) = t
  <2> HIDE DEF u, v
  <2>1. /\ Drop2(v) \in Seq(S) /\ Len(Drop2(v)) = Len(t)
        /\ \A i \in 1..Len(t) : Drop2(v)[i] = t[i]
    BY <1>2, <1>3, Prefix DEF Drop2
  <2> QED  BY <2>1, SeqEqual
<1>5. v = t \o <<a, b>>
  <2> HIDE DEF u, v
  <2>1. /\ <<a, b>> \in Seq(S) /\ Len(<<a, b>>) = 2
        /\ <<a, b>>[1] = a /\ <<a, b>>[2] = b
    OBVIOUS
  <2> DEFINE p == <<a, b>>
  <2> HIDE DEF p
  <2>2. /\ t \o p \in Seq(S) /\ Len(t \o p) = Len(t) + 2
        /\ \A i \in 1..Len(t) + 2 : (t \o p)[i] =
               IF i <= Len(t) THEN t[i] ELSE p[i - Len(t)]
    BY <2>1, ConcatProperties DEF p
  <2>3. \A i \in 1..Len(t) + 2 : v[i] = (t \o p)[i]
    <3>1. ASSUME NEW i \in 1..Len(t) PROVE v[i] = (t \o p)[i]
      BY <1>2, <1>3, <2>2
    <3>2. v[Len(t) + 1] = (t \o p)[Len(t) + 1]
      BY <1>2, <1>3, <2>1, <2>2 DEF p
    <3>3. v[Len(t) + 2] = (t \o p)[Len(t) + 2]
      BY <1>2, <1>3, <2>1, <2>2 DEF p
    <3>4. \A i \in 1..Len(t) + 2 :
              i \in 1..Len(t) \/ i = Len(t) + 1 \/ i = Len(t) + 2
      BY <1>2
    <3> QED  BY <3>1, <3>2, <3>3, <3>4, Zenon
  <2>4. v = t \o p
    BY <1>3, <2>2, <2>3, SeqEqual
  <2> QED  BY <2>4 DEF p
<1> QED  BY <1>1, <1>4, <1>5

ContextEntries == TaskNames \cup Roles \cup Remotes

ContextInv ==
    /\ ContextMatchesStack
    /\ proc \in {"load", "verify", "next"} => context = <<>>

\* What the context is made of.
LEMMA TaskContextType ==
    ASSUME IInv, InScript
    PROVE  TaskContext \in Seq(ContextEntries)
<1>1. 1 \in DOMAIN stack
  BY TopOfStack
<1>2. CASE stack[1].kind = "task"
  <2>1. next_task \in 1..Len(Requested)
    BY <1>1, <1>2, RequestedAssumption, LenProperties
       DEF IInv, VerifiedOnce, TasksVerified
  <2>2. Requested[next_task] \in ContextEntries
    BY <2>1, RequestedAssumption, ElementOfSeq DEF ContextEntries
  <2> QED  BY <1>2, <2>2 DEF TaskContext
<1> QED  BY <1>2, EmptySeq DEF TaskContext

LEMMA RoleContextIs ==
    ASSUME NoNestedRoles, NEW d \in RoleDepths
    PROVE  RoleContext = <<stack[d].role, inventory[stack[d].at].remote>>
<1>1. d = CHOOSE e \in RoleDepths : TRUE
  BY DEF NoNestedRoles
<1> QED  BY <1>1 DEF RoleContext

LEMMA ContextInRole ==
    ASSUME IInv, ContextInv, InScript, NEW d \in RoleDepths
    PROVE  /\ stack[d].role \in ContextEntries
           /\ inventory[stack[d].at].remote \in ContextEntries
           /\ context = TaskContext \o
                  <<stack[d].role, inventory[stack[d].at].remote>>
<1>1. context = TaskContext \o RoleContext
  BY DEF ContextInv, ContextMatchesStack
<1>2. RoleContext = <<stack[d].role, inventory[stack[d].at].remote>>
  BY RoleContextIs DEF IInv
<1>3. /\ stack[d].at \in DOMAIN inventory
      /\ stack[d].role = inventory[stack[d].at].role
  BY DEF IInv, ApiMatchesStack, TargetsInScope
<1>4. inventory[stack[d].at] \in Items
  <2>1. inventory \in Seq(Items)  BY DEF IInv, TypeOK
  <2> QED  BY <1>3, <2>1, LenProperties, ElementOfSeq
<1> QED  BY <1>1, <1>2, <1>3, <1>4 DEF ContextEntries, Roles, Remotes

LEMMA ContextOutsideRole ==
    ASSUME IInv, ContextInv, InScript, RoleDepths = {}
    PROVE  context = TaskContext
<1>1. RoleContext = <<>>
  BY DEF RoleContext
<1>2. context = TaskContext \o <<>>
  BY <1>1 DEF ContextInv, ContextMatchesStack
<1> QED  BY <1>2, TaskContextType, ConcatEmptySeq

\* A step that leaves the task, the role and the context as they are.
LEMMA ContextStays ==
    ASSUME IInv, ContextInv, InScript, IInv',
           UNCHANGED <<proc, next_task, context>>, stack'[1] = stack[1],
           RoleDepths' = RoleDepths,
           \A d \in RoleDepths : stack'[d] = stack[d],
           \A i \in DOMAIN inventory : inventory'[i] = inventory[i]
    PROVE  ContextInv'
<1>1. TaskContext' = TaskContext
  BY DEF TaskContext
<1>2. RoleContext' = RoleContext
  <2>1. CASE RoleDepths = {}
    BY <2>1 DEF RoleContext
  <2>2. ASSUME NEW d \in RoleDepths PROVE RoleContext' = RoleContext
    <3>1. RoleContext = <<stack[d].role, inventory[stack[d].at].remote>>
      BY RoleContextIs DEF IInv
    <3>2. d = CHOOSE e \in RoleDepths' : TRUE
      BY DEF IInv, NoNestedRoles
    <3>3. RoleContext' = <<stack'[d].role, inventory'[stack'[d].at].remote>>
      BY <3>2 DEF RoleContext
    <3>4. stack[d].at \in DOMAIN inventory
      BY DEF IInv, ApiMatchesStack, TargetsInScope
    <3> QED  BY <3>1, <3>3, <3>4
  <2> QED  BY <2>1, <2>2
<1> QED  BY <1>1, <1>2 DEF ContextInv, ContextMatchesStack, InScript

\* The run ends: no function of the script is active any more.
LEMMA EndContext ==
    ASSUME NEW how \in Ended, NEW disk0, End(how, disk0)
    PROVE  ContextInv'
BY DEF End, ContextInv, ContextMatchesStack, InScript, Ended, Orderly

\* kafe.on pops the role and the host, however its loop is left.
LEMMA LeaveRoleContext ==
    ASSUME IInv, ContextInv, InScript, NEW d \in RoleDepths, NEW jmp,
           NEW result, LeaveRole(d, jmp, result)
    PROVE  ContextInv'
<1>1. d \in DOMAIN stack /\ stack[d].kind = "on"
  BY DEF RoleDepths
<1>2. stack'[1] = stack[1]
  BY <1>1, LeaveShape DEF LeaveRole, LeaveCall
<1>3. RoleDepths' = {}
  BY LeaveRoleShape DEF LeaveRole, LeaveCall
<1>4. context' = TaskContext
  <2> DEFINE t == TaskContext
             role == stack[d].role
             remote == inventory[stack[d].at].remote
  <2>1. /\ t \in Seq(ContextEntries)
        /\ role \in ContextEntries /\ remote \in ContextEntries
        /\ context = t \o <<role, remote>>
    BY ContextInRole, TaskContextType
  <2> HIDE DEF t, role, remote
  <2>2. context = Append(Append(t, role), remote)
    BY <2>1, PushPop
  <2>3. Drop2(Append(Append(t, role), remote)) = t
    BY <2>1, PushPop
  <2> QED  BY <2>2, <2>3 DEF LeaveRole, t
<1>5. TaskContext' = TaskContext /\ RoleContext' = <<>>
  BY <1>2, <1>3 DEF TaskContext, RoleContext, LeaveRole, LeaveCall
<1>6. TaskContext \o <<>> = TaskContext
  BY TaskContextType, ConcatEmptySeq
<1> QED
  BY <1>4, <1>5, <1>6
     DEF ContextInv, ContextMatchesStack, InScript, LeaveRole, LeaveCall

\* kafe.on pushes a host, the role being there already.
LEMMA EnterHostContext ==
    ASSUME IInv, ContextInv, InScript, IInv', NEW n \in 1..Len(stack),
           NEW frame \in Frame, \A e \in RoleDepths : e > n,
           frame.kind = "on", NEW i \in frame.targets, i \in DOMAIN inventory,
           frame.role \in ContextEntries,
           EnterHost(SubSeq(stack, 1, n), frame, i,
                     Append(TaskContext, frame.role))
    PROVE  ContextInv'
<1> DEFINE t == TaskContext
           remote == inventory[i].remote
<1>1. /\ stack'[1] = stack[1] /\ RoleDepths' = {n + 1}
      /\ stack'[n + 1].role = frame.role /\ stack'[n + 1].at = i
      /\ inventory[i] \in Items
  BY EnterHostShape
<1>2. context' = Append(Append(t, frame.role), remote)
  BY DEF EnterHost
<1>3. remote \in ContextEntries
  BY <1>1 DEF ContextEntries, Remotes
<1>4. context' = t \o <<frame.role, remote>>
  BY <1>2, <1>3, TaskContextType, PushPop
<1>5. TaskContext' = t
  BY <1>1 DEF TaskContext, EnterHost
<1>6. RoleContext' = <<frame.role, remote>>
  <2>1. n + 1 = CHOOSE e \in RoleDepths' : TRUE
    BY <1>1
  <2> QED  BY <1>1, <2>1 DEF RoleContext, EnterHost, scope
<1> QED
  BY <1>4, <1>5, <1>6 DEF ContextInv, ContextMatchesStack, InScript, EnterHost
-----------------------------------------------------------------------------
(* Every step keeps the context.                                           *)

\* kafe.invoke and pcall have nothing to do with the context.
LEMMA PushContext ==
    ASSUME IInv, ContextInv, InScript, IInv',
           NEW kind \in {"invoke", "pcall"}, stack' = Append(stack, Call(kind)),
           UNCHANGED <<proc, next_task, context, inventory>>
    PROVE  ContextInv'
<1>1. /\ stack'[1] = stack[1] /\ RoleDepths' = RoleDepths
      /\ \A i \in DOMAIN stack : stack'[i] = stack[i]
  BY PushShape
<1> QED  BY <1>1, ContextStays DEF RoleDepths

LEMMA LeaveCallContext ==
    ASSUME IInv, ContextInv, InScript, IInv', NEW d \in DOMAIN stack, NEW jmp,
           NEW r, stack[d].kind \in {"invoke", "pcall"},
           \A e \in (d + 1)..Len(stack) : stack[e].kind # "on",
           LeaveCall(d, jmp, r), context' = context
    PROVE  ContextInv'
<1>1. /\ d \in 2..Len(stack) /\ Len(stack) \in Nat
      /\ DOMAIN stack' = 1..(d - 1)
      /\ \A i \in 1..(d - 1) : stack'[i] = stack[i]
  BY LeaveShape DEF LeaveCall
<1>2. RoleDepths' = RoleDepths
  BY LeaveCallShape DEF LeaveCall
<1>3. \A e \in RoleDepths : stack'[e] = stack[e]
  BY <1>1, <1>2 DEF RoleDepths
<1>4. stack'[1] = stack[1]
  BY <1>1
<1>5. UNCHANGED <<proc, next_task, context, inventory>>
  BY DEF LeaveCall, scope
<1> QED  BY <1>2, <1>3, <1>4, <1>5, ContextStays

LEMMA ThrowStrictContext ==
    ASSUME IInv, ContextInv, InScript, IInv', ThrowStrict
    PROVE  ContextInv'
<1>1. CASE End("aborted", disk) \/ End("exit0", disk)
  BY <1>1, EndContext DEF Ended, Orderly
<1>2. ASSUME NEW d \in DOMAIN stack,
             stack[d].kind = "on", LeaveRole(d, "dead", "false")
      PROVE  ContextInv'
  BY <1>2, LeaveRoleContext DEF RoleDepths
<1>3. ASSUME NEW d \in DOMAIN stack,
             \A e \in (d + 1)..Len(stack) : stack[e].kind \notin StrictHandlers,
             stack[d].kind = "invoke", LeaveInvoke(d, "dead", "false")
      PROVE  ContextInv'
  <2>1. \A e \in (d + 1)..Len(stack) : stack[e].kind # "on"
    BY <1>3 DEF StrictHandlers
  <2> QED  BY <1>3, <2>1, LeaveCallContext DEF LeaveInvoke
<1> QED  BY <1>1, <1>2, <1>3 DEF ThrowStrict

LEMMA QuietContext ==
    ASSUME IInv, ContextInv, InScript, IInv',
           UNCHANGED <<proc, next_task, stack, context>>,
           \/ inventory' = inventory
           \/ \E item \in Items : inventory' = Append(inventory, item)
    PROVE  ContextInv'
<1>1. \A i \in DOMAIN inventory : inventory'[i] = inventory[i]
  <2>1. inventory \in Seq(Items)  BY DEF IInv, TypeOK
  <2> QED  BY <2>1, Longer, LenProperties
<1> QED  BY <1>1, ContextStays DEF RoleDepths

LEMMA EngineContext ==
    ASSUME IInv, ContextInv, Engine
    PROVE  ContextInv'
<1>1. CASE End("exit0", disk) \/ End("exit1", disk)
  BY <1>1, EndContext DEF Ended, Orderly
<1>2. ASSUME NEW kind \in {"evaluate", "task"}, proc' = "script",
             stack' = <<Call(kind)>>, next_task' = next_task,
             context' = IF kind = "task" THEN <<Requested[next_task]>> ELSE <<>>
      PROVE  ContextInv'
  <2>1. stack'[1].kind = kind /\ DOMAIN stack' = {1}
    BY <1>2 DEF Call
  <2>2. RoleContext' = <<>>
    BY <2>1 DEF RoleContext, RoleDepths
  <2>3. TaskContext' = context'
    BY <1>2, <2>1 DEF TaskContext
  <2>4. context' \o <<>> = context'
    BY <1>2, <2>3, ConcatEmptySeq, EmptySeq
  <2> QED
    BY <1>2, <2>2, <2>3, <2>4 DEF ContextInv, ContextMatchesStack, InScript
<1>3. CASE LoadFile
  BY <1>1, <1>2, <1>3 DEF LoadFile, ContextInv
<1>4. CASE VerifyTasks
  BY <1>1, <1>4 DEF VerifyTasks, ContextInv, ContextMatchesStack, InScript
<1>5. CASE StartTask
  <2>1. stack = <<>> /\ context = <<>>
    BY <1>5 DEF StartTask, IInv, StackShape, ContextInv
  <2>2. /\ stack' = <<Call("task")>> /\ context' = <<Requested[next_task]>>
    BY <1>5, <2>1 DEF StartTask
  <2> QED  BY <1>2, <1>5, <2>2 DEF StartTask
<1>6. CASE Finish
  BY <1>1, <1>6 DEF Finish
<1> QED  BY <1>3, <1>4, <1>5, <1>6 DEF Engine
LEMMA FunctionContext ==
    ASSUME IInv, ContextInv, IInv', Function
    PROVE  ContextInv'
<1>1. InScript
  BY DEF Function, ReturnFromScript, ReturnFromTask, ReturnFromHost,
     ReturnFromInvoke, LeavePcall, RaiseError
<1>2. /\ Len(stack) \in DOMAIN stack /\ Top = stack[Len(stack)] /\ Top \in Frame
      /\ Len(stack) \in Nat \ {0}
  BY <1>1, TopOfStack DEF Top
<1>3. ASSUME NEW jmp, NEW result, Top.kind = "on",
             LeaveRole(Len(stack), jmp, result)
      PROVE  ContextInv'
  BY <1>1, <1>2, <1>3, LeaveRoleContext DEF RoleDepths
<1>4. ASSUME NEW jmp, NEW r, Top.kind \in {"invoke", "pcall"},
             LeaveCall(Len(stack), jmp, r), context' = context
      PROVE  ContextInv'
  <2>1. \A e \in (Len(stack) + 1)..Len(stack) : stack[e].kind # "on"
    BY <1>2
  <2> QED  BY <1>1, <1>2, <1>4, <2>1, LeaveCallContext
<1>5. ASSUME Top.kind \in {"evaluate", "task"}
      PROVE  /\ RoleDepths = {}
             /\ context = IF Top.kind = "task" THEN <<Requested[next_task]>>
                          ELSE <<>>
  <2>1. Len(stack) = 1
    BY <1>2, <1>5 DEF IInv, StackShape
  <2>2. RoleDepths = {}
    BY <1>1, <1>2, <1>5, <2>1, TopOfStack DEF RoleDepths
  <2> QED
    BY <1>1, <1>2, <1>5, <2>1, <2>2, ContextOutsideRole DEF TaskContext
<1>6. CASE ReturnFromScript
  BY <1>5, <1>6 DEF ReturnFromScript, ContextInv, ContextMatchesStack, InScript
<1>7. CASE ReturnFromTask
  <2>1. context = <<Requested[next_task]>>
    BY <1>5, <1>7 DEF ReturnFromTask
  <2>2. Front(context) = <<>>
    BY <2>1, SubSeqEmpty DEF Front
  <2> QED
    BY <1>7, <2>2 DEF ReturnFromTask, ContextInv, ContextMatchesStack, InScript
<1>8. CASE ReturnFromHost
  <2>1. ASSUME NEW i \in HostsLeft,
               EnterHost(Front(stack), Top, i, Front(context))
        PROVE  ContextInv'
    <3>1. Len(stack) \in RoleDepths /\ Top.kind = "on"
      BY <1>2, <1>8 DEF ReturnFromHost, RoleDepths
    <3>2. Len(stack) - 1 \in 1..Len(stack)
      BY <1>2, <3>1 DEF IInv, StackShape
    <3>3. \A e \in RoleDepths : e > Len(stack) - 1
      BY <1>2, <3>1 DEF IInv, NoNestedRoles
    <3>4. i \in Top.targets /\ i \in DOMAIN inventory
      BY <1>2, <3>1 DEF HostsLeft, IInv, TargetsInScope
    <3> DEFINE t == TaskContext
               remote == inventory[Top.at].remote
    <3>5. /\ t \in Seq(ContextEntries)
          /\ Top.role \in ContextEntries /\ remote \in ContextEntries
          /\ context = t \o <<Top.role, remote>>
      BY <1>1, <1>2, <3>1, ContextInRole, TaskContextType
    <3> HIDE DEF t, remote
    <3>6. Append(t, Top.role) \in Seq(ContextEntries)
      BY <3>5, AppendProperties
    <3>7. context = Append(Append(t, Top.role), remote)
      BY <3>5, PushPop
    <3>8. Front(Append(Append(t, Top.role), remote)) = Append(t, Top.role)
      BY <3>5, <3>6, PushPop
    <3>9. EnterHost(SubSeq(stack, 1, Len(stack) - 1), Top, i,
                    Append(TaskContext, Top.role))
      BY <2>1, <3>7, <3>8 DEF t, Front
    <3> QED
      BY <1>1, <1>2, <3>1, <3>2, <3>3, <3>4, <3>5, <3>9, EnterHostContext
  <2> QED  BY <1>3, <1>8, <2>1 DEF ReturnFromHost
<1>9. CASE ReturnFromInvoke
  BY <1>4, <1>9 DEF ReturnFromInvoke, LeaveInvoke
<1>10. CASE LeavePcall
  BY <1>4, <1>10 DEF LeavePcall
<1>11. ASSUME NEW printable, RaiseError(printable) PROVE ContextInv'
  <2>1. CASE \E how \in Ended : End(how, disk)
    BY <2>1, EndContext
  <2> QED
    BY <1>3, <1>4, <1>10, <1>11, <2>1
       DEF RaiseError, LeaveInvoke, Ended, Orderly
<1> QED
  BY <1>6, <1>7, <1>8, <1>9, <1>10, <1>11 DEF Function
LEMMA CommandContext ==
    ASSUME IInv, ContextInv, InScript, IInv', NEW ok, Command(ok)
    PROVE  ContextInv'
BY ThrowStrictContext, QuietContext DEF Command, scope

LEMMA OnContext ==
    ASSUME IInv, ContextInv, IInv', NEW role \in Roles, On(role)
    PROVE  ContextInv'
<1>1. InScript /\ RoleDepths = {}
  BY DEF On, EnterRole, CanCall, IInv, ApiMatchesStack
<1>2. CASE UNCHANGED <<proc, next_task, stack, context, inventory>>
  BY <1>1, <1>2, QuietContext
<1>3. ASSUME NEW i \in FindForScope(role),
             EnterHost(stack, RoleCall(role, FindForScope(role)), i,
                       Append(context, role))
      PROVE  ContextInv'
  <2> DEFINE frame == RoleCall(role, FindForScope(role))
  <2>1. FindForScope(role) \subseteq DOMAIN inventory /\ DOMAIN inventory \subseteq Nat
    <3>1. inventory \in Seq(Items)  BY DEF IInv, TypeOK
    <3> QED  BY <3>1, LenProperties DEF FindForScope
  <2>2. /\ frame \in Frame /\ frame.kind = "on"
        /\ frame.targets = FindForScope(role) /\ frame.role = role
    BY <2>1 DEF RoleCall, Frame, IInv, TypeOK
  <2>3. role \in ContextEntries
    BY DEF ContextEntries
  <2>4. Len(stack) \in 1..Len(stack) /\ SubSeq(stack, 1, Len(stack)) = stack
    BY <1>1, TopOfStack
  <2>5. EnterHost(SubSeq(stack, 1, Len(stack)), frame, i,
                  Append(TaskContext, frame.role))
    BY <1>1, <1>3, <2>2, <2>4, ContextOutsideRole
  <2> HIDE DEF frame
  <2> QED
    BY <1>1, <2>1, <2>2, <2>3, <2>4, <2>5, EnterHostContext
<1> QED  BY <1>2, <1>3 DEF On, EnterRole, scope

LEMMA ApiContext ==
    ASSUME IInv, ContextInv, IInv', Api
    PROVE  ContextInv'
<1>1. ASSUME NEW how \in Ended, NEW disk0, End(how, disk0) PROVE ContextInv'
  BY <1>1, EndContext
<1>2. ASSUME NEW x, TaskDefine(x) PROVE ContextInv'
  BY <1>2, QuietContext DEF TaskDefine
<1>3. ASSUME NEW item \in Items, AddInventory(item) PROVE ContextInv'
  BY <1>3, QuietContext DEF AddInventory
<1>4. CASE AddInventoryBadPort \/ CallOffThread \/ DefineUnprintable
  BY <1>1, <1>4 DEF AddInventoryBadPort, CallOffThread, DefineUnprintable,
     Ended, Orderly
<1>5. ASSUME NEW role, NEW skip_empty, OnFlagged(role, skip_empty)
      PROVE  ContextInv'
  <2>1. RaiseError(TRUE) => ContextInv'
    BY FunctionContext DEF Function
  <2>2. InScript
    BY <1>5 DEF OnFlagged
  <2> QED  BY <1>5, <2>1, <2>2, QuietContext DEF OnFlagged, scope
<1>6. CASE Invoke
  BY <1>6, PushContext DEF Invoke, CanCall, scope
<1>7. CASE Pcall
  BY <1>7, PushContext DEF Pcall, CanCall, scope
<1>8. ASSUME NEW outcome, RemoteShell(outcome) PROVE ContextInv'
  BY <1>1, <1>8, CommandContext DEF RemoteShell, Ended, Orderly
<1>9. ASSUME NEW ok, LocalShell(ok) \/ Transfer(ok) PROVE ContextInv'
  BY <1>9, CommandContext DEF LocalShell, Transfer
<1>10. ASSUME NEW a, NEW outcome,
              ArchiveDirTmp(a, outcome) \/ ArchiveDir(a, outcome)
       PROVE  ContextInv'
  BY <1>1, <1>10, QuietContext DEF ArchiveDirTmp, ArchiveDir, Ended, Orderly
<1> QED
  BY <1>2, <1>3, <1>4, <1>5, <1>6, <1>7, <1>8, <1>9, <1>10, OnContext DEF Api

LEMMA NextKeepsContext == IInv /\ ContextInv /\ [Next]_vars => ContextInv'
<1> SUFFICES ASSUME IInv, ContextInv, [Next]_vars PROVE ContextInv'
  OBVIOUS
<1>1. IInv'
  BY NextKeepsInv
<1>2. ASSUME NEW b, Strict(b) PROVE ContextInv'
  BY <1>1, <1>2, QuietContext DEF Strict, scope
<1>3. CASE UNCHANGED vars \/ RemoveArchive
  <2>1. UNCHANGED <<proc, next_task, stack, context, inventory>>
    BY <1>3 DEF vars, RemoveArchive
  <2>2. CASE InScript
    BY <1>1, <2>1, <2>2, QuietContext
  <2>3. CASE ~InScript
    BY <1>3, <2>1, <2>3 DEF vars, RemoveArchive, ContextInv,
       ContextMatchesStack, InScript
  <2> QED  BY <2>2, <2>3
<1> QED
  BY <1>1, <1>2, <1>3, EngineContext, FunctionContext, ApiContext
     DEF Next, Terminated

LEMMA ContextInvariance == Spec => []ContextInv
<1>1. Init => ContextInv
  BY DEF Init, ContextInv, ContextMatchesStack, InScript
<1> QED  BY <1>1, NextKeepsContext, Invariance, PTL DEF Spec

\* The log context names the task, the role and the host the script is in and
\* nothing else, however the calls that pushed to it were left.
THEOREM ContextFollowsCalls == Spec => []ContextMatchesStack
<1>1. ContextInv => ContextMatchesStack  BY DEF ContextInv
<1> QED  BY <1>1, ContextInvariance, PTL

\* Whatever was thrown or raised before it, the next task starts clean.
THEOREM TasksStartClean == Spec => []CleanBetweenTasks
<1>1. IInv /\ ContextInv => CleanBetweenTasks
  <2> SUFFICES ASSUME IInv, ContextInv, proc \in {"load", "verify", "next"}
               PROVE  stack = <<>> /\ context = <<>> /\ ~HasApi
                      /\ errorJmp = "none"
    BY DEF CleanBetweenTasks
  <2>1. stack = <<>> /\ errorJmp = "none" /\ context = <<>>
    BY DEF IInv, StackShape, ContextInv
  <2>2. RoleDepths = {}
    BY <2>1 DEF RoleDepths
  <2> QED  BY <2>1, <2>2 DEF IInv, ApiMatchesStack
<1> QED  BY <1>1, ContextInvariance, Invariance, PTL

-----------------------------------------------------------------------------
(* ScriptEngine implements Rollout: every step of the engine is, seen      *)
(* through the refinement mapping, a step of kafe.on's promise or none.    *)

\* While a role runs, or after the end, no report of a role is pending.
ReportInv == (RoleDepths # {} \/ proc \in Ended) => RReport = "none"

Start == IInv /\ ReportInv

\* A step of the abstract specification that keeps the invariant.
Maps == ReportInv' /\ [rollout!Next]_rollout!vars

-----------------------------------------------------------------------------
(* The mapping.                                                            *)

LEMMA MapIdle ==
    ASSUME RoleDepths = {}
    PROVE  RTargets = {} /\ RVisited = {}
BY DEF RTargets, RVisited

LEMMA MapIdlePrimed ==
    ASSUME RoleDepths' = {}
    PROVE  RTargets' = {} /\ RVisited' = {}
BY DEF RTargets, RVisited

LEMMA MapRunning ==
    ASSUME NEW d, RoleDepths = {d}
    PROVE  /\ RTargets = stack[d].targets
           /\ RVisited = {i \in stack[d].targets : i <= stack[d].at}
BY DEF RTargets, RVisited

LEMMA MapRunningPrimed ==
    ASSUME NEW d, RoleDepths' = {d}
    PROVE  /\ RTargets' = stack'[d].targets
           /\ RVisited' = {i \in stack'[d].targets : i <= stack'[d].at}
BY DEF RTargets, RVisited

LEMMA OneRole ==
    ASSUME IInv, NEW d \in RoleDepths
    PROVE  RoleDepths = {d} /\ RPhase # "idle"
BY DEF IInv, NoNestedRoles, RPhase

-----------------------------------------------------------------------------
(* The ways a step can go.                                                 *)

\* The run ends.
LEMMA EndMaps ==
    ASSUME Start, proc \notin Ended, NEW how \in Ended, NEW disk0,
           End(how, disk0)
    PROVE  Maps
<1>1. RoleDepths' = {}
  BY DEF End, RoleDepths
<1>2. RPhase # "over" /\ RPhase' = "over"
  BY <1>1 DEF RPhase, End
<1>3. RReport' = "none"
  BY DEF RReport, End, NoReply
<1>4. rollout!Kill
  BY <1>1, <1>2, <1>3, MapIdlePrimed DEF rollout!Kill
<1> QED  BY <1>3, <1>4 DEF Maps, ReportInv, rollout!Next

\* The role's loop is left: after the last host, or because of a failure.
LEMMA LeaveRoleMaps ==
    ASSUME Start, InScript, NEW d \in RoleDepths, NEW jmp,
           NEW result \in {"true", "false"}, LeaveRole(d, jmp, result),
           result = "true" => RVisited = RTargets
    PROVE  Maps
<1>1. RoleDepths' = {}
  BY LeaveRoleShape DEF LeaveRole, LeaveCall, Start
<1>2. RPhase = "running" /\ RPhase' = "idle" /\ proc' \notin Ended
  BY <1>1 DEF RPhase, InScript, Ended, Orderly, LeaveRole, LeaveCall
<1>3. RReport' = result
  BY DEF RReport, LeaveRole, LeaveCall
<1>4. rollout!Leave(result)
  BY <1>1, <1>2, <1>3, MapIdlePrimed DEF rollout!Leave
<1>5. rollout!Next
  BY <1>4 DEF rollout!Next, rollout!Succeed, rollout!Fail
<1> QED  BY <1>1, <1>2, <1>5 DEF Maps, ReportInv

\* Nothing happens to the role at hand.
LEMMA SameRoleMaps ==
    ASSUME Start, proc \notin Ended, proc' \notin Ended,
           RoleDepths' = RoleDepths,
           \A d \in RoleDepths : stack'[d] = stack[d],
           RReport' \in {"none", "nil", "false"},
           RoleDepths # {} => RReport' = "none"
    PROVE  Maps
<1>1. RPhase' = RPhase /\ RTargets' = RTargets /\ RVisited' = RVisited
  BY DEF RPhase, RTargets, RVisited
<1>2. CASE RoleDepths = {}
  <2>1. rollout!Skip
    BY <1>1, <1>2 DEF rollout!Skip, RPhase
  <2> QED  BY <1>2, <2>1 DEF Maps, ReportInv, rollout!Next
<1>3. CASE RoleDepths # {}
  <2>1. RReport' = RReport
    BY <1>3 DEF Start, ReportInv
  <2> QED  BY <1>1, <1>3, <2>1 DEF Maps, ReportInv, rollout!vars
<1> QED  BY <1>2, <1>3

\* The first host: the call begins.
LEMMA BeginMaps ==
    ASSUME Start, NEW role \in Roles, InScript, RoleDepths = {},
           NEW i \in FindForScope(role), \A j \in FindForScope(role) : i <= j,
           NEW ctx, EnterHost(stack, RoleCall(role, FindForScope(role)), i, ctx)
    PROVE  Maps
<1> DEFINE frame == RoleCall(role, FindForScope(role))
           n == Len(stack)
<1>1. FindForScope(role) \subseteq DOMAIN inventory /\ DOMAIN inventory \subseteq Nat
  <2>1. inventory \in Seq(Items)  BY DEF Start, IInv, TypeOK
  <2> QED  BY <2>1, LenProperties DEF FindForScope
<1>2. /\ frame \in Frame /\ frame.kind = "on"
      /\ frame.targets = FindForScope(role)
  BY <1>1 DEF RoleCall, Frame, Start, IInv, TypeOK
<1>3. n \in 1..n /\ SubSeq(stack, 1, n) = stack
  BY TopOfStack DEF Start
<1>4. /\ RoleDepths' = {n + 1}
      /\ stack'[n + 1].at = i /\ stack'[n + 1].targets = FindForScope(role)
  <2> HIDE DEF frame
  <2>1. EnterHost(SubSeq(stack, 1, n), frame, i, ctx)
    BY <1>3 DEF frame
  <2> QED  BY <1>1, <1>2, <1>3, <2>1, EnterHostShape DEF Start
<1>5. /\ RTargets' = FindForScope(role)
      /\ RVisited' = {j \in FindForScope(role) : j <= i}
  BY <1>4, MapRunningPrimed
<1>6. RVisited' = {i}
  BY <1>1, <1>5
<1>7. RPhase = "idle" /\ RPhase' = "running" /\ RReport' = "none"
  BY <1>4 DEF RPhase, InScript, Ended, Orderly, EnterHost, RReport, NoReply
<1>8. rollout!Begin
  <2>1. rollout!First(i, RTargets') /\ RTargets' \in SUBSET Nat
    BY <1>1, <1>5 DEF rollout!First
  <2> QED  BY <1>6, <1>7, <2>1, <1>5 DEF rollout!Begin, rollout!First
<1> QED  BY <1>7, <1>8 DEF Maps, ReportInv, rollout!Next

\* The next host.
LEMMA AdvanceMaps ==
    ASSUME Start, InScript, Top.kind = "on",
           NEW i \in HostsLeft, \A j \in HostsLeft : i <= j,
           NEW ctx, EnterHost(Front(stack), Top, i, ctx)
    PROVE  Maps
<1> DEFINE n == Len(stack)
<1>1. /\ n \in Nat \ {0} /\ DOMAIN stack = 1..n /\ Top = stack[n]
      /\ Top \in Frame
  BY TopOfStack DEF Start, Top
<1>2. n \in RoleDepths /\ RoleDepths = {n}
  BY <1>1, OneRole DEF RoleDepths, Start
<1>3. n - 1 \in 1..n
  BY <1>1, <1>2 DEF Start, IInv, StackShape
<1>4. Top.targets \in SUBSET Nat /\ Top.at \in Nat
  BY <1>1 DEF Frame
<1>5. i \in Top.targets /\ i > Top.at /\ i \in DOMAIN inventory
  BY <1>1, <1>2 DEF HostsLeft, Start, IInv, TargetsInScope
<1>6. /\ RoleDepths' = {n}
      /\ stack'[n].at = i /\ stack'[n].targets = Top.targets
  <2>1. EnterHost(SubSeq(stack, 1, n - 1), Top, i, ctx)
    BY DEF Front
  <2>2. \A e \in RoleDepths : e > n - 1
    BY <1>1, <1>2
  <2>3. /\ RoleDepths' = {n - 1 + 1}
        /\ stack'[n - 1 + 1].at = i /\ stack'[n - 1 + 1].targets = Top.targets
    BY <1>1, <1>3, <1>5, <2>1, <2>2, EnterHostShape DEF Start
  <2> QED  BY <1>1, <2>3
<1>7. /\ RTargets = Top.targets
      /\ RVisited = {j \in Top.targets : j <= Top.at}
  BY <1>1, <1>2, MapRunning
<1>8. /\ RTargets' = Top.targets
      /\ RVisited' = {j \in Top.targets : j <= i}
  BY <1>6, MapRunningPrimed
<1>9. RTargets \ RVisited = HostsLeft
  BY <1>4, <1>7 DEF HostsLeft
<1>10. RVisited' = RVisited \cup {i}
  <2>1. \A j \in Top.targets : j <= i <=> j <= Top.at \/ j = i
    BY <1>4, <1>5 DEF HostsLeft
  <2> QED  BY <1>5, <1>7, <1>8, <2>1
<1>11. RPhase = "running" /\ RPhase' = "running" /\ RReport' = "none"
  BY <1>2, <1>6
     DEF RPhase, InScript, Ended, Orderly, EnterHost, RReport, NoReply
<1>12. rollout!Advance
  <2>1. rollout!First(i, RTargets \ RVisited)
    BY <1>9 DEF rollout!First
  <2> QED
    BY <1>7, <1>8, <1>9, <1>10, <1>11, <2>1 DEF rollout!Advance, rollout!First
<1> QED  BY <1>11, <1>12 DEF Maps, ReportInv, rollout!Next

-----------------------------------------------------------------------------
(* The steps.                                                              *)

LEMMA NotEnded == InScript => proc \notin Ended
BY DEF InScript, Ended, Orderly

\* A step that leaves the stack alone and reports nothing of a role.
LEMMA QuietMaps ==
    ASSUME Start, InScript, UNCHANGED <<proc, stack>>,
           RReport' \in {"none", "nil", "false"},
           RoleDepths # {} => RReport' = "none"
    PROVE  Maps
BY NotEnded, SameRoleMaps DEF RoleDepths

LEMMA PushMaps ==
    ASSUME Start, InScript, NEW kind \in {"invoke", "pcall"},
           stack' = Append(stack, Call(kind)), reply' = NoReply, proc' = proc
    PROVE  Maps
<1>1. /\ RoleDepths' = RoleDepths /\ DOMAIN stack = 1..Len(stack)
      /\ \A i \in 1..Len(stack) : stack'[i] = stack[i]
  BY PushShape DEF Start
<1>2. RReport' = "none"
  BY DEF RReport, NoReply
<1> QED  BY <1>1, <1>2, NotEnded, SameRoleMaps DEF RoleDepths

LEMMA LeaveCallMaps ==
    ASSUME Start, InScript, NEW d \in DOMAIN stack, NEW jmp, NEW r,
           stack[d].kind \in {"invoke", "pcall"}, r.by # "on",
           \A e \in (d + 1)..Len(stack) : stack[e].kind # "on",
           LeaveCall(d, jmp, r)
    PROVE  Maps
<1>1. /\ d \in 2..Len(stack) /\ Len(stack) \in Nat
      /\ DOMAIN stack' = 1..(d - 1)
      /\ \A i \in 1..(d - 1) : stack'[i] = stack[i]
  BY LeaveShape DEF LeaveCall, Start
<1>2. RoleDepths' = RoleDepths
  BY LeaveCallShape DEF LeaveCall, Start
<1>3. \A e \in RoleDepths : stack'[e] = stack[e]
  BY <1>1, <1>2 DEF RoleDepths
<1>4. RReport' = "none" /\ proc' = proc
  BY DEF RReport, LeaveCall
<1> QED  BY <1>2, <1>3, <1>4, NotEnded, SameRoleMaps

LEMMA ThrowStrictMaps == Start /\ InScript /\ ThrowStrict => Maps
<1> SUFFICES ASSUME Start, InScript, ThrowStrict PROVE Maps  OBVIOUS
<1>1. CASE End("aborted", disk) \/ End("exit0", disk)
  BY <1>1, NotEnded, EndMaps DEF Ended, Orderly
<1>2. ASSUME NEW d \in DOMAIN stack,
             stack[d].kind = "on", LeaveRole(d, "dead", "false")
      PROVE  Maps
  BY <1>2, LeaveRoleMaps DEF RoleDepths
<1>3. ASSUME NEW d \in DOMAIN stack,
             \A e \in (d + 1)..Len(stack) : stack[e].kind \notin StrictHandlers,
             stack[d].kind = "invoke", LeaveInvoke(d, "dead", "false")
      PROVE  Maps
  <2>1. \A e \in (d + 1)..Len(stack) : stack[e].kind # "on"
    BY <1>3 DEF StrictHandlers
  <2>2. [by |-> "invoke", is |-> "false"].by # "on"
    OBVIOUS
  <2> QED  BY <1>3, <2>1, <2>2, LeaveCallMaps DEF LeaveInvoke
<1> QED  BY <1>1, <1>2, <1>3 DEF ThrowStrict

LEMMA CommandMaps ==
    ASSUME Start, InScript, NEW ok, Command(ok)
    PROVE  Maps
<1>1. CASE /\ reply' = [by |-> "command", is |-> IF ok THEN "true" ELSE "false"]
           /\ UNCHANGED <<proc, stack>>
  <2>1. RReport' = "none"
    BY <1>1 DEF RReport
  <2> QED  BY <1>1, <2>1, QuietMaps
<1> QED  BY <1>1, ThrowStrictMaps DEF Command

\* Outside a role there is none before and none after.
LEMMA EngineMaps == Start /\ Engine => Maps
<1> SUFFICES ASSUME Start, Engine PROVE Maps  OBVIOUS
<1>1. proc \notin Ended /\ RoleDepths = {}
  <2>1. proc # "script" /\ proc \notin Ended
    BY DEF Engine, LoadFile, VerifyTasks, StartTask, Finish, Ended, Orderly
  <2>2. stack = <<>>
    BY <2>1 DEF Start, IInv, StackShape
  <2> QED  BY <2>1, <2>2 DEF RoleDepths
<1>2. CASE End("exit0", disk) \/ End("exit1", disk)
  BY <1>1, <1>2, EndMaps DEF Ended, Orderly
<1>3. ASSUME proc' \in {"script", "next"}, reply' = NoReply,
             \/ stack' = stack
             \/ \E kind \in {"evaluate", "task"} : stack' = <<Call(kind)>>
      PROVE  Maps
  <2>1. RoleDepths' = {}
    BY <1>1, <1>3 DEF RoleDepths, Call
  <2>2. RReport' = "none" /\ proc' \notin Ended
    BY <1>3 DEF RReport, NoReply, Ended, Orderly
  <2> QED  BY <1>1, <2>1, <2>2, SameRoleMaps
<1>4. CASE StartTask
  <2>1. stack' = <<Call("task")>>
    BY <1>4 DEF StartTask, Start, IInv, StackShape
  <2> QED  BY <1>3, <1>4, <2>1 DEF StartTask
<1> QED  BY <1>2, <1>3, <1>4 DEF Engine, LoadFile, VerifyTasks, Finish

LEMMA FunctionMaps == Start /\ Function => Maps
<1> SUFFICES ASSUME Start, Function PROVE Maps  OBVIOUS
<1>1. InScript
  BY DEF Function, ReturnFromScript, ReturnFromTask, ReturnFromHost,
     ReturnFromInvoke, LeavePcall, RaiseError
<1>2. /\ Len(stack) \in DOMAIN stack /\ Top = stack[Len(stack)]
      /\ Len(stack) \in Nat \ {0} /\ stack \in Seq(Frame)
  BY <1>1, TopOfStack DEF Top, Start
<1>3. ASSUME NEW jmp, NEW result \in {"true", "false"}, Top.kind = "on",
             LeaveRole(Len(stack), jmp, result),
             result = "true" => HostsLeft = {}
      PROVE  Maps
  <2>1. Len(stack) \in RoleDepths
    BY <1>2, <1>3 DEF RoleDepths
  <2>2. /\ RTargets = Top.targets
        /\ RVisited = {i \in Top.targets : i <= Top.at}
    BY <1>2, <2>1, OneRole, MapRunning DEF Start
  <2>3. Top.targets \in SUBSET Nat /\ Top.at \in Nat
    BY <1>1, TopOfStack DEF Frame, Start
  <2>4. result = "true" => RVisited = RTargets
    BY <1>3, <2>2, <2>3 DEF HostsLeft
  <2> QED  BY <1>1, <1>3, <2>1, <2>4, LeaveRoleMaps
<1>4. ASSUME NEW jmp, NEW r, Top.kind \in {"invoke", "pcall"}, r.by # "on",
             LeaveCall(Len(stack), jmp, r)
      PROVE  Maps
  <2>1. \A e \in (Len(stack) + 1)..Len(stack) : stack[e].kind # "on"
    BY <1>2
  <2> QED  BY <1>1, <1>2, <1>4, <2>1, LeaveCallMaps
<1>5. CASE ReturnFromScript \/ ReturnFromTask
  <2>1. Len(stack) = 1 /\ stack[1].kind # "on"
    BY <1>2, <1>5 DEF ReturnFromScript, ReturnFromTask, Start, IInv, StackShape
  <2>2. RoleDepths = {}
    BY <1>1, <2>1, TopOfStack DEF RoleDepths, Start
  <2>3. stack' = <<>>
    BY <1>5, <2>1, SubSeqEmpty DEF ReturnFromScript, ReturnFromTask, Front
  <2>4. RoleDepths' = {} /\ RReport' = "none" /\ proc' \notin Ended
    BY <1>5, <2>3 DEF RoleDepths, RReport, NoReply, Ended, Orderly,
       ReturnFromScript, ReturnFromTask
  <2> QED  BY <1>1, <2>2, <2>4, NotEnded, SameRoleMaps
<1>6. CASE ReturnFromHost
  BY <1>1, <1>3, <1>6, AdvanceMaps DEF ReturnFromHost
<1>7. LeavePcall => Maps
  <2>1. NoReply.by # "on"
    BY DEF NoReply
  <2> QED  BY <1>4, <2>1 DEF LeavePcall
<1>8. ASSUME NEW jmp, NEW result, Top.kind = "invoke",
             LeaveInvoke(Len(stack), jmp, result)
      PROVE  Maps
  <2>1. [by |-> "invoke", is |-> result].by # "on"
    OBVIOUS
  <2> QED  BY <1>4, <1>8, <2>1 DEF LeaveInvoke
<1>9. CASE ReturnFromInvoke
  BY <1>8, <1>9 DEF ReturnFromInvoke
<1>10. ASSUME NEW printable, RaiseError(printable) PROVE Maps
  <2>1. CASE \E how \in Ended : End(how, disk)
    BY <1>1, <2>1, NotEnded, EndMaps
  <2> QED
    BY <1>3, <1>7, <1>8, <1>10, <2>1 DEF RaiseError, Ended, Orderly
<1> QED
  BY <1>5, <1>6, <1>7, <1>9, <1>10 DEF Function

LEMMA ApiMaps == Start /\ Api => Maps
<1> SUFFICES ASSUME Start, Api PROVE Maps  OBVIOUS
<1>1. ASSUME InScript, NEW how \in Ended, NEW disk0, End(how, disk0) PROVE Maps
  BY <1>1, NotEnded, EndMaps
<1>2. ASSUME InScript, UNCHANGED <<proc, stack>>, reply' = NoReply PROVE Maps
  <2>1. RReport' = "none"
    BY <1>2 DEF RReport, NoReply
  <2> QED  BY <1>2, <2>1, QuietMaps
<1>3. ASSUME InScript, ~HasApi, UNCHANGED <<proc, stack>>,
             NEW is \in {"nil", "false"}, reply' = [by |-> "on", is |-> is]
      PROVE  Maps
  <2>1. RReport' = is
    BY <1>3 DEF RReport
  <2>2. RoleDepths = {}
    BY <1>3 DEF Start, IInv, ApiMatchesStack
  <2> QED  BY <1>3, <2>1, <2>2, QuietMaps
<1>4. ASSUME NEW x, TaskDefine(x) \/ AddInventory(x) PROVE Maps
  BY <1>2, <1>4 DEF TaskDefine, AddInventory
<1>5. CASE AddInventoryBadPort \/ CallOffThread \/ DefineUnprintable
  BY <1>1, <1>5 DEF AddInventoryBadPort, CallOffThread, DefineUnprintable,
     Ended, Orderly
<1>6. ASSUME NEW role \in Roles, On(role) PROVE Maps
  <2>1. InScript /\ ~HasApi /\ RoleDepths = {}
    BY <1>6 DEF On, EnterRole, CanCall, Start, IInv, ApiMatchesStack
  <2> QED
    BY <1>3, <1>6, <2>1, BeginMaps DEF On, EnterRole
<1>7. ASSUME NEW role, NEW skip_empty, OnFlagged(role, skip_empty) PROVE Maps
  <2>1. RaiseError(TRUE) => Maps
    BY FunctionMaps DEF Function
  <2> QED  BY <1>3, <1>7, <2>1 DEF OnFlagged
<1>8. CASE Invoke \/ Pcall
  BY <1>8, PushMaps DEF Invoke, Pcall, CanCall
<1>9. ASSUME NEW outcome, RemoteShell(outcome) PROVE Maps
  BY <1>1, <1>9, CommandMaps DEF RemoteShell, Ended, Orderly
<1>10. ASSUME NEW ok, LocalShell(ok) \/ Transfer(ok) PROVE Maps
  BY <1>10, CommandMaps DEF LocalShell, Transfer
<1>11. ASSUME NEW a, NEW outcome,
              ArchiveDirTmp(a, outcome) \/ ArchiveDir(a, outcome)
       PROVE  Maps
  BY <1>1, <1>2, <1>11 DEF ArchiveDirTmp, ArchiveDir, Ended, Orderly
<1> QED
  BY <1>4, <1>5, <1>6, <1>7, <1>8, <1>9, <1>10, <1>11 DEF Api

LEMMA NextMaps == Start /\ [Next]_vars => Maps
<1> SUFFICES ASSUME Start, [Next]_vars PROVE Maps  OBVIOUS
<1>1. ASSUME NEW b, Strict(b) PROVE Maps
  <2>1. RReport' = "none" /\ InScript /\ UNCHANGED <<proc, stack>>
    BY <1>1 DEF Strict, RReport, NoReply
  <2> QED  BY <2>1, QuietMaps
<1>2. CASE UNCHANGED vars \/ RemoveArchive
  <2>0. UNCHANGED <<proc, stack, reply>>
    BY <1>2 DEF vars, RemoveArchive
  <2>1. /\ RoleDepths' = RoleDepths /\ RPhase' = RPhase /\ RReport' = RReport
        /\ RTargets' = RTargets /\ RVisited' = RVisited /\ proc' = proc
    BY <2>0 DEF RoleDepths, RPhase, RReport, RTargets, RVisited
  <2> QED  BY <2>1 DEF Maps, Start, ReportInv, rollout!vars
<1> QED
  BY <1>1, <1>2, EngineMaps, FunctionMaps, ApiMaps DEF Next, Terminated

-----------------------------------------------------------------------------
\* kafe.on keeps its promise: seen through its targets and the host it is at,
\* every behaviour of the engine is a behaviour of Rollout.
THEOREM OnImplementsRollout == Spec => RolloutSpec
<1>1. Init => rollout!Init /\ ReportInv
  <2> SUFFICES ASSUME Init PROVE rollout!Init /\ ReportInv  OBVIOUS
  <2>1. RoleDepths = {}
    BY DEF Init, RoleDepths
  <2>2. RPhase = "idle" /\ RReport = "none"
    BY <2>1 DEF Init, RPhase, RReport, NoReply, Ended, Orderly
  <2> QED  BY <2>1, <2>2, MapIdle DEF rollout!Init, ReportInv
<1>2. IInv /\ ReportInv /\ [Next]_vars => ReportInv' /\ [rollout!Next]_rollout!vars
  BY NextMaps DEF Start, Maps
<1> QED
  BY <1>1, <1>2, Invariance, PTL DEF Spec, RolloutSpec, rollout!Spec

-----------------------------------------------------------------------------
(* What exit code 0 means.                                                 *)

NextBound == proc = "next" => next_task \in 1..(Len(Requested) + 1)

\* The interrupted task had no role and no kafe.invoke between it and the
\* command that failed.
GivenUp == InTask /\ is_strict_exec_mode
           /\ \A d \in 2..Len(stack) : stack[d].kind = "pcall"

\* What a step may do: the body of TasksAsRequested, and the bound it needs.
Fine ==
    /\ ~InTask /\ InTask' => AllDefined
    /\ proc # "exit0" /\ proc' = "exit0" =>
         (proc = "next" /\ next_task = Len(Requested) + 1) \/ GivenUp
    /\ NextBound'

\* A step that keeps the bottom of the stack, or empties it, starts no task.
LEMMA BottomStays ==
    ASSUME IInv, InScript, proc' \notin {"exit0", "next"},
           stack' # <<>> => stack'[1] = stack[1]
    PROVE  Fine
<1>1. stack # <<>>
  BY DEF IInv, StackShape, InScript
<1>2. InTask' => InTask
  BY <1>1 DEF InTask
<1> QED  BY <1>2 DEF Fine, NextBound

LEMMA EndFine ==
    ASSUME IInv, InScript, NEW how \in Ended \ {"exit0"}, NEW disk0,
           End(how, disk0)
    PROVE  Fine
<1>1. stack' = <<>> /\ proc' = how
  BY DEF End
<1>2. proc' \notin {"exit0", "next"}
  BY <1>1 DEF Ended, Orderly
<1> QED  BY <1>1, <1>2, BottomStays

LEMMA LeaveFine ==
    ASSUME IInv, InScript, NEW d \in DOMAIN stack,
           stack[d].kind \notin {"evaluate", "task"},
           NEW jmp, NEW r, LeaveCall(d, jmp, r)
    PROVE  Fine
<1>1. stack' = SubSeq(stack, 1, d - 1) /\ proc' = proc
  BY DEF LeaveCall
<1>2. d \in 2..Len(stack) /\ Len(stack) \in Nat
      /\ \A i \in 1..(d - 1) : stack'[i] = stack[i]
  BY <1>1, LeaveShape
<1>3. stack'[1] = stack[1]
  BY <1>2
<1> QED  BY <1>1, <1>3, BottomStays DEF InScript

LEMMA EnterFine ==
    ASSUME IInv, InScript, NEW n \in 1..Len(stack), NEW frame, NEW i, NEW ctx,
           EnterHost(SubSeq(stack, 1, n), frame, i, ctx)
    PROVE  Fine
<1>1. stack \in Seq(Frame) /\ Len(stack) \in Nat \ {0}
  BY TopOfStack
<1>2. /\ Len(SubSeq(stack, 1, n)) = n /\ SubSeq(stack, 1, n) \in Seq(Frame)
      /\ SubSeq(stack, 1, n)[1] = stack[1]
  BY <1>1, Prefix
<1>3. stack' = Append(SubSeq(stack, 1, n), [frame EXCEPT !.at = i]) /\ proc' = proc
  BY DEF EnterHost
<1>4. stack'[1] = stack[1]
  BY <1>1, <1>2, <1>3
<1> QED  BY <1>3, <1>4, BottomStays DEF InScript

LEMMA ThrowStrictFine ==
    ASSUME IInv, InScript, is_strict_exec_mode, ThrowStrict
    PROVE  Fine
<1>1. CASE End("aborted", disk)
  BY <1>1, EndFine DEF Ended, Orderly
<1>2. ASSUME NEW d \in DOMAIN stack,
             \/ stack[d].kind = "on"     /\ LeaveRole(d, "dead", "false")
             \/ stack[d].kind = "invoke" /\ LeaveInvoke(d, "dead", "false")
      PROVE  Fine
  BY <1>2, LeaveFine DEF LeaveRole, LeaveInvoke
<1>3. ASSUME NEW d \in DOMAIN stack, stack[d].kind = "task",
             \A e \in (d + 1)..Len(stack) : stack[e].kind \notin StrictHandlers,
             End("exit0", disk)
      PROVE  Fine
  <2>1. /\ stack \in Seq(Frame) /\ Len(stack) \in Nat \ {0}
        /\ DOMAIN stack = 1..Len(stack)
    BY TopOfStack
  <2>2. d = 1
    BY <1>3 DEF IInv, StackShape
  <2>3. InTask
    BY <1>3, <2>1, <2>2 DEF InTask, IInv, StackShape, InScript
  <2>4. ASSUME NEW e \in 2..Len(stack) PROVE stack[e].kind = "pcall"
    <3>1. e \in DOMAIN stack /\ e # 1 /\ e \in (d + 1)..Len(stack)
      BY <2>1, <2>2
    <3>2. stack[e] \in Frame
      BY <2>1, <3>1, ElementOfSeq
    <3>3. stack[e].kind \notin {"task", "on", "invoke"}
      BY <1>3, <3>1 DEF StrictHandlers
    <3>4. stack[e].kind # "evaluate"
      BY <3>1 DEF IInv, StackShape
    <3> QED  BY <3>2, <3>3, <3>4 DEF Frame
  <2>5. GivenUp
    BY <2>3, <2>4 DEF GivenUp
  <2>6. ~InTask' /\ proc' = "exit0"
    BY <1>3 DEF End, InTask
  <2> QED  BY <2>5, <2>6 DEF Fine, NextBound
<1> QED  BY <1>1, <1>2, <1>3 DEF ThrowStrict

LEMMA EngineFine == IInv /\ NextBound /\ Engine => Fine
<1> SUFFICES ASSUME IInv, NextBound, Engine PROVE Fine  OBVIOUS
<1>1. Requested \in Seq(TaskNames) /\ Len(Requested) \in Nat
      /\ DOMAIN Requested = 1..Len(Requested)
  BY RequestedAssumption, LenProperties
<1>2. CASE LoadFile
  <2>1. proc' \notin {"exit0", "next"}
    BY <1>2 DEF LoadFile, End
  <2>2. ~InTask'
    BY <1>2 DEF LoadFile, End, InTask, Call
  <2> QED  BY <2>1, <2>2 DEF Fine, NextBound
<1>3. CASE VerifyTasks
  <2>1. stack = <<>>
    BY <1>3 DEF VerifyTasks, IInv, StackShape
  <2>2. stack' = <<>> /\ ~InTask'
    BY <1>3, <2>1 DEF VerifyTasks, End, InTask
  <2>3. proc' \in {"next", "exit1"} /\ (proc' = "next" => next_task' = 1)
    BY <1>3 DEF VerifyTasks, End
  <2>4. 1 \in 1..(Len(Requested) + 1)
    BY <1>1
  <2>5. NextBound'
    BY <2>3, <2>4 DEF NextBound
  <2> QED  BY <2>2, <2>3, <2>5 DEF Fine
<1>4. CASE StartTask
  <2>1. AllDefined /\ proc' = "script"
    BY <1>4 DEF StartTask, IInv, VerifiedOnce
  <2> QED  BY <2>1 DEF Fine, NextBound
<1>5. CASE Finish
  <2>1. proc = "next" /\ next_task \notin 1..Len(Requested)
        /\ proc' = "exit0" /\ stack' = <<>>
    BY <1>1, <1>5 DEF Finish, End
  <2>2. next_task \in 1..(Len(Requested) + 1)
    BY <2>1 DEF NextBound
  <2>3. next_task = Len(Requested) + 1
    BY <1>1, <2>1, <2>2
  <2>4. ~InTask'
    BY <2>1 DEF InTask
  <2> QED  BY <2>1, <2>3, <2>4 DEF Fine, NextBound
<1> QED  BY <1>2, <1>3, <1>4, <1>5 DEF Engine

LEMMA FunctionFine == IInv /\ Function => Fine
<1> SUFFICES ASSUME IInv, Function PROVE Fine  OBVIOUS
<1>1. InScript
  BY DEF Function, ReturnFromScript, ReturnFromTask, ReturnFromHost,
     ReturnFromInvoke, LeavePcall, RaiseError
<1>2. /\ stack \in Seq(Frame) /\ Len(stack) \in Nat \ {0}
      /\ DOMAIN stack = 1..Len(stack) /\ Len(stack) \in DOMAIN stack
      /\ Top = stack[Len(stack)]
  BY <1>1, TopOfStack DEF Top
<1>3. ASSUME Top.kind \in {"evaluate", "task"}, stack' = Front(stack)
      PROVE  Len(stack) = 1 /\ stack' = <<>> /\ ~InTask'
  <2>1. Len(stack) = 1
    BY <1>2, <1>3 DEF IInv, StackShape
  <2>2. stack' = <<>>
    BY <1>3, <2>1, SubSeqEmpty DEF Front
  <2> QED  BY <2>1, <2>2 DEF InTask
<1>4. CASE ReturnFromScript
  <2>1. proc' = "verify" /\ ~InTask'
    BY <1>3, <1>4 DEF ReturnFromScript
  <2> QED  BY <2>1 DEF Fine, NextBound
<1>5. CASE ReturnFromTask
  <2>1. proc' = "next" /\ next_task' = next_task + 1 /\ ~InTask'
    BY <1>3, <1>5 DEF ReturnFromTask
  <2>2. next_task \in DOMAIN Requested
    BY <1>2, <1>5 DEF ReturnFromTask, IInv, VerifiedOnce, TasksVerified
  <2>3. next_task + 1 \in 1..(Len(Requested) + 1)
    BY <2>2, RequestedAssumption, LenProperties
  <2>4. NextBound'
    BY <2>1, <2>3 DEF NextBound
  <2> QED  BY <2>1, <2>4 DEF Fine
<1>6. ASSUME NEW jmp, NEW result, Top.kind = "on",
             LeaveRole(Len(stack), jmp, result)
      PROVE  Fine
  BY <1>1, <1>2, <1>6, LeaveFine DEF LeaveRole
<1>7. ASSUME NEW jmp, NEW result, Top.kind = "invoke",
             LeaveInvoke(Len(stack), jmp, result)
      PROVE  Fine
  BY <1>1, <1>2, <1>7, LeaveFine DEF LeaveInvoke
<1>8. CASE LeavePcall
  BY <1>1, <1>2, <1>8, LeaveFine DEF LeavePcall
<1>9. CASE ReturnFromHost
  <2>1. ASSUME NEW i, EnterHost(Front(stack), Top, i, Front(context)) PROVE Fine
    <3>1. Len(stack) - 1 \in 1..Len(stack)
      BY <1>2, <1>9 DEF ReturnFromHost, IInv, StackShape
    <3> QED  BY <1>1, <2>1, <3>1, EnterFine DEF Front
  <2> QED  BY <1>6, <1>9, <2>1 DEF ReturnFromHost
<1>10. CASE ReturnFromInvoke
  BY <1>7, <1>10 DEF ReturnFromInvoke
<1>11. ASSUME NEW printable, RaiseError(printable) PROVE Fine
  <2>1. CASE \E how \in Ended \ {"exit0"} : End(how, disk)
    BY <1>1, <2>1, EndFine
  <2> QED
    BY <1>6, <1>7, <1>8, <1>11, <2>1 DEF RaiseError, Ended, Orderly
<1> QED
  BY <1>4, <1>5, <1>8, <1>9, <1>10, <1>11 DEF Function

\* A step that leaves the stack alone while the script runs.
LEMMA QuietFine ==
    ASSUME IInv, InScript, UNCHANGED <<proc, stack>>
    PROVE  Fine
BY BottomStays DEF InScript

LEMMA CommandFine ==
    ASSUME IInv, InScript, NEW ok, Command(ok)
    PROVE  Fine
BY ThrowStrictFine, QuietFine DEF Command

LEMMA PushFine ==
    ASSUME IInv, InScript, NEW kind \in {"invoke", "pcall"},
           stack' = Append(stack, Call(kind)), proc' = proc
    PROVE  Fine
<1>1. stack'[1] = stack[1]
  BY PushShape
<1> QED  BY <1>1, BottomStays DEF InScript

LEMMA ApiFine == IInv /\ Api => Fine
<1> SUFFICES ASSUME IInv, Api PROVE Fine  OBVIOUS
<1>1. ASSUME InScript, NEW how \in Ended \ {"exit0"}, NEW disk0, End(how, disk0)
      PROVE  Fine
  BY <1>1, EndFine
<1>2. ASSUME NEW x, TaskDefine(x) \/ AddInventory(x) PROVE Fine
  BY <1>2, QuietFine DEF TaskDefine, AddInventory
<1>3. CASE AddInventoryBadPort \/ CallOffThread \/ DefineUnprintable
  BY <1>1, <1>3 DEF AddInventoryBadPort, CallOffThread, DefineUnprintable,
     Ended, Orderly
<1>4. ASSUME NEW role, On(role) PROVE Fine
  <2>1. InScript
    BY <1>4 DEF On, EnterRole, CanCall
  <2>2. Len(stack) \in 1..Len(stack) /\ SubSeq(stack, 1, Len(stack)) = stack
    BY <2>1, TopOfStack
  <2>3. ASSUME NEW frame, NEW i, NEW ctx, EnterHost(stack, frame, i, ctx)
        PROVE  Fine
    <3>1. EnterHost(SubSeq(stack, 1, Len(stack)), frame, i, ctx)
      BY <2>2, <2>3
    <3> QED  BY <2>1, <2>2, <3>1, EnterFine
  <2> QED  BY <1>4, <2>1, <2>3, QuietFine DEF On, EnterRole
<1>5. ASSUME NEW role, NEW skip_empty, OnFlagged(role, skip_empty) PROVE Fine
  <2>1. RaiseError(TRUE) => Fine
    BY FunctionFine DEF Function
  <2> QED  BY <1>5, <2>1, QuietFine DEF OnFlagged
<1>6. CASE Invoke \/ Pcall
  BY <1>6, PushFine DEF Invoke, Pcall, CanCall
<1>7. ASSUME NEW outcome, RemoteShell(outcome) PROVE Fine
  BY <1>1, <1>7, CommandFine DEF RemoteShell, Ended, Orderly
<1>8. ASSUME NEW ok, LocalShell(ok) \/ Transfer(ok) PROVE Fine
  BY <1>8, CommandFine DEF LocalShell, Transfer
<1>9. ASSUME NEW a, NEW outcome,
             ArchiveDirTmp(a, outcome) \/ ArchiveDir(a, outcome)
      PROVE  Fine
  <2>1. InScript
    BY <1>9 DEF ArchiveDirTmp, ArchiveDir
  <2>2. CASE UNCHANGED <<proc, stack>>
    BY <2>1, <2>2, QuietFine
  <2>3. CASE End("exit1", disk) \/ End("aborted", disk \cup {a})
    BY <1>1, <2>1, <2>3 DEF Ended, Orderly
  <2> QED  BY <1>9, <2>2, <2>3 DEF ArchiveDirTmp, ArchiveDir
<1> QED
  BY <1>2, <1>3, <1>4, <1>5, <1>6, <1>7, <1>8, <1>9 DEF Api

LEMMA NextFine == IInv /\ NextBound /\ [Next]_vars => Fine
<1> SUFFICES ASSUME IInv, NextBound, [Next]_vars PROVE Fine  OBVIOUS
<1>1. ASSUME NEW b, Strict(b) PROVE Fine
  BY <1>1, QuietFine DEF Strict
<1>2. CASE UNCHANGED vars \/ RemoveArchive
  <2>1. UNCHANGED <<proc, next_task, stack>>
    BY <1>2 DEF vars, RemoveArchive
  <2> QED  BY <2>1 DEF Fine, NextBound, InTask
<1> QED
  BY <1>1, <1>2, EngineFine, FunctionFine, ApiFine DEF Next, Terminated

\* Exit code 0 means that all the requested tasks were run, in the order asked
\* for, or that a command outside any role or kafe.invoke of a task failed in
\* strict mode; and no task is started unless all of them are defined.
THEOREM SuccessMeansDone == Spec => TasksAsRequested
<1>1. Init => NextBound
  BY DEF Init, NextBound
<1>2. IInv /\ NextBound /\ [Next]_vars => NextBound'
  BY NextFine DEF Fine
<1>3. IInv /\ NextBound /\ [Next]_vars =>
        [/\ ~InTask /\ InTask' =>
                \A n \in DOMAIN Requested : Requested[n] \in tasks
         /\ proc # "exit0" /\ proc' = "exit0" =>
                \/ proc = "next" /\ next_task = Len(Requested) + 1
                \/ /\ InTask /\ is_strict_exec_mode
                   /\ \A d \in 2..Len(stack) : stack[d].kind = "pcall"]_vars
  BY NextFine DEF Fine, AllDefined, GivenUp
<1> QED
  BY <1>1, <1>2, <1>3, Invariance, PTL DEF Spec, TasksAsRequested
=============================================================================
