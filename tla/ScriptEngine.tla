---------------------------- MODULE ScriptEngine ----------------------------
(***************************************************************************)
(* One run of kafe: Project::execute, the Lua script it evaluates, and the *)
(* ExecutionScope the script's API functions share.                        *)
(*                                                                         *)
(* The script is the environment: at any moment it may call any function   *)
(* of the API, return from the function it is in, or raise a Lua error.    *)
(* The engine's own state is the stack of protected calls (one frame for   *)
(* each lua_pcall that has not ended), the scope's fields, and what is     *)
(* left on disk.  Three things unwind the stack, and differ in who stops   *)
(* them:                                                                   *)
(*   - a Lua error stops at the innermost protected call;                  *)
(*   - ScriptStrictExecutionException crosses protected calls and stops at *)
(*     the innermost catch: a task, a role (kafe.on) or kafe.invoke;       *)
(*   - any other C++ exception leaves the script: main catches a           *)
(*     RuntimeException and returns 1, and nothing catches the others.     *)
(* Lua is the system's C library.  A C++ exception that crosses lua_pcall  *)
(* leaves lua_State::errorJmp pointing at the frame that was unwound; the  *)
(* next Lua error raised before an enclosing protected call has ended      *)
(* jumps there (errorJmp = "dead").                                        *)
(***************************************************************************)
EXTENDS Naturals, Sequences

CONSTANTS Items,        \* inventory items: [remote, environment, role]
          TaskNames,    \* names a script may give its tasks
          Requested,    \* Context::get_tasks: names on the command line
          Environment,  \* Context::get_environment
          LocalEnv,     \* the empty environment of `kafe local'
          Archives,     \* paths an archive may be written to
          NoApi,        \* the null current_api
          MaxDepth      \* bound on the stack of protected calls

ASSUME ItemsAssumption == \A i \in Items : i = [remote |-> i.remote,
                              environment |-> i.environment, role |-> i.role]
ASSUME RequestedAssumption == Requested \in Seq(TaskNames)
ASSUME NoApiAssumption == NoApi \notin {i.remote : i \in Items}
ASSUME MaxDepthAssumption == MaxDepth \in Nat

VARIABLES proc,         \* where Project::execute is, or how the run ended
          next_task,    \* index in Requested of the task at hand
          stack,        \* protected calls, innermost last
          errorJmp,     \* Lua's recovery point: "none", "live" or "dead"
          current_api,  \* remote of ExecutionScope::current_api, or NoApi
          is_strict_exec_mode,
          context,      \* the log listener's context
          inventory,    \* Inventory::items, in order
          tasks,        \* names in the TaskList
          disk,         \* archives on the local disk
          files_to_rm_on_destruct,  \* those ~ExecutionScope has still to remove
          kept,         \* archives the script asked to keep: archive_dir's
          unremovable,  \* archives whose removal failed
          reply         \* what the last API call reported to the script

vars == <<proc, next_task, stack, errorJmp, current_api, is_strict_exec_mode,
          context, inventory, tasks, disk, files_to_rm_on_destruct, kept, unremovable,
          reply>>

Remotes == {i.remote : i \in Items}
Roles   == {i.role : i \in Items}

Orderly == {"exit0", "exit1"}                \* the stack of main is unwound
Ended   == Orderly \cup {"aborted", "undefined"}

\* A frame of the stack.  Only a role uses role, targets and at: targets are
\* the indices find_for_scope returned when kafe.on was called.
Frame == [kind    : {"evaluate", "task", "on", "invoke", "pcall"},
          role    : Roles \cup {NoApi},
          targets : SUBSET Nat,
          at      : Nat,
          outer   : {"none", "live", "dead"}]  \* errorJmp when it was called

Call(kind) == [kind |-> kind, role |-> NoApi, targets |-> {}, at |-> 0,
               outer |-> errorJmp]

RoleCall(role, targets) == [kind |-> "on", role |-> role, targets |-> targets,
                            at |-> 0, outer |-> errorJmp]

NoReply == [by |-> "nothing", is |-> "none"]
Replies == [by : {"nothing", "on", "invoke", "command"},
            is : {"none", "true", "false", "nil"}]

Top      == stack[Len(stack)]
Front(s) == SubSeq(s, 1, Len(s) - 1)
Drop2(s) == SubSeq(s, 1, Len(s) - 2)   \* context_pop twice

HasApi   == current_api # NoApi
IsLocal  == Environment = LocalEnv
InScript == proc = "script"
CanCall  == InScript /\ Len(stack) < MaxDepth

archives == <<disk, files_to_rm_on_destruct, kept, unremovable>>
scope == <<inventory, tasks, archives>>

Init ==
    /\ proc = "load" /\ next_task = 0
    /\ stack = <<>> /\ errorJmp = "none"
    /\ current_api = NoApi /\ is_strict_exec_mode = FALSE /\ context = <<>>
    /\ inventory = <<>> /\ tasks = {}
    /\ disk = {} /\ files_to_rm_on_destruct = {}
    /\ kept = {} /\ unremovable = {}
    /\ reply = NoReply

-----------------------------------------------------------------------------
(* How a run ends, and how a frame is left.                                *)

\* Mutants, here and below: a definition changed the way a bug would.  None is
\* part of Spec; each stands before the definition it would replace.

\* The run is over.  `disk0' is the disk at that moment.
End(how, disk0) ==
    /\ proc' = how
    /\ stack' = <<>> /\ errorJmp' = "none" /\ current_api' = NoApi
    /\ disk' = disk0
    /\ reply' = NoReply
    /\ UNCHANGED <<next_task, is_strict_exec_mode, context, inventory, tasks,
                   files_to_rm_on_destruct, kept, unremovable>>

\* Leave the function called by frame d, normally or not, and report to the
\* script: the frames above d are gone, the caller of frame d runs on.
LeaveCall(d, jmp, r) ==
    /\ stack' = SubSeq(stack, 1, d - 1)
    /\ errorJmp' = jmp
    /\ reply' = r
    /\ UNCHANGED <<proc, next_task, is_strict_exec_mode, scope>>

LeaveRoleStaleApi(d, jmp, result) ==    \* no clear_current_api in the catch
    /\ LeaveCall(d, jmp, [by |-> "on", is |-> result])
    /\ current_api' = IF jmp = "dead" THEN current_api ELSE NoApi
    /\ context' = Drop2(context)

LeaveRoleOnePop(d, jmp, result) ==      \* one context_pop for two pushes
    /\ LeaveCall(d, jmp, [by |-> "on", is |-> result])
    /\ current_api' = NoApi
    /\ context' = IF jmp = "dead" THEN Front(context) ELSE Drop2(context)

\* The part of kafe.on after its loop was left at frame d.
LeaveRole(d, jmp, result) ==
    /\ LeaveCall(d, jmp, [by |-> "on", is |-> result])
    /\ current_api' = NoApi
    /\ context' = Drop2(context)

LeaveInvoke(d, jmp, result) ==
    /\ LeaveCall(d, jmp, [by |-> "invoke", is |-> result])
    /\ UNCHANGED <<current_api, context>>

StrictHandlersNoInvoke == {"task", "on"} \* kafe.invoke lets it through

\* ScriptStrictExecutionException: the innermost of the three handlers stops
\* it.  A task is given up together with the tasks that were to follow it.
StrictHandlers == {"task", "on", "invoke"}
ThrowStrict ==
    \/ \E d \in DOMAIN stack :
         /\ \A e \in (d + 1)..Len(stack) : stack[e].kind \notin StrictHandlers
         /\ \/ stack[d].kind = "task"   /\ End("exit0", disk)
            \/ stack[d].kind = "on"     /\ LeaveRole(d, "dead", "false")
            \/ stack[d].kind = "invoke" /\ LeaveInvoke(d, "dead", "false")
    \/ /\ \A d \in DOMAIN stack : stack[d].kind \notin StrictHandlers
       /\ End("aborted", disk)

EnterHostByRole(base, frame, i, ctx) == \* the role where the remote is meant
    /\ stack' = Append(base, [frame EXCEPT !.at = i])
    /\ errorJmp' = "live"
    /\ current_api' = frame.role
    /\ is_strict_exec_mode' = FALSE
    /\ context' = Append(ctx, inventory[i].remote)
    /\ reply' = NoReply
    /\ UNCHANGED <<proc, next_task, scope>>

\* One iteration of kafe.on's loop up to lua_pcall, for host number i.
EnterHost(base, frame, i, ctx) ==
    /\ stack' = Append(base, [frame EXCEPT !.at = i])
    /\ errorJmp' = "live"
    /\ current_api' = inventory[i].remote
    /\ is_strict_exec_mode' = FALSE
    /\ context' = Append(ctx, inventory[i].remote)
    /\ reply' = NoReply
    /\ UNCHANGED <<proc, next_task, scope>>

-----------------------------------------------------------------------------
(* Project::execute.                                                       *)

LoadFile ==
    /\ proc = "load"
    /\ \/ /\ proc' = "script"
          /\ stack' = <<Call("evaluate")>> /\ errorJmp' = "live"
          /\ reply' = NoReply
          /\ UNCHANGED <<next_task, current_api, is_strict_exec_mode, context,
                         scope>>
       \/ End("exit1", disk)

AllDefined == \A n \in DOMAIN Requested : Requested[n] \in tasks

VerifyTasks ==
    /\ proc = "verify"
    /\ \/ /\ AllDefined
          /\ proc' = "next" /\ next_task' = 1 /\ reply' = NoReply
          /\ UNCHANGED <<stack, errorJmp, current_api, is_strict_exec_mode,
                         context, scope>>
       \/ ~AllDefined /\ End("exit1", disk)

StartTask ==
    /\ proc = "next" /\ next_task \in DOMAIN Requested
    /\ proc' = "script"
    /\ is_strict_exec_mode' = FALSE
    /\ context' = Append(context, Requested[next_task])
    /\ stack' = Append(stack, Call("task")) /\ errorJmp' = "live"
    /\ reply' = NoReply
    /\ UNCHANGED <<next_task, current_api, scope>>

Finish ==
    /\ proc = "next" /\ next_task \notin DOMAIN Requested
    /\ End("exit0", disk)

-----------------------------------------------------------------------------
(* The function at the top of the stack returns, or raises an error.       *)

ReturnFromScript ==
    /\ InScript /\ Top.kind = "evaluate"
    /\ proc' = "verify"
    /\ stack' = Front(stack) /\ errorJmp' = Top.outer /\ reply' = NoReply
    /\ UNCHANGED <<next_task, current_api, is_strict_exec_mode, context, scope>>

ReturnFromTaskNoPop ==                   \* no context_pop after a task
    /\ InScript /\ Top.kind = "task"
    /\ proc' = "next" /\ next_task' = next_task + 1
    /\ stack' = Front(stack) /\ errorJmp' = Top.outer /\ reply' = NoReply
    /\ UNCHANGED <<current_api, is_strict_exec_mode, context, scope>>

ReturnFromTask ==
    /\ InScript /\ Top.kind = "task"
    /\ proc' = "next" /\ next_task' = next_task + 1
    /\ context' = Front(context)
    /\ stack' = Front(stack) /\ errorJmp' = Top.outer /\ reply' = NoReply
    /\ UNCHANGED <<current_api, is_strict_exec_mode, scope>>

HostsLeftOffByOne == {i \in Top.targets : i > Top.at + 1}

\* The hosts kafe.on's loop has not come to; the first of them is next.
HostsLeft == {i \in Top.targets : i > Top.at}

ReturnFromHost ==
    /\ InScript /\ Top.kind = "on"
    /\ \/ \E i \in HostsLeft :
            /\ \A j \in HostsLeft : i <= j
            /\ EnterHost(Front(stack), Top, i, Front(context))
       \/ HostsLeft = {} /\ LeaveRole(Len(stack), Top.outer, "true")

ReturnFromInvoke ==
    /\ InScript /\ Top.kind = "invoke"
    /\ LeaveInvoke(Len(stack), Top.outer, "true")

LeavePcall ==
    /\ InScript /\ Top.kind = "pcall"
    /\ LeaveCall(Len(stack), Top.outer, NoReply)
    /\ UNCHANGED <<current_api, context>>

\* A Lua error: raised by the script or by an argument check of the API.
\* `printable' says whether lua_tostring can convert the error object; the
\* handlers that log it build a string from a null pointer otherwise.
RaiseError(printable) ==
    /\ InScript
    /\ \/ errorJmp = "dead" /\ End("undefined", disk)
       \/ /\ errorJmp = "live"
          /\ \/ /\ Top.kind \in {"evaluate", "task", "on"} /\ ~printable
                /\ End("aborted", disk)
             \/ /\ Top.kind \in {"evaluate", "task"} /\ printable
                /\ End("exit1", disk)
             \/ /\ Top.kind = "on" /\ printable
                /\ LeaveRole(Len(stack), Top.outer, "false")
             \/ /\ Top.kind = "invoke"
                /\ LeaveInvoke(Len(stack), Top.outer, "false")
             \/ LeavePcall

-----------------------------------------------------------------------------
(* The API.                                                                *)

Strict(b) ==
    /\ InScript
    /\ is_strict_exec_mode' = b
    /\ reply' = NoReply
    /\ UNCHANGED <<proc, next_task, stack, errorJmp, current_api, context, scope>>

TaskDefine(name) ==
    /\ InScript /\ name \notin tasks
    /\ tasks' = tasks \cup {name}
    /\ reply' = NoReply
    /\ UNCHANGED <<proc, next_task, stack, errorJmp, current_api,
                   is_strict_exec_mode, context, inventory, archives>>

ItemIsLast(item) ==                     \* compares with the last item only
    inventory # <<>> /\ inventory[Len(inventory)] = item

ItemExists(item) == \E n \in DOMAIN inventory : inventory[n] = item

AddInventory(item) ==
    /\ InScript /\ ~ItemExists(item)
    /\ inventory' = Append(inventory, item)
    /\ reply' = NoReply
    /\ UNCHANGED <<proc, next_task, stack, errorJmp, current_api,
                   is_strict_exec_mode, context, tasks, archives>>

\* The message of the error formats the port, an integer, as a string.
AddInventoryBadPort == InScript /\ End("undefined", disk)

FindForRole(role) ==                    \* the environment is not compared
    {n \in DOMAIN inventory : inventory[n].role = role}

\* Inventory::find_for_scope, as indices into the inventory.
FindForScope(role) == {n \in DOMAIN inventory :
    inventory[n].environment = Environment /\ inventory[n].role = role}

\* kafe.on(role, callable) after its first check ...
EnterRole(role) ==
    /\ CanCall
    /\ LET targets == FindForScope(role) IN
       \/ \E i \in targets :
            /\ \A j \in targets : i <= j
            /\ EnterHost(stack, RoleCall(role, targets), i, Append(context, role))
       \/ /\ targets = {}
          /\ reply' = [by |-> "on", is |-> "nil"]
          /\ UNCHANGED <<proc, next_task, stack, errorJmp, current_api,
                         is_strict_exec_mode, context, scope>>

OnUnguarded(role) == EnterRole(role)

\* ... which refuses it inside another role.
On(role) == ~HasApi /\ EnterRole(role)

\* kafe.on(role, callable, skip_empty): luaL_ref takes the flag, not the
\* callable, so the protected call of the first host fails at once.  Without
\* targets it is skipped or (skip_empty = false) raises a Lua error.
OnFlagged(role, skip_empty) ==
    /\ InScript /\ ~HasApi
    /\ \/ /\ FindForScope(role) # {}
          /\ is_strict_exec_mode' = FALSE
          /\ reply' = [by |-> "on", is |-> "false"]
          /\ UNCHANGED <<proc, next_task, stack, errorJmp, current_api, context,
                         scope>>
       \/ /\ FindForScope(role) = {} /\ skip_empty
          /\ reply' = [by |-> "on", is |-> "nil"]
          /\ UNCHANGED <<proc, next_task, stack, errorJmp, current_api,
                         is_strict_exec_mode, context, scope>>
       \/ FindForScope(role) = {} /\ ~skip_empty /\ RaiseError(TRUE)

Invoke ==
    /\ CanCall
    /\ is_strict_exec_mode' = FALSE
    /\ stack' = Append(stack, Call("invoke")) /\ errorJmp' = "live"
    /\ reply' = NoReply
    /\ UNCHANGED <<proc, next_task, current_api, context, scope>>

\* Lua's own pcall, which a script may use around anything.
Pcall ==
    /\ CanCall
    /\ stack' = Append(stack, Call("pcall")) /\ errorJmp' = "live"
    /\ reply' = NoReply
    /\ UNCHANGED <<proc, next_task, current_api, is_strict_exec_mode, context,
                   scope>>

\* A command ran to its end, well or not.
Command(ok) ==
    \/ /\ ~ok /\ is_strict_exec_mode
       /\ ThrowStrict
    \/ /\ ok \/ ~is_strict_exec_mode
       /\ reply' = [by |-> "command", is |-> IF ok THEN "true" ELSE "false"]
       /\ UNCHANGED <<proc, next_task, stack, errorJmp, current_api,
                      is_strict_exec_mode, context, scope>>

\* kafe.exec and kafe.shell on the current remote: the session or the channel
\* may fail ("broken"), which throws a RuntimeException.
RemoteShell(outcome) ==
    /\ InScript /\ ~IsLocal /\ HasApi
    /\ \/ outcome = "broken" /\ End("exit1", disk)
       \/ outcome # "broken" /\ Command(outcome = "ok")

\* kafe.local_exec and kafe.local_shell, and what exec and shell do under
\* `kafe local'.
LocalShell(ok) == InScript /\ Command(ok)

\* upload_file, download_file, upload_str and download_str.
Transfer(ok) == InScript /\ HasApi /\ Command(ok)

\* archive_from_directory throws before it writes anything, writes the whole
\* file, or a filesystem error stops it in the middle of the tree.
ArchiveDirTmp(a, outcome) ==
    /\ InScript /\ a \notin disk
    /\ \/ outcome = "refused" /\ End("exit1", disk)
       \/ outcome = "broken"  /\ End("aborted", disk \cup {a})
       \/ /\ outcome = "ok"
          /\ disk' = disk \cup {a}
          /\ files_to_rm_on_destruct' = files_to_rm_on_destruct \cup {a}
          /\ reply' = NoReply
          /\ UNCHANGED <<proc, next_task, stack, errorJmp, current_api,
                         is_strict_exec_mode, context, inventory, tasks, kept,
                         unremovable>>

\* archive_dir: an existing file is refused as well.
ArchiveDir(a, outcome) ==
    /\ InScript
    /\ \/ (outcome = "refused" \/ a \in disk) /\ End("exit1", disk)
       \/ a \notin disk /\ outcome = "broken" /\ End("aborted", disk \cup {a})
       \/ /\ a \notin disk /\ outcome = "ok"
          /\ disk' = disk \cup {a} /\ kept' = kept \cup {a}
          /\ reply' = NoReply
          /\ UNCHANGED <<proc, next_task, stack, errorJmp, current_api,
                         is_strict_exec_mode, context, inventory, tasks,
                         files_to_rm_on_destruct, unremovable>>

\* Any API function called inside a coroutine: get_scope knows the main
\* lua_State only and throws a RuntimeException.
CallOffThread == InScript /\ End("exit1", disk)

\* kafe.define of a boolean, a table or nil builds a string from a null
\* pointer: std::logic_error, which nothing catches.
DefineUnprintable == InScript /\ End("aborted", disk)

-----------------------------------------------------------------------------
(* The end of the scope.                                                   *)

RemoveArchiveStopping ==                \* the try stands around the loop
    /\ proc \in Orderly
    /\ \E a \in files_to_rm_on_destruct :
         \/ /\ disk' = disk \ {a} /\ UNCHANGED unremovable
            /\ files_to_rm_on_destruct' = files_to_rm_on_destruct \ {a}
         \/ /\ unremovable' = unremovable \cup {a} /\ UNCHANGED disk
            /\ files_to_rm_on_destruct' = {}
    /\ UNCHANGED <<proc, next_task, stack, errorJmp, current_api,
                   is_strict_exec_mode, context, inventory, tasks, kept, reply>>

\* One iteration of ~ExecutionScope, which runs when the stack of main is
\* unwound and not when the process dies.  What try_rm_r throws is swallowed
\* and the loop goes on: that archive stays.
RemoveArchive ==
    /\ proc \in Orderly
    /\ \E a \in files_to_rm_on_destruct :
         /\ files_to_rm_on_destruct' = files_to_rm_on_destruct \ {a}
         /\ \/ disk' = disk \ {a} /\ UNCHANGED unremovable
            \/ unremovable' = unremovable \cup {a} /\ UNCHANGED disk
    /\ UNCHANGED <<proc, next_task, stack, errorJmp, current_api,
                   is_strict_exec_mode, context, inventory, tasks, kept, reply>>

-----------------------------------------------------------------------------
Api ==
    \/ \E name \in TaskNames : TaskDefine(name)
    \/ \E item \in Items : AddInventory(item)
    \/ AddInventoryBadPort
    \/ \E role \in Roles : On(role)
    \/ \E role \in Roles, skip_empty \in BOOLEAN : OnFlagged(role, skip_empty)
    \/ Invoke
    \/ Pcall
    \/ \E outcome \in {"ok", "failed", "broken"} : RemoteShell(outcome)
    \/ \E ok \in BOOLEAN : LocalShell(ok)
    \/ \E ok \in BOOLEAN : Transfer(ok)
    \/ \E a \in Archives, outcome \in {"ok", "refused", "broken"} :
          ArchiveDirTmp(a, outcome)
    \/ \E a \in Archives, outcome \in {"ok", "refused", "broken"} :
          ArchiveDir(a, outcome)
    \/ CallOffThread
    \/ DefineUnprintable

Engine == LoadFile \/ VerifyTasks \/ StartTask \/ Finish

Function ==
    \/ ReturnFromScript
    \/ ReturnFromTask
    \/ ReturnFromHost
    \/ ReturnFromInvoke
    \/ LeavePcall
    \/ \E printable \in BOOLEAN : RaiseError(printable)

Terminated ==
    /\ proc \in Ended
    /\ proc \in Orderly => files_to_rm_on_destruct = {}
    /\ UNCHANGED vars

Next ==
    \/ Engine
    \/ Function
    \/ \E b \in BOOLEAN : Strict(b)
    \/ Api
    \/ RemoveArchive
    \/ Terminated

Spec == Init /\ [][Next]_vars

-----------------------------------------------------------------------------
(* What should hold.                                                       *)

\* The state has the shape the comments on the variables give it.
TypeOK ==
    /\ proc \in {"load", "script", "verify", "next"} \cup Ended
    /\ next_task \in Nat
    /\ stack \in Seq(Frame)
    /\ errorJmp \in {"none", "live", "dead"}
    /\ current_api \in Remotes \cup {NoApi}
    /\ is_strict_exec_mode \in BOOLEAN
    /\ context \in Seq(TaskNames \cup Roles \cup Remotes)
    /\ inventory \in Seq(Items)
    /\ tasks \in SUBSET TaskNames
    /\ disk \in SUBSET Archives
    /\ files_to_rm_on_destruct \in SUBSET Archives
    /\ kept \in SUBSET Archives
    /\ unremovable \in SUBSET Archives
    /\ reply \in Replies

RoleDepths == {d \in DOMAIN stack : stack[d].kind = "on"}

\* A role is never entered inside another one, however the calls in between
\* are nested (the guard of lua_api_on_role_invoke reads current_api, which
\* every way out of a host body has to clear).
NoNestedRoles == \A d, e \in RoleDepths : d = e

\* current_api is set exactly while a host body runs, and is the API of the
\* host the loop is at: no command can reach another host, and none is
\* refused, because of how an earlier call ended.
ApiMatchesStack ==
    /\ HasApi <=> RoleDepths # {}
    /\ \A d \in RoleDepths : /\ stack[d].at \in stack[d].targets
                             /\ current_api = inventory[stack[d].at].remote

\* Every host of a running role is of that role and of the environment the
\* run was started for, whatever was added to the inventory since.
TargetsInScope ==
    \A d \in RoleDepths : \A i \in stack[d].targets :
        /\ i \in DOMAIN inventory
        /\ inventory[i].environment = Environment
        /\ inventory[i].role = stack[d].role

\* One kafe.on never runs its function twice on the same server.
NoServerTwice ==
    \A d \in RoleDepths : \A i, j \in stack[d].targets :
        inventory[i].remote = inventory[j].remote => i = j

\* While the script runs, the log context names the task and the role and
\* host the script is in, and nothing else: pushes and pops stay paired on
\* every way out of a call.
TaskContext == IF stack[1].kind = "task" THEN <<Requested[next_task]>> ELSE <<>>
RoleContext == IF RoleDepths = {} THEN <<>>
               ELSE LET f == stack[CHOOSE d \in RoleDepths : TRUE]
                    IN <<f.role, inventory[f.at].remote>>
ContextMatchesStack == InScript => context = TaskContext \o RoleContext

\* Nothing of the evaluation or of a task is left over when the next one is
\* about to start: no frame, no log context, no remote, no dead jump.
CleanBetweenTasks ==
    proc \in {"load", "verify", "next"} =>
        stack = <<>> /\ context = <<>> /\ ~HasApi /\ errorJmp = "none"

\* No task runs unless all the requested ones are defined.
TasksVerified ==
    \A d \in DOMAIN stack : stack[d].kind = "task" =>
        /\ next_task \in DOMAIN Requested
        /\ \A n \in DOMAIN Requested : Requested[n] \in tasks

\* 0 means that every requested task was run, each after the one before had
\* returned; or that a command failed in strict mode with no kafe.on and no
\* kafe.invoke between it and its task, which alone gives up the tasks that were
\* to follow.  And none is started unless all of them are defined.
InTask == stack # <<>> /\ stack[1].kind = "task"
TasksAsRequested ==
    [][/\ ~InTask /\ InTask' =>
             \A n \in DOMAIN Requested : Requested[n] \in tasks
       /\ proc # "exit0" /\ proc' = "exit0" =>
             \/ proc = "next" /\ next_task = Len(Requested) + 1
             \/ /\ InTask /\ is_strict_exec_mode
                /\ \A d \in 2..Len(stack) : stack[d].kind = "pcall"]_vars

\* When main has returned, with whatever exit code, the archives on disk are
\* those the script asked to keep and the temporary ones whose own removal
\* failed: every way out of a script leads to the removal of what it registered,
\* nothing is written and left unregistered, and an archive that cannot be
\* removed keeps no other one from being removed.
ArchivesLeft ==
    proc \in Orderly /\ files_to_rm_on_destruct = {} =>
        disk = kept \cup unremovable

\* kafe.on's loop implements Rollout: each target is visited once, in order,
\* success means all of them, and a failure ends the visit of the rest.
RPhase   == IF proc \in Ended THEN "over"
            ELSE IF RoleDepths = {} THEN "idle" ELSE "running"
RTargets == UNION {stack[d].targets : d \in RoleDepths}
RVisited == UNION {{i \in stack[d].targets : i <= stack[d].at} : d \in RoleDepths}
RReport  == IF reply.by = "on" THEN reply.is ELSE "none"

rollout == INSTANCE Rollout WITH phase <- RPhase, targets <- RTargets,
                                 visited <- RVisited, reply <- RReport
RolloutSpec == rollout!Spec
=============================================================================
