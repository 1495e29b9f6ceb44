---------------------------- MODULE BaseService ----------------------------
(***************************************************************************)
(* The base service: a task asks BaseTask for a permission (permissions.c, *)
(* service/svr_permissions.c, baset.c).  INVOKE_BASE records the caller    *)
(* and promotes BaseTask over everybody, as if the caller waited for the   *)
(* constant base_mutex, whose word names slot 0; BaseTask grants the       *)
(* permission and RELEASE_BASE demotes it and wakes the caller.            *)
(***************************************************************************)
EXTENDS Sharing

CONSTANTS
    BaseMutex,      \* the address of base_mutex
    Codes           \* access codes the application asks for; 0 resets the device

ASSUME BaseMutexAssumption == BaseMutex \notin Mutexes \cup {NoMutex}
(* BaseTask's permissions; a permission word has 16 bits. *)
ALL_PERMISSIONS == 65535

ASSUME CodesAssumption == Codes \subseteq 0..ALL_PERMISSIONS

VARIABLES
    invocated_task, invocated_args,
    permissions,    \* per slot
    hib_value,      \* per slot: BaseTask's answer
    base,           \* BaseTask's place in its loop and its static variables
    asked           \* ghost, per slot: the last id that invoked BaseTask from there

invocation == <<invocated_task, invocated_args>>
bvars == <<svars, invocation, permissions, hib_value, base, asked>>

ERROR_NONE == 0
ERROR_UNKNOWN_PROCESS_ID == 1

BInit ==
    /\ SInit
    /\ invocated_task = NoId /\ invocated_args = 0
    /\ permissions = [t \in Slots |-> IF t = 0 THEN ALL_PERMISSIONS ELSE 0]
    /\ hib_value = [t \in Slots |-> ERROR_NONE]
    /\ base = [pc |-> "loop", id |-> NoId, code |-> 0, error |-> ERROR_NONE]
    /\ asked = [t \in Slots |-> NoId]

(* Steps of the other modules leave the base service alone. *)
NotBase == UNCHANGED <<invocation, permissions, hib_value, base, asked>>

-----------------------------------------------------------------------------
(* The caller *)

(* Mutant: the invocation is not chained to the promotion. *)
invoke_without_promotion(code) ==
    /\ At("out")
    /\ invocated_task' = task_id[current_task]
    /\ invocated_args' = code
    /\ asked' = [asked EXCEPT ![current_task] = task_id[current_task]]
    /\ monitor' = FALSE
    /\ UNCHANGED <<vars, stashVars, mutex, lk, held, disturbed, permissions, hib_value, base>>

(* base_run: INVOKE_BASE chained to PRIORITY_PROMOTE. *)
svc_service_invoke_base(code) ==
    /\ At("out")
    /\ invocated_task' = task_id[current_task]
    /\ invocated_args' = code
    /\ Promote(BaseMutex, 0)
    /\ asked' = [asked EXCEPT ![current_task] = task_id[current_task]]
    /\ monitor' = FALSE
    /\ UNCHANGED <<mutex, lk, held, disturbed, permissions, hib_value, base>>

-----------------------------------------------------------------------------
(* BaseTask *)

BaseAt(pc) == ThreadMode /\ first_start /\ current_task = 0 /\ base.pc = pc

BaseThread ==
    /\ UNCHANGED <<vars, mutex, stashVars, lk, held, disturbed, invocation, asked>>
    /\ monitor' = FALSE

(* get_invocation_args, once the loop has seen an invocation. *)
get_invocation_args ==
    /\ BaseAt("loop")
    /\ invocated_task # NoId
    /\ base' = [base EXCEPT !.pc = "decide", !.id = invocated_task, !.code = invocated_args]
    /\ BaseThread
    /\ UNCHANGED <<permissions, hib_value>>

(* access_code 0: DEVICE_RESET never returns. *)
device_reset ==
    /\ BaseAt("decide")
    /\ base.code = 0
    /\ Fail("reset")
    /\ UNCHANGED shareVars
    /\ NotBase

(* Mutant: the permission goes to the first slot after BaseTask's. *)
grant_first_slot ==
    /\ BaseAt("decide")
    /\ base.code # 0
    /\ permissions' = [permissions EXCEPT ![1] = base.code]
    /\ base' = [base EXCEPT !.pc = "release", !.error = ERROR_NONE]
    /\ BaseThread
    /\ UNCHANGED hib_value

(* The first slot with the given id. *)
SlotOf(id) == {t \in Slots : task_id[t] = id /\ \A k \in 0..(t - 1) : task_id[k] # id}

svc_service_grant_permission ==
    /\ BaseAt("decide")
    /\ base.code # 0
    /\ permissions' = [t \in Slots |-> IF t \in SlotOf(base.id) THEN base.code ELSE permissions[t]]
    /\ base' = [base EXCEPT !.pc = "release",
                  !.error = IF SlotOf(base.id) = {} THEN ERROR_UNKNOWN_PROCESS_ID ELSE ERROR_NONE]
    /\ BaseThread
    /\ UNCHANGED hib_value

(* RELEASE_BASE chained to PRIORITY_DEMOTE and HAND_OVER.  If the caller is *)
(* gone there is no demotion and the invocation stays.                      *)
svc_service_release_base ==
    /\ BaseAt("release")
    /\ IF SlotOf(invocated_task) = {}
       THEN UNCHANGED <<vars, stashVars, invocation, hib_value>>
       ELSE /\ hib_value' = [t \in Slots |->
                  IF t \in SlotOf(invocated_task) THEN base.error ELSE hib_value[t]]
            /\ invocated_task' = NoId
            /\ invocated_args' = 0
            /\ Demote
    /\ base' = [base EXCEPT !.pc = "loop"]
    /\ monitor' = FALSE
    /\ UNCHANGED <<mutex, lk, held, disturbed, permissions, asked>>

-----------------------------------------------------------------------------
(* START_SCHEDULER clears the permissions of every slot but BaseTask's. *)
BaseStart ==
    /\ ShareStart
    /\ permissions' = [t \in Slots |-> IF t = 0 THEN ALL_PERMISSIONS ELSE 0]
    /\ UNCHANGED <<invocation, hib_value, base, asked>>

BaseStep ==
    \/ get_invocation_args
    \/ device_reset
    \/ svc_service_grant_permission
    \/ svc_service_release_base

BNext ==
    \/ \E code \in Codes : svc_service_invoke_base(code)
    \/ BaseStep
    \/ BaseStart
    \/ ShareStep /\ NotBase

BSpec == BInit /\ [][BNext]_bvars

(* The fairness of Sharing, for steps that leave the base service alone,    *)
(* and BaseTask gets on when it runs.                                       *)
BFairSpec ==
    /\ BSpec
    /\ WF_bvars(ShareTick /\ NotBase)
    /\ WF_bvars(ShareSchedule /\ NotBase)
    /\ WF_bvars(ShareSwitch /\ NotBase)
    /\ \A t \in Slots :
         /\ SF_bvars(current_task = t /\ LockStep /\ NotBase)
         /\ \A m \in Mutexes : SF_bvars(current_task = t /\ mutex_unlock(m) /\ NotBase)
    /\ WF_bvars(BaseStep)

-----------------------------------------------------------------------------
(* Properties *)

(* As long as an invocation is on record its caller is alive and in HOLD,   *)
(* and BaseTask is promoted for it: RELEASE_BASE finds whom to answer, and  *)
(* no second invocation overwrites the first.                               *)
InvocationHeld ==
    invocated_task # NoId =>
        /\ mutex_stash[0] = BaseMutex
        /\ \E t \in Slots : /\ task_id[t] = invocated_task
                            /\ state[t] = HOLD /\ op1[t] = BaseMutex
                            /\ \A u \in Slots \ {t} : state[u] = HOLD => op1[u] # BaseMutex

(* Whom BaseTask answers got what it asked for, or was told why not: the    *)
(* permission of the slot that is woken is the code on record, and no       *)
(* permission changes that BaseTask was not asked to change.                *)
AnswerFits ==
    [][/\ svc_service_release_base =>
            \A t \in Slots : state[t] = HOLD /\ state'[t] # HOLD =>
                permissions[t] = invocated_args /\ hib_value'[t] = ERROR_NONE
       /\ \A t \in Slots \ {0} : permissions'[t] \notin {permissions[t], 0} =>
                task_id[t] = invocated_task /\ permissions'[t] = invocated_args]_bvars

(* Every invocation is answered, or resets the device. *)
InvocationAnswered ==
    \A t \in Slots :
        (state[t] = HOLD /\ op1[t] = BaseMutex) ~> (state[t] # HOLD \/ fault = "reset")

=============================================================================
