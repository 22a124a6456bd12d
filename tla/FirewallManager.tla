-------------------------- MODULE FirewallManager --------------------------
(***************************************************************************)
(* The project iptables chain and the FirewallManager that inspects and    *)
(* mutates it (iptables_firewall_response/firewall.py).                    *)
(*                                                                         *)
(* The kernel's tables are shared by every process that runs the program;  *)
(* one iptables command is atomic (the command takes the xtables lock with *)
(* -w 5), a FirewallManager method is a sequence of commands.  A caller p  *)
(* has one method call in progress: op[p] is the method, step[p] the next  *)
(* command, arg[p] the source it concerns.  The call ends at a step in     *)
(* Results, which the caller consumes.                                     *)
(***************************************************************************)
EXTENDS Integers, FiniteSets

CONSTANTS
    Sources,        \* IPv4 addresses eligible for a block
    Callers,        \* threads and command-line processes using the manager
    NoSource,       \* no address
    MaxFaults,      \* bound: commands that fail, transactions that fail, deaths
    ForeignRules    \* may an administrator's own rule sit in the project chain?

ASSUME ManagerAssumption ==
    /\ NoSource \notin Sources
    /\ MaxFaults \in Nat
    /\ ForeignRules \subseteq BOOLEAN

VARIABLES
    chain,          \* does the project chain exist?
    jump,           \* copies of the INPUT jump to it
    rules,          \* copies of each source's exact DROP rule
    foreign,        \* is there a rule parse_project_rules does not recognise?
    faults,         \* faults that have happened
    op,             \* the method each caller is in
    step,           \* the command it runs next, or the result
    arg,            \* the source it works on
    listed          \* cleanup: listed sources still to be deleted

tables == <<chain, jump, rules, foreign>>
frame == <<op, step, arg, listed>>
managerVars == <<tables, faults, frame>>

Operations == {"none", "insert", "delete", "initialize", "cleanup"}
Results == {"changed", "unchanged", "failed"}
RuleSteps == {"findChain", "findRule", "apply", "confirm"}
CleanupSteps == {"cleanStart", "cleanList", "cleanNext", "findJump",
                 "dropJump", "confirmJump", "dropChain", "confirmChain"}
InitializeSteps == {"initStart", "makeChain", "initJump", "makeJump",
                    "confirmInit", "confirmInitJump"}
Steps == {"idle"} \cup RuleSteps \cup CleanupSteps \cup InitializeSteps \cup Results

ManagerTypeOK ==
    /\ chain \in BOOLEAN
    /\ jump \in Nat
    /\ rules \in [Sources -> Nat]
    /\ foreign \in BOOLEAN
    /\ faults \in 0..MaxFaults
    /\ op \in [Callers -> Operations]
    /\ step \in [Callers -> Steps]
    /\ arg \in [Callers -> Sources \cup {NoSource}]
    /\ listed \in [Callers -> SUBSET Sources]

(* The monitor only starts on an initialised chain. *)
ManagerInit ==
    /\ chain = TRUE
    /\ jump = 1
    /\ rules = [s \in Sources |-> 0]
    /\ foreign \in ForeignRules
    /\ faults = 0
    /\ op = [p \in Callers |-> "none"]
    /\ step = [p \in Callers |-> "idle"]
    /\ arg = [p \in Callers |-> NoSource]
    /\ listed = [p \in Callers |-> {}]

(***************************************************************************)
(* Commands.  A command can fail to execute (OSError), time out or lose    *)
(* the xtables lock: _execute then reports a status other than 0 and 1.    *)
(***************************************************************************)
Fault == faults < MaxFaults /\ faults' = faults + 1

(* Mutant: -C never matches, so every rule looks absent. *)
HasRule_NeverMatches(s) == FALSE

HasRule(s) == rules[s] > 0

GoTo(p, next) == step' = [step EXCEPT ![p] = next]

(* _check: status 0 is yes, 1 is no, any other status raises FirewallError,
   which the calling method turns into a failed result. *)
Check(p, truth, yes, no) ==
    /\ \/ GoTo(p, IF truth THEN yes ELSE no) /\ UNCHANGED faults
       \/ GoTo(p, "failed") /\ Fault
    /\ UNCHANGED <<tables, op, arg, listed>>

(* A changing command: it takes effect and reports success, is refused by
   the kernel, or fails; a command killed by its timeout may have taken
   effect before it died. *)
Change(p, possible, Effect, NoEffect, next) ==
    /\ \/ possible /\ Effect /\ GoTo(p, next) /\ UNCHANGED faults
       \/ ~possible /\ NoEffect /\ GoTo(p, "failed") /\ UNCHANGED faults
       \/ possible /\ Effect /\ GoTo(p, "failed") /\ Fault
       \/ NoEffect /\ GoTo(p, "failed") /\ Fault
    /\ UNCHANGED <<op, arg, listed>>

(***************************************************************************)
(* _change_rule: insert_block_rule, delete_block_rule, and the deletions   *)
(* cleanup_project_chain makes, which go on with the next listed source.   *)
(***************************************************************************)
Inserting(p) == op[p] = "insert"

Done(p, result) == IF op[p] = "cleanup" THEN "cleanNext" ELSE result

AddRule(s, n) ==
    /\ rules' = [rules EXCEPT ![s] = @ + n]
    /\ UNCHANGED <<chain, jump, foreign>>

FindChain(p) ==
    /\ step[p] = "findChain"
    /\ Check(p, chain, "findRule", "failed")

FindRule(p) ==
    /\ step[p] = "findRule"
    /\ Check(p, HasRule(arg[p]) = Inserting(p), Done(p, "unchanged"), "apply")

ApplyChange(p) ==
    /\ step[p] = "apply"
    /\ IF Inserting(p)
       THEN Change(p, chain, AddRule(arg[p], 1), UNCHANGED tables, "confirm")
       ELSE Change(p, HasRule(arg[p]), AddRule(arg[p], -1), UNCHANGED tables, "confirm")

ConfirmChange(p) ==
    /\ step[p] = "confirm"
    /\ Check(p, HasRule(arg[p]) = Inserting(p), Done(p, "changed"), "failed")

ChangeRule(p) == FindChain(p) \/ FindRule(p) \/ ApplyChange(p) \/ ConfirmChange(p)

(***************************************************************************)
(* cleanup_project_chain                                                   *)
(***************************************************************************)
CleanStart(p) ==
    /\ step[p] = "cleanStart"
    /\ Check(p, chain, "cleanList", "unchanged")

(* Lists and parses the chain; refuses unknown and duplicate rules. *)
CleanList(p) ==
    /\ step[p] = "cleanList"
    /\ \/ /\ chain /\ ~foreign /\ \A s \in Sources : rules[s] <= 1
          /\ listed' = [listed EXCEPT ![p] = {s \in Sources : HasRule(s)}]
          /\ GoTo(p, "cleanNext")
          /\ UNCHANGED faults
       \/ /\ ~chain \/ foreign \/ \E s \in Sources : rules[s] > 1
          /\ GoTo(p, "failed")
          /\ UNCHANGED <<listed, faults>>
       \/ Fault /\ GoTo(p, "failed") /\ UNCHANGED listed
    /\ UNCHANGED <<tables, op, arg>>

CleanNext(p) ==
    /\ step[p] = "cleanNext"
    /\ \/ \E s \in listed[p] :
             /\ arg' = [arg EXCEPT ![p] = s]
             /\ listed' = [listed EXCEPT ![p] = @ \ {s}]
             /\ GoTo(p, "findChain")
       \/ listed[p] = {} /\ GoTo(p, "findJump") /\ UNCHANGED <<arg, listed>>
    /\ UNCHANGED <<tables, faults, op>>

FindJump(p) ==
    /\ step[p] = "findJump"
    /\ Check(p, jump > 0, "dropJump", "dropChain")

AddJump(n) == jump' = jump + n /\ UNCHANGED <<chain, rules, foreign>>

DropJump(p) ==
    /\ step[p] = "dropJump"
    /\ Change(p, jump > 0, AddJump(-1), UNCHANGED tables, "confirmJump")

ConfirmJump(p) ==
    /\ step[p] = "confirmJump"
    /\ Check(p, jump > 0, "failed", "dropChain")

(* iptables -X refuses a chain that is referenced or not empty. *)
Droppable == chain /\ jump = 0 /\ ~foreign /\ \A s \in Sources : ~HasRule(s)

ChainGone == chain' = FALSE /\ UNCHANGED <<jump, rules, foreign>>

DropChain(p) ==
    /\ step[p] = "dropChain"
    /\ Change(p, Droppable, ChainGone, UNCHANGED tables, "confirmChain")

ConfirmChain(p) ==
    /\ step[p] = "confirmChain"
    /\ Check(p, chain, "failed", "changed")

Cleanup(p) ==
    \/ CleanStart(p) \/ CleanList(p) \/ CleanNext(p) \/ FindJump(p)
    \/ DropJump(p) \/ ConfirmJump(p) \/ DropChain(p) \/ ConfirmChain(p)

(***************************************************************************)
(* initialize_chain.  No caller reads whether a successful call changed    *)
(* anything, so "changed" stands for every successful result.              *)
(***************************************************************************)
InitStart(p) ==
    /\ step[p] = "initStart"
    /\ Check(p, chain, "initJump", "makeChain")

ChainMade == chain' = TRUE /\ UNCHANGED <<jump, rules, foreign>>

MakeChain(p) ==
    /\ step[p] = "makeChain"
    /\ Change(p, ~chain, ChainMade, UNCHANGED tables, "initJump")

(* Mutant: the INPUT jump is added without looking for it. *)
InitJump_Unchecked(p) ==
    /\ step[p] = "initJump"
    /\ GoTo(p, "makeJump")
    /\ UNCHANGED <<tables, faults, op, arg, listed>>

InitJump(p) ==
    /\ step[p] = "initJump"
    /\ Check(p, jump > 0, "confirmInit", "makeJump")

MakeJump(p) ==
    /\ step[p] = "makeJump"
    /\ Change(p, chain, AddJump(1), UNCHANGED tables, "confirmInit")

(* Both answers must be yes; a no on the chain already decides. *)
ConfirmInit(p) ==
    /\ step[p] = "confirmInit"
    /\ Check(p, chain, "confirmInitJump", "failed")

ConfirmInitJump(p) ==
    /\ step[p] = "confirmInitJump"
    /\ Check(p, jump > 0, "changed", "failed")

Initialize(p) ==
    \/ InitStart(p) \/ MakeChain(p) \/ InitJump(p)
    \/ MakeJump(p) \/ ConfirmInit(p) \/ ConfirmInitJump(p)

ManagerStep(p) == ChangeRule(p) \/ Cleanup(p) \/ Initialize(p)

(***************************************************************************)
(* Calls and returns, for the modules that use the manager.                *)
(***************************************************************************)
FirstStep == [insert |-> "findChain", delete |-> "findChain",
              initialize |-> "initStart", cleanup |-> "cleanStart"]

Call(p, method, s) ==
    /\ op' = [op EXCEPT ![p] = method]
    /\ step' = [step EXCEPT ![p] = FirstStep[method]]
    /\ arg' = [arg EXCEPT ![p] = s]
    /\ listed' = [listed EXCEPT ![p] = {}]

Return(p) ==
    /\ op' = [op EXCEPT ![p] = "none"]
    /\ step' = [step EXCEPT ![p] = "idle"]
    /\ arg' = [arg EXCEPT ![p] = NoSource]
    /\ listed' = [listed EXCEPT ![p] = {}]
=============================================================================
