----------------------------- MODULE LiveLabSetup -----------------------------
(***************************************************************************)
(* The live-lab installer on a host on which an earlier edition of the     *)
(* application may be running: apply_plan command by command, each of which*)
(* can fail or be interrupted, verify_installation after it or alone, and  *)
(* the operator who runs it again; beside it systemd, which boots the host *)
(* and restarts the monitor, and the monitor, which blocks the lab client. *)
(*                                                                         *)
(* What is installed is known by its edition, that of the repository and of*)
(* the plan it was installed from.  An action is one command, or commands  *)
(* in a row of which the model keeps no trace but that they can fail.      *)
(***************************************************************************)
EXTENDS Integers

CONSTANTS
    MaxEdition,     \* bound: editions of the repository and the plan
    MaxFaults       \* bound: failed commands, interruptions, boots, crashes, odd rules

ASSUME SetupAssumption == MaxEdition \in Nat \ {0} /\ MaxFaults \in Nat

VARIABLES
    stage,          \* what the installer does next
    applying,       \* it was called with --apply, not with --verify-only
    resetting,      \* and with --reset-host-iptables
    passed,         \* no check of verify_installation has failed yet
    repository,     \* the edition an installation would install
    tree,           \* the edition under /opt
    package,        \* the edition in its virtual environment
    config,         \* the edition of /etc/ssh-security-app/config.json
    written,        \* history: the editions config.json has had
    backups,        \* the editions of its backups
    overlooked,     \* history: the editions an unanswered test took for absent
    units,          \* the edition of the systemd units
    enabled,        \* the units systemd starts at boot
    firewall,       \* the firewall unit: "stopped" or "active"
    monitor,        \* the application unit: "stopped", "active" or "waiting"
    loaded,         \* the package and the configuration the monitor runs
    settled,        \* the monitor has reconciled since it was started
    blocking,       \* it has inserted a rule and not yet stored its row
    chain,          \* the project chain: "absent", "unhooked" or "hooked"
    rule,           \* it has a DROP rule for the lab client
    odd,            \* it has a rule the application does not know, or one twice
    row,            \* the database has an Active block of the lab client
    policy,         \* of INPUT
    opening,        \* a rule of the host accepts SSH connections
    owner,          \* of the files in the data and log directories
    faults

callVars == <<stage, applying, resetting, passed>>
savedVars == <<backups, overlooked>>
fileVars == <<tree, package, config, written, savedVars, units>>
monitorVars == <<monitor, loaded, settled, blocking>>
unitVars == <<enabled, firewall, monitorVars>>
tableVars == <<chain, rule, odd, row>>
hostVars == <<policy, opening>>
vars == <<callVars, repository, fileVars, unitVars, tableVars, hostVars, owner, faults>>

None == 0
Broken == -1
Editions == 1..MaxEdition
Edition == Editions \cup {None, Broken}
Usable(e) == e \in Editions

Units == {"firewall", "application"}
NotLoaded == [package |-> None, config |-> None]

Resting == {"idle", "ready", "failed"}
\* Nothing of the application may run while its parts are exchanged.
Replacing == {"policies", "flush", "delete chains", "frontend", "account", "tree",
              "environment", "backup", "config", "initialize", "units", "cleanup",
              "ownership", "start firewall"}
Verifying == {"check services", "check chain", "check client"}
Installing == {"prepare", "stop monitor", "stop firewall", "start monitor"} \cup Replacing
Stages == Resting \cup Installing \cup Verifying

TypeOK ==
    /\ stage \in Stages
    /\ applying \in BOOLEAN /\ resetting \in BOOLEAN /\ passed \in BOOLEAN
    /\ repository \in Editions
    /\ tree \in Edition /\ package \in Edition /\ config \in Edition
    /\ units \in Edition
    /\ written \subseteq Editions /\ backups \subseteq Edition /\ overlooked \subseteq Edition
    /\ enabled \subseteq Units
    /\ firewall \in {"stopped", "active"}
    /\ monitor \in {"stopped", "active", "waiting"}
    /\ loaded \in [package : Edition, config : Edition]
    /\ settled \in BOOLEAN /\ blocking \in BOOLEAN
    /\ chain \in {"absent", "unhooked", "hooked"}
    /\ rule \in BOOLEAN /\ odd \in BOOLEAN /\ row \in BOOLEAN
    /\ policy \in {"ACCEPT", "DROP"} /\ opening \in BOOLEAN
    /\ owner \in {"service", "root"}
    /\ faults \in 0..MaxFaults

\* A host that drops what no rule accepts, without the application or with the
\* first edition of it installed, enabled and stopped.
Init ==
    /\ stage = "idle" /\ applying = FALSE /\ resetting = FALSE /\ passed = TRUE
    /\ repository = 1
    /\ \E e \in {None, 1} :
          /\ tree = e /\ package = e /\ config = e /\ units = e
          /\ written = {e} \ {None}
          /\ enabled = IF e = None THEN {} ELSE Units
    /\ backups = {} /\ overlooked = {}
    /\ firewall = "stopped" /\ monitor = "stopped"
    /\ loaded = NotLoaded /\ settled = FALSE /\ blocking = FALSE
    /\ chain = "absent" /\ rule = FALSE /\ odd = FALSE /\ row = FALSE
    /\ policy = "DROP" /\ opening = TRUE
    /\ owner = "service"
    /\ faults = 0

Fault == faults < MaxFaults /\ faults' = faults + 1

\* A command of the application can be run by the service user or by root.
Runs(user) == Usable(package) /\ Usable(config) /\ (user = "root" \/ owner = "service")

(***************************************************************************)
(* The call                                                                *)
(***************************************************************************)
At(here) == stage = here
Goto(there) == stage' = there /\ UNCHANGED <<applying, resetting, passed>>

\* Another edition of the repository, or other arguments.
Change ==
    /\ stage \in Resting
    /\ repository < MaxEdition
    /\ repository' = repository + 1
    /\ UNCHANGED <<callVars, fileVars, unitVars, tableVars, hostVars, owner, faults>>

\* main with --apply and --confirm-firewall-changes, once create_plan accepts the
\* host; lab.py asks for the reset unless it is told to keep the rules.
Apply ==
    /\ stage \in Resting
    /\ stage' = "prepare"
    /\ applying' = TRUE /\ resetting' \in BOOLEAN /\ passed' = TRUE
    /\ UNCHANGED <<repository, fileVars, unitVars, tableVars, hostVars, owner, faults>>

VerifyOnly ==
    /\ stage \in Resting
    /\ stage' = "check services"
    /\ applying' = FALSE /\ resetting' = FALSE /\ passed' = TRUE
    /\ UNCHANGED <<repository, fileVars, unitVars, tableVars, hostVars, owner, faults>>

\* What the command was writing may be cut off.
CutOff ==
    /\ tree' \in {tree} \cup (IF At("tree") THEN {Broken} ELSE {})
    /\ package' \in {package} \cup (IF At("environment") THEN {Broken} ELSE {})
    /\ config' \in {config} \cup (IF At("config") THEN {Broken} ELSE {})
    /\ UNCHANGED <<repository, written, savedVars, units>>

\* firewall-cleanup deletes the rules, the jump and the chain, and closes the rows
\* of a chain that is gone; it refuses a chain with an odd rule.
CleanupChain ==
    /\ ~odd
    /\ chain' = "absent" /\ rule' = FALSE
    /\ row' = (row /\ chain = "absent")
    /\ UNCHANGED odd

\* One that fails, or is interrupted, on its way.
CleanupBreaksOff ==
    /\ \/ UNCHANGED <<chain, rule>>
       \/ /\ ~odd /\ chain # "absent"
          /\ chain' \in {chain, "unhooked", "absent"}
          /\ rule' = FALSE
    /\ UNCHANGED <<odd, row>>

\* A command fails, or the operator interrupts it: nothing after it is run.
Fail ==
    /\ stage \in Installing \cup Verifying
    /\ Fault
    /\ Goto("failed")
    /\ CutOff
    /\ IF At("cleanup") THEN CleanupBreaksOff ELSE UNCHANGED tableVars
    /\ UNCHANGED <<unitVars, hostVars, owner>>

\* The processes of the monitor are gone.
Down(state) ==
    /\ monitor' = state
    /\ loaded' = NotLoaded /\ settled' = FALSE /\ blocking' = FALSE

(***************************************************************************)
(* apply_plan                                                              *)
(***************************************************************************)
\* sudo -v, apt-get, the tools, the SSH unit enabled and tcpdump's capabilities.
Prepare ==
    /\ At("prepare") /\ Goto("stop monitor")
    /\ UNCHANGED <<repository, fileVars, unitVars, tableVars, hostVars, owner, faults>>

\* Mutant of StopMonitor: only the firewall unit is stopped.
StopMonitor_Not ==
    /\ At("stop monitor") /\ Goto("stop firewall")
    /\ UNCHANGED <<repository, fileVars, unitVars, tableVars, hostVars, owner, faults>>

\* Mutant of StopMonitor: systemd is told to kill, and takes it for a failure.
StopMonitor_Kill ==
    /\ At("stop monitor") /\ Goto("stop firewall")
    /\ Down("failed")
    /\ UNCHANGED <<repository, fileVars, enabled, firewall, tableVars, hostVars, owner, faults>>

StopMonitor ==
    /\ At("stop monitor") /\ Goto("stop firewall")
    /\ Down("stopped")
    /\ UNCHANGED <<repository, fileVars, enabled, firewall, tableVars, hostVars, owner, faults>>

\* Mutant of StopFirewall: only the monitor is stopped.
StopFirewall_Not ==
    /\ At("stop firewall")
    /\ Goto(IF resetting THEN "policies" ELSE "frontend")
    /\ UNCHANGED <<repository, fileVars, unitVars, tableVars, hostVars, owner, faults>>

\* systemctl stop runs firewall-cleanup as ExecStop if the unit was active, and
\* succeeds whether that did or not.
StopFirewall ==
    /\ At("stop firewall")
    /\ Goto(IF resetting THEN "policies" ELSE "frontend")
    /\ firewall' = "stopped"
    /\ LET stopping == firewall = "active" /\ Runs("service")
       IN  \/ stopping /\ CleanupChain /\ UNCHANGED faults
           \/ stopping /\ Fault /\ CleanupBreaksOff
           \/ (odd \/ ~stopping) /\ UNCHANGED <<tableVars, faults>>
    /\ UNCHANGED <<repository, fileVars, enabled, monitorVars, hostVars, owner>>

\* Mutant of AcceptByDefault: the policies are left for the end.
AcceptByDefault_Later ==
    /\ At("policies") /\ Goto("flush")
    /\ UNCHANGED <<repository, fileVars, unitVars, tableVars, hostVars, owner, faults>>

\* _reset_host_iptables_for_lab: -P of the three chains, then -F, then -X.
AcceptByDefault ==
    /\ At("policies") /\ Goto("flush")
    /\ policy' = "ACCEPT"
    /\ UNCHANGED <<repository, fileVars, unitVars, tableVars, opening, owner, faults>>

Flush ==
    /\ At("flush") /\ Goto("delete chains")
    /\ opening' = FALSE
    /\ chain' = IF chain = "hooked" THEN "unhooked" ELSE chain
    /\ rule' = FALSE /\ odd' = FALSE
    /\ UNCHANGED <<repository, fileVars, unitVars, row, policy, owner, faults>>

DeleteChains ==
    /\ At("delete chains")
    /\ IF odd THEN Goto("failed") /\ UNCHANGED chain ELSE Goto("frontend") /\ chain' = "absent"
    /\ UNCHANGED <<repository, fileVars, unitVars, rule, odd, row, hostVars, owner, faults>>

\* firewalld or ufw is told to accept the lab client, if one of them is active.
ConfigureHostFirewall ==
    /\ At("frontend") /\ Goto("account")
    /\ opening' \in {opening, TRUE}
    /\ UNCHANGED <<repository, fileVars, unitVars, tableVars, policy, owner, faults>>

\* The service account and the four directories; the files in them stay.
InstallDirectories ==
    /\ At("account") /\ Goto("tree")
    /\ UNCHANGED <<repository, fileVars, unitVars, tableVars, hostVars, owner, faults>>

SynchronizeSource ==
    /\ At("tree") /\ Goto("environment")
    /\ tree' = repository
    /\ UNCHANGED <<repository, package, config, written, savedVars, units, unitVars, tableVars,
                   hostVars, owner, faults>>

InstallEnvironment ==
    /\ At("environment") /\ Goto("backup")
    /\ package' = tree
    /\ UNCHANGED <<repository, tree, config, written, savedVars, units, unitVars, tableVars,
                   hostVars, owner, faults>>

\* "sudo test -f" itself fails, which counts as the answer that there is no file.
Overlook ==
    /\ Fault
    /\ overlooked' = overlooked \cup ({config} \ {None})
    /\ UNCHANGED backups

\* Mutant of BackUpConfiguration: the first backup is good enough.
BackUpConfiguration_Once ==
    /\ At("backup") /\ Goto("config")
    /\ \/ /\ backups' = IF backups = {} THEN {config} \ {None} ELSE backups
          /\ UNCHANGED <<overlooked, faults>>
       \/ Overlook
    /\ UNCHANGED <<repository, tree, package, config, written, units, unitVars, tableVars,
                   hostVars, owner>>

\* An existing config.json is copied to a name with the time in it ...
BackUpConfiguration ==
    /\ At("backup") /\ Goto("config")
    /\ \/ backups' = backups \cup ({config} \ {None}) /\ UNCHANGED <<overlooked, faults>>
       \/ Overlook
    /\ UNCHANGED <<repository, tree, package, config, written, units, unitVars, tableVars,
                   hostVars, owner>>

\* ... before another is installed in its place.
InstallConfiguration ==
    /\ At("config") /\ Goto("initialize")
    /\ config' = repository
    /\ written' = written \cup {repository}
    /\ UNCHANGED <<repository, tree, package, savedVars, units, unitVars, tableVars, hostVars,
                   owner, faults>>

\* Mutant of InitializeDatabase: init-db takes a database that exists for an error.
InitializeDatabase_Once ==
    /\ At("initialize")
    /\ Goto(IF Runs("service") /\ backups = {} THEN "units" ELSE "failed")
    /\ UNCHANGED <<repository, fileVars, unitVars, tableVars, hostVars, owner, faults>>

\* validate-config and init-db, run by the service user.
InitializeDatabase ==
    /\ At("initialize")
    /\ Goto(IF Runs("service") THEN "units" ELSE "failed")
    /\ UNCHANGED <<repository, fileVars, unitVars, tableVars, hostVars, owner, faults>>

InstallUnits ==
    /\ At("units") /\ Goto("cleanup")
    /\ units' = repository
    /\ UNCHANGED <<repository, tree, package, config, written, savedVars, unitVars, tableVars,
                   hostVars, owner, faults>>

\* A command that root runs rotates the log; the new file is root's.
Rotate == Fault /\ owner' = "root"

\* Mutant of RemoveStaleFirewall: nothing is done if there is no Active block.
RemoveStaleFirewall_IfBlocked ==
    /\ At("cleanup")
    /\ IF odd \/ ~row
         THEN Goto(IF odd THEN "failed" ELSE "ownership") /\ UNCHANGED tableVars
         ELSE Goto("ownership") /\ CleanupChain
    /\ Rotate \/ UNCHANGED <<owner, faults>>
    /\ UNCHANGED <<repository, fileVars, unitVars, hostVars>>

\* firewall-cleanup, run by root; its refusal ends the installation.
RemoveStaleFirewall ==
    /\ At("cleanup")
    /\ IF odd
         THEN Goto("failed") /\ UNCHANGED tableVars
         ELSE Goto("ownership") /\ CleanupChain
    /\ Rotate \/ UNCHANGED <<owner, faults>>
    /\ UNCHANGED <<repository, fileVars, unitVars, hostVars>>

RestoreOwnership ==
    /\ At("ownership") /\ Goto("start firewall")
    /\ owner' = "service"
    /\ UNCHANGED <<repository, fileVars, unitVars, tableVars, hostVars, faults>>

\* enable --now of the firewall unit: firewall-init makes the chain and its jump.
StartFirewall ==
    /\ At("start firewall")
    /\ enabled' = enabled \cup {"firewall"}
    /\ IF Runs("service")
         THEN Goto("start monitor") /\ firewall' = "active" /\ chain' = "hooked"
         ELSE Goto("failed") /\ UNCHANGED <<firewall, chain>>
    /\ UNCHANGED <<repository, fileVars, monitorVars, rule, odd, row, hostVars, owner, faults>>

\* The process has started; whether it stays is seen later.
Launch(p, c) ==
    /\ monitor' = "active"
    /\ loaded' = [package |-> p, config |-> c]
    /\ settled' = FALSE /\ blocking' = FALSE

\* enable --now of the application unit.
StartMonitor ==
    /\ At("start monitor") /\ Goto("check services")
    /\ enabled' = enabled \cup {"application"}
    /\ IF monitor = "active" THEN UNCHANGED monitorVars ELSE Launch(package, config)
    /\ UNCHANGED <<repository, fileVars, firewall, tableVars, hostVars, owner, faults>>

(***************************************************************************)
(* verify_installation                                                     *)
(***************************************************************************)
Check(condition, there) ==
    /\ stage' = there
    /\ passed' = (passed /\ condition)
    /\ UNCHANGED <<applying, resetting>>

CheckServices ==
    /\ At("check services")
    /\ Check(firewall = "active" /\ monitor = "active", "check chain")
    /\ UNCHANGED <<repository, fileVars, unitVars, tableVars, hostVars, owner, faults>>

\* validate-config and rules, run by root.
CheckChain ==
    /\ At("check chain")
    /\ Check(Runs("root") /\ chain # "absent", "check client")
    /\ Rotate \/ UNCHANGED <<owner, faults>>
    /\ UNCHANGED <<repository, fileVars, unitVars, tableVars, hostVars>>

\* iptables -C answers that the client's rule is not in the chain; then the result.
CheckClient ==
    /\ At("check client")
    /\ LET ready == passed /\ chain # "absent" /\ ~rule
       IN  Check(ready, IF ready THEN "ready" ELSE "failed")
    /\ UNCHANGED <<repository, fileVars, unitVars, tableVars, hostVars, owner, faults>>

(***************************************************************************)
(* systemd and the monitor                                                 *)
(***************************************************************************)
\* The monitor does not start without its files or its chain.
Refuse ==
    /\ monitor = "active" /\ ~settled
    /\ ~(Runs("service") /\ chain = "hooked")
    /\ Down("waiting")
    /\ UNCHANGED <<callVars, repository, fileVars, enabled, firewall, tableVars, hostVars, owner,
                   faults>>

\* It crashes; or a component of it fails, and it ends without an error.
Stop ==
    /\ monitor = "active"
    /\ Fault
    /\ \E state \in {"waiting", "stopped"} : Down(state)
    /\ UNCHANGED <<callVars, repository, fileVars, enabled, firewall, tableVars, hostVars, owner>>

\* Restart=on-failure.
Restart ==
    /\ monitor = "waiting"
    /\ Launch(package, config)
    /\ UNCHANGED <<callVars, repository, fileVars, enabled, firewall, tableVars, hostVars, owner,
                   faults>>

\* The start-up reconciliation closes a block whose rule is gone.
Settle ==
    /\ monitor = "active" /\ ~settled /\ Runs("service") /\ chain = "hooked"
    /\ settled' = TRUE
    /\ row' = (row /\ rule)
    /\ UNCHANGED <<callVars, repository, fileVars, enabled, firewall, monitor, loaded, blocking,
                   chain, rule, odd, hostVars, owner, faults>>

\* block_detection inserts the rule of a client that has neither row nor rule ...
InsertRule ==
    /\ monitor = "active" /\ settled /\ chain = "hooked"
    /\ ~row /\ ~rule
    /\ rule' = TRUE /\ blocking' = TRUE
    /\ UNCHANGED <<callVars, repository, fileVars, enabled, firewall, monitor, loaded, settled,
                   chain, odd, row, hostVars, owner, faults>>

\* ... and stores the row; if it cannot, it takes the rule back, or fails to.
ActivateBlock ==
    /\ blocking
    /\ blocking' = FALSE
    /\ \/ row' = TRUE /\ UNCHANGED <<rule, faults>>
       \/ Fault /\ rule' \in {rule, FALSE} /\ UNCHANGED row
    /\ UNCHANGED <<callVars, repository, fileVars, enabled, firewall, monitor, loaded, settled,
                   chain, odd, hostVars, owner>>

\* The end of a block: its rule goes, or one of two ...
DeleteRule ==
    /\ monitor = "active" /\ settled /\ row /\ rule
    /\ \/ rule' = FALSE /\ UNCHANGED odd
       \/ odd /\ odd' = FALSE /\ UNCHANGED rule
    /\ UNCHANGED <<callVars, repository, fileVars, unitVars, chain, row, hostVars, owner, faults>>

\* ... and then its row.
CloseBlock ==
    /\ monitor = "active" /\ settled /\ row /\ ~rule
    /\ row' = FALSE
    /\ UNCHANGED <<callVars, repository, fileVars, unitVars, chain, rule, odd, hostVars, owner,
                   faults>>

\* Somebody adds a rule to the chain, or two processes the same one.
Disturb ==
    /\ chain # "absent" /\ ~odd
    /\ Fault
    /\ odd' = TRUE
    /\ UNCHANGED <<callVars, repository, fileVars, unitVars, chain, rule, row, hostVars, owner>>

\* The host starts again: the tables and the installer are gone, and the enabled
\* units start with what files there are, the firewall unit first.
Boot ==
    /\ Fault
    /\ IF stage \in Resting THEN UNCHANGED callVars ELSE Goto("failed")
    /\ CutOff
    /\ UNCHANGED <<enabled, row, owner>>
    /\ policy' = "DROP" /\ opening' = TRUE /\ rule' = FALSE /\ odd' = FALSE
    /\ IF "firewall" \in enabled /\ Runs("service")'
         THEN firewall' = "active" /\ chain' = "hooked"
         ELSE firewall' = "stopped" /\ chain' = "absent"
    /\ IF "application" \in enabled
         THEN Launch(package', config')
         ELSE Down("stopped")

Install ==
    \/ Prepare \/ StopMonitor \/ StopFirewall
    \/ AcceptByDefault \/ Flush \/ DeleteChains \/ ConfigureHostFirewall
    \/ InstallDirectories \/ SynchronizeSource \/ InstallEnvironment
    \/ BackUpConfiguration \/ InstallConfiguration \/ InitializeDatabase
    \/ InstallUnits \/ RemoveStaleFirewall \/ RestoreOwnership
    \/ StartFirewall \/ StartMonitor

Verify == CheckServices \/ CheckChain \/ CheckClient

Next ==
    \/ Change \/ Apply \/ VerifyOnly \/ Fail \/ Install \/ Verify
    \/ Refuse \/ Stop \/ Restart \/ Settle
    \/ InsertRule \/ ActivateBlock \/ DeleteRule \/ CloseBlock
    \/ Disturb \/ Boot

Spec == Init /\ [][Next]_vars

\* The installer goes on, systemd starts the monitor, and the operator does not
\* give up calling the installer with --apply.
FairSpec ==
    /\ Spec
    /\ WF_vars(Install) /\ WF_vars(Verify)
    /\ WF_vars(Refuse) /\ WF_vars(Restart) /\ WF_vars(Settle)
    /\ SF_vars(Apply)

(***************************************************************************)
(* Properties                                                              *)
(***************************************************************************)
\* No process of the application, old or new, runs on files that are being
\* replaced or against a table that is being reset, whatever failed, booted or was
\* restarted before (_stop_existing_services comes first, _start_services last).
NoServiceDuringReplacement ==
    /\ stage \in Replacing => monitor = "stopped" /\ firewall = "stopped"
    /\ stage = "start monitor" => monitor = "stopped"

\* The operator's SSH connection is never cut off: by default or by a rule, the host
\* accepts SSH at every moment of a reset (policies first, then the flush).
NeverLockedOut == policy = "ACCEPT" \/ opening

\* Every configuration that was ever in place is in place or has a backup, also
\* after an installation of the new one that was cut off, and a second try; none is
\* lost but by a "test -f" that failed (live_lab_setup.py:773).
ConfigurationKept == written \subseteq backups \cup {config} \cup overlooked

\* The monitor starts on a clean baseline: the chain new, the lab client not
\* blocked by an earlier run or by one that died between the rule and its row, the
\* files its own; and a rule is never in a chain that INPUT does not jump to.
CleanStart ==
    /\ stage \in {"ownership", "start firewall"} => chain = "absent"
    /\ stage = "start firewall" => owner = "service"
    /\ stage = "start monitor" => chain = "hooked" /\ ~rule
    /\ rule => chain = "hooked"

\* When the installer says after an installation that the lab is ready, what is
\* installed, and what runs, is the edition it was called to install.
ReadyIsNewest ==
    [][At("check client") /\ applying /\ stage' = "ready" =>
         /\ tree = repository /\ package = repository
         /\ config = repository /\ units = repository
         /\ monitor = "active" =>
               loaded = [package |-> repository, config |-> repository]
         /\ enabled = Units]_vars

\* Once root leaves no files behind in the data and log directories, the client is
\* not blocked and a chain with an odd rule is met with --reset-host-iptables, a
\* failed call is followed by a successful one, whatever state the failures left the
\* host in.
RerunSucceeds ==
    <>[](owner = "service" /\ ~rule /\ (odd => resetting))
       => (stage = "failed" ~> stage = "ready")
=============================================================================
