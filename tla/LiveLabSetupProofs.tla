-------------------------- MODULE LiveLabSetupProofs --------------------------
(***************************************************************************)
(* The live-lab installer keeps its promises for any number of editions,   *)
(* faults and boots.  SetupInv says, stage by stage, what the commands so  *)
(* far have achieved: that is what the later ones rely on, and what no     *)
(* boot or restart in between may have undone without ending the call.     *)
(***************************************************************************)
EXTENDS LiveLabSetup, TLAPS

\* The monitor is stopped before the firewall unit.
MonitorFirst == stage = "stop firewall" => monitor = "stopped"

\* The flush finds the policies open.
PolicyFirst == stage = "flush" => policy = "ACCEPT"

\* The chains are deleted without their rules.
FlushFirst == stage = "delete chains" => ~rule

\* The configuration about to be replaced has a backup, unless it was overlooked.
BackupFirst ==
    /\ written \subseteq Editions
    /\ stage = "config" => config \in backups \cup overlooked \cup {None}

\* The stages of apply_plan that follow the installation of a part ...
AfterFirewall == {"start monitor"}
AfterUnits == AfterFirewall \cup {"cleanup", "ownership", "start firewall"}
AfterConfig == AfterUnits \cup {"initialize", "units"}
AfterPackage == AfterConfig \cup {"backup", "config"}
AfterTree == AfterPackage \cup {"environment"}

\* ... and the verification of what it has installed.
Checking == applying /\ stage \in Verifying

Newest ==
    /\ stage \in AfterTree \/ Checking => tree = repository
    /\ stage \in AfterPackage \/ Checking => package = repository
    /\ stage \in AfterConfig \/ Checking => config = repository
    /\ stage \in AfterUnits \/ Checking => units = repository
    /\ stage \in AfterFirewall \/ Checking => "firewall" \in enabled
    /\ Checking => "application" \in enabled
    /\ Checking /\ monitor = "active" =>
          loaded = [package |-> repository, config |-> repository]

Progress == MonitorFirst /\ PolicyFirst /\ FlushFirst /\ BackupFirst /\ Newest

Promises == NoServiceDuringReplacement /\ NeverLockedOut /\ ConfigurationKept /\ CleanStart

SetupInv == TypeOK /\ Promises /\ Progress

(* The operators that only abbreviate. *)
USE DEF callVars, savedVars, fileVars, monitorVars, unitVars, tableVars, hostVars, vars, At, Goto, Fault,
        Usable, Units, NotLoaded, Runs

LEMMA EditionNames ==
    /\ Editions \subseteq Edition /\ None \in Edition /\ Broken \in Edition
    /\ 1 \in Editions /\ None \notin Editions /\ Broken \notin Editions
    /\ \A e \in Editions : e < MaxEdition => e + 1 \in Editions
  BY SetupAssumption DEF Editions, Edition, None, Broken

LEMMA StageNames ==
    /\ "idle" \in Stages /\ "ready" \in Stages /\ "failed" \in Stages
    /\ "prepare" \in Stages /\ "stop monitor" \in Stages /\ "stop firewall" \in Stages
    /\ "policies" \in Stages /\ "flush" \in Stages /\ "delete chains" \in Stages
    /\ "frontend" \in Stages /\ "account" \in Stages /\ "tree" \in Stages
    /\ "environment" \in Stages /\ "backup" \in Stages /\ "config" \in Stages
    /\ "initialize" \in Stages /\ "units" \in Stages /\ "cleanup" \in Stages
    /\ "ownership" \in Stages /\ "start firewall" \in Stages /\ "start monitor" \in Stages
    /\ "check services" \in Stages /\ "check chain" \in Stages /\ "check client" \in Stages
  BY DEF Stages, Resting, Installing, Replacing, Verifying

(* TypeOK in five parts: the call, the files, the units, the host, and the faults. *)
CallTypes ==
    /\ stage \in Stages
    /\ applying \in BOOLEAN /\ resetting \in BOOLEAN /\ passed \in BOOLEAN
FileTypes ==
    /\ repository \in Editions
    /\ tree \in Edition /\ package \in Edition /\ config \in Edition /\ units \in Edition
    /\ written \subseteq Editions /\ backups \subseteq Edition /\ overlooked \subseteq Edition
UnitTypes ==
    /\ enabled \subseteq Units
    /\ firewall \in {"stopped", "active"}
    /\ monitor \in {"stopped", "active", "waiting"}
    /\ loaded \in [package : Edition, config : Edition]
    /\ settled \in BOOLEAN /\ blocking \in BOOLEAN
HostTypes ==
    /\ chain \in {"absent", "unhooked", "hooked"}
    /\ rule \in BOOLEAN /\ odd \in BOOLEAN /\ row \in BOOLEAN
    /\ policy \in {"ACCEPT", "DROP"} /\ opening \in BOOLEAN
FaultTypes == owner \in {"service", "root"} /\ faults \in 0..MaxFaults

LEMMA Parts == TypeOK <=> CallTypes /\ FileTypes /\ UnitTypes /\ HostTypes /\ FaultTypes
  BY DEF TypeOK, CallTypes, FileTypes, UnitTypes, HostTypes, FaultTypes

(* The steps of systemd, the monitor and those who touch its chain. *)
Monitoring ==
    \/ Refuse \/ Stop \/ Restart \/ Settle
    \/ InsertRule \/ ActivateBlock \/ DeleteRule \/ CloseBlock
    \/ Disturb \/ Boot

LEMMA CountFault ==
    ASSUME faults \in 0..MaxFaults, faults < MaxFaults, faults' = faults + 1
    PROVE  faults' \in 0..MaxFaults
  BY SetupAssumption

LEMMA LaunchType ==
    ASSUME NEW p \in Edition, NEW c \in Edition, Launch(p, c)
    PROVE  /\ monitor' = "active" /\ settled' = FALSE /\ blocking' = FALSE
           /\ loaded' \in [package : Edition, config : Edition]
  BY DEF Launch

LEMMA SetupInit == Init => SetupInv
<1> SUFFICES ASSUME Init PROVE SetupInv
  OBVIOUS
<1> USE DEF Init
<1>1. TypeOK
  <2>1. CallTypes
    BY StageNames DEF CallTypes
  <2>2. FileTypes
    BY EditionNames DEF FileTypes
  <2>3. UnitTypes
    BY EditionNames DEF UnitTypes
  <2>4. HostTypes
    BY DEF HostTypes
  <2>5. FaultTypes
    BY SetupAssumption DEF FaultTypes
  <2> QED BY <2>1, <2>2, <2>3, <2>4, <2>5, Parts
<1>2. Promises
  BY EditionNames DEF Promises, NoServiceDuringReplacement, NeverLockedOut, ConfigurationKept, CleanStart,
         Replacing
<1>3. Progress
  BY EditionNames DEF Progress, MonitorFirst, PolicyFirst, FlushFirst, BackupFirst, Newest, Checking, Verifying,
         AfterFirewall, AfterUnits, AfterConfig, AfterPackage, AfterTree
<1> QED BY <1>1, <1>2, <1>3 DEF SetupInv

LEMMA CallTypeStep ==
    ASSUME CallTypes, [Next]_vars
    PROVE  CallTypes'
<1> USE StageNames DEF CallTypes
<1>1. CASE Install
  BY <1>1 DEF Prepare, StopMonitor, StopFirewall, AcceptByDefault, Flush, DeleteChains,
     ConfigureHostFirewall, InstallDirectories, SynchronizeSource, InstallEnvironment,
     BackUpConfiguration, InstallConfiguration, InitializeDatabase, InstallUnits,
     RemoveStaleFirewall, RestoreOwnership, StartFirewall, StartMonitor, Install,
     CleanupChain, CleanupBreaksOff, Overlook, Down, Launch, Rotate
<1>2. CASE Verify
  BY <1>2 DEF CheckServices, CheckChain, CheckClient, Verify, Check, Rotate
<1>3. CASE Change \/ Apply \/ VerifyOnly \/ Fail
  BY <1>3 DEF Change, Apply, VerifyOnly, Fail, CutOff, CleanupBreaksOff
<1>4. CASE Monitoring
  BY <1>4 DEF Monitoring, Refuse, Stop, Restart, Settle, InsertRule, ActivateBlock, DeleteRule,
     CloseBlock, Disturb, Boot, CutOff, Down, Launch
<1>5. CASE UNCHANGED vars
  BY <1>5
<1> QED BY <1>1, <1>2, <1>3, <1>4, <1>5 DEF Next, Monitoring

LEMMA FileTypeStep ==
    ASSUME FileTypes, [Next]_vars
    PROVE  FileTypes'
<1> USE EditionNames DEF FileTypes
<1>1. CASE Install
  BY <1>1 DEF Prepare, StopMonitor, StopFirewall, AcceptByDefault, Flush, DeleteChains,
     ConfigureHostFirewall, InstallDirectories, SynchronizeSource, InstallEnvironment,
     BackUpConfiguration, InstallConfiguration, InitializeDatabase, InstallUnits,
     RemoveStaleFirewall, RestoreOwnership, StartFirewall, StartMonitor, Install,
     CleanupChain, CleanupBreaksOff, Overlook, Down, Launch, Rotate
<1>2. CASE Verify
  BY <1>2 DEF CheckServices, CheckChain, CheckClient, Verify, Check, Rotate
<1>3. CASE Change \/ Apply \/ VerifyOnly \/ Fail
  BY <1>3 DEF Change, Apply, VerifyOnly, Fail, CutOff, CleanupBreaksOff
<1>4. CASE Monitoring
  BY <1>4 DEF Monitoring, Refuse, Stop, Restart, Settle, InsertRule, ActivateBlock, DeleteRule,
     CloseBlock, Disturb, Boot, CutOff, Down, Launch
<1>5. CASE UNCHANGED vars
  BY <1>5
<1> QED BY <1>1, <1>2, <1>3, <1>4, <1>5 DEF Next, Monitoring

LEMMA UnitTypeStep ==
    ASSUME FileTypes, UnitTypes, [Next]_vars
    PROVE  UnitTypes'
<1>f. FileTypes'
  BY FileTypeStep
<1> USE LaunchType, EditionNames, <1>f DEF UnitTypes, FileTypes
<1>1. CASE Install
  <2>1. CASE Prepare
    BY <2>1 DEF Prepare
  <2>2. CASE StopMonitor
    BY <2>2 DEF StopMonitor, Down
  <2>3. CASE StopFirewall
    BY <2>3 DEF StopFirewall, CleanupChain, CleanupBreaksOff
  <2>4. CASE AcceptByDefault
    BY <2>4 DEF AcceptByDefault
  <2>5. CASE Flush
    BY <2>5 DEF Flush
  <2>6. CASE DeleteChains
    BY <2>6 DEF DeleteChains
  <2>7. CASE ConfigureHostFirewall
    BY <2>7 DEF ConfigureHostFirewall
  <2>8. CASE InstallDirectories
    BY <2>8 DEF InstallDirectories
  <2>9. CASE SynchronizeSource
    BY <2>9 DEF SynchronizeSource
  <2>10. CASE InstallEnvironment
    BY <2>10 DEF InstallEnvironment
  <2>11. CASE BackUpConfiguration
    BY <2>11 DEF BackUpConfiguration, Overlook
  <2>12. CASE InstallConfiguration
    BY <2>12 DEF InstallConfiguration
  <2>13. CASE InitializeDatabase
    BY <2>13 DEF InitializeDatabase
  <2>14. CASE InstallUnits
    BY <2>14 DEF InstallUnits
  <2>15. CASE RemoveStaleFirewall
    BY <2>15 DEF RemoveStaleFirewall, CleanupChain, Rotate
  <2>16. CASE RestoreOwnership
    BY <2>16 DEF RestoreOwnership
  <2>17. CASE StartFirewall
    BY <2>17 DEF StartFirewall
  <2>18. CASE StartMonitor
    BY <2>18 DEF StartMonitor
  <2> QED
    BY <1>1, <2>1, <2>2, <2>3, <2>4, <2>5, <2>6, <2>7, <2>8, <2>9, <2>10, <2>11, <2>12, <2>13,
       <2>14, <2>15, <2>16, <2>17, <2>18 DEF Install
<1>2. CASE Verify
  BY <1>2 DEF CheckServices, CheckChain, CheckClient, Verify, Check, Rotate
<1>3. CASE Change \/ Apply \/ VerifyOnly \/ Fail
  BY <1>3 DEF Change, Apply, VerifyOnly, Fail, CutOff, CleanupBreaksOff
<1>4. CASE Monitoring
  <2>1. CASE Refuse
    BY <2>1 DEF Refuse, Down
  <2>2. CASE Stop
    <3>1. UNCHANGED <<enabled, firewall>>
      BY <2>2 DEF Stop
    <3>2. PICK state \in {"waiting", "stopped"} : Down(state)
      BY <2>2 DEF Stop
    <3> QED BY <3>1, <3>2 DEF Down
  <2>3. CASE Restart
    BY <2>3 DEF Restart
  <2>4. CASE Settle
    BY <2>4 DEF Settle
  <2>5. CASE InsertRule
    BY <2>5 DEF InsertRule
  <2>6. CASE ActivateBlock
    BY <2>6 DEF ActivateBlock
  <2>7. CASE DeleteRule
    BY <2>7 DEF DeleteRule
  <2>8. CASE CloseBlock
    BY <2>8 DEF CloseBlock
  <2>9. CASE Disturb
    BY <2>9 DEF Disturb
  <2>10. CASE Boot
    <3>1. enabled' = enabled /\ firewall' \in {"stopped", "active"}
      BY <2>10 DEF Boot
    <3>2. \/ Launch(package', config')
          \/ Down("stopped")
      BY <2>10 DEF Boot
    <3>3. CASE Launch(package', config')
      BY <3>1, <3>3
    <3>4. CASE Down("stopped")
      BY <3>1, <3>4 DEF Down
    <3> QED BY <3>2, <3>3, <3>4
  <2> QED
    BY <1>4, <2>1, <2>2, <2>3, <2>4, <2>5, <2>6, <2>7, <2>8, <2>9, <2>10 DEF Monitoring
<1>5. CASE UNCHANGED vars
  BY <1>5
<1> QED BY <1>1, <1>2, <1>3, <1>4, <1>5 DEF Next, Monitoring

LEMMA HostTypeStep ==
    ASSUME HostTypes, [Next]_vars
    PROVE  HostTypes'
<1> USE DEF HostTypes
<1>1. CASE Install
  BY <1>1 DEF Prepare, StopMonitor, StopFirewall, AcceptByDefault, Flush, DeleteChains,
     ConfigureHostFirewall, InstallDirectories, SynchronizeSource, InstallEnvironment,
     BackUpConfiguration, InstallConfiguration, InitializeDatabase, InstallUnits,
     RemoveStaleFirewall, RestoreOwnership, StartFirewall, StartMonitor, Install,
     CleanupChain, CleanupBreaksOff, Overlook, Down, Launch, Rotate
<1>2. CASE Verify
  BY <1>2 DEF CheckServices, CheckChain, CheckClient, Verify, Check, Rotate
<1>3. CASE Change \/ Apply \/ VerifyOnly \/ Fail
  BY <1>3 DEF Change, Apply, VerifyOnly, Fail, CutOff, CleanupBreaksOff
<1>4. CASE Monitoring
  BY <1>4 DEF Monitoring, Refuse, Stop, Restart, Settle, InsertRule, ActivateBlock, DeleteRule,
     CloseBlock, Disturb, Boot, CutOff, Down, Launch
<1>5. CASE UNCHANGED vars
  BY <1>5
<1> QED BY <1>1, <1>2, <1>3, <1>4, <1>5 DEF Next, Monitoring

LEMMA FaultTypeStep ==
    ASSUME FaultTypes, [Next]_vars
    PROVE  FaultTypes'
<1> USE CountFault DEF FaultTypes
<1>1. CASE Install
  BY <1>1 DEF Prepare, StopMonitor, StopFirewall, AcceptByDefault, Flush, DeleteChains,
     ConfigureHostFirewall, InstallDirectories, SynchronizeSource, InstallEnvironment,
     BackUpConfiguration, InstallConfiguration, InitializeDatabase, InstallUnits,
     RemoveStaleFirewall, RestoreOwnership, StartFirewall, StartMonitor, Install,
     CleanupChain, CleanupBreaksOff, Overlook, Down, Launch, Rotate
<1>2. CASE Verify
  BY <1>2 DEF CheckServices, CheckChain, CheckClient, Verify, Check, Rotate
<1>3. CASE Change \/ Apply \/ VerifyOnly \/ Fail
  BY <1>3 DEF Change, Apply, VerifyOnly, Fail, CutOff, CleanupBreaksOff
<1>4. CASE Monitoring
  BY <1>4 DEF Monitoring, Refuse, Stop, Restart, Settle, InsertRule, ActivateBlock, DeleteRule,
     CloseBlock, Disturb, Boot, CutOff, Down, Launch
<1>5. CASE UNCHANGED vars
  BY <1>5
<1> QED BY <1>1, <1>2, <1>3, <1>4, <1>5 DEF Next, Monitoring

LEMMA ServiceStep ==
    ASSUME NoServiceDuringReplacement, MonitorFirst, [Next]_vars
    PROVE  (NoServiceDuringReplacement /\ MonitorFirst)'
<1> USE DEF NoServiceDuringReplacement, MonitorFirst, Resting, Replacing, Verifying, Installing
<1>1. CASE Install
  <2>1. CASE Prepare
    BY <2>1 DEF Prepare
  <2>2. CASE StopMonitor
    BY <2>2 DEF StopMonitor, Down
  <2>3. CASE StopFirewall
    BY <2>3 DEF StopFirewall, CleanupChain, CleanupBreaksOff
  <2>4. CASE AcceptByDefault
    BY <2>4 DEF AcceptByDefault
  <2>5. CASE Flush
    BY <2>5 DEF Flush
  <2>6. CASE DeleteChains
    BY <2>6 DEF DeleteChains
  <2>7. CASE ConfigureHostFirewall
    BY <2>7 DEF ConfigureHostFirewall
  <2>8. CASE InstallDirectories
    BY <2>8 DEF InstallDirectories
  <2>9. CASE SynchronizeSource
    BY <2>9 DEF SynchronizeSource
  <2>10. CASE InstallEnvironment
    BY <2>10 DEF InstallEnvironment
  <2>11. CASE BackUpConfiguration
    BY <2>11 DEF BackUpConfiguration, Overlook
  <2>12. CASE InstallConfiguration
    BY <2>12 DEF InstallConfiguration
  <2>13. CASE InitializeDatabase
    BY <2>13 DEF InitializeDatabase
  <2>14. CASE InstallUnits
    BY <2>14 DEF InstallUnits
  <2>15. CASE RemoveStaleFirewall
    BY <2>15 DEF RemoveStaleFirewall, CleanupChain, Rotate
  <2>16. CASE RestoreOwnership
    BY <2>16 DEF RestoreOwnership
  <2>17. CASE StartFirewall
    BY <2>17 DEF StartFirewall
  <2>18. CASE StartMonitor
    BY <2>18 DEF StartMonitor, Launch
  <2> QED
    BY <1>1, <2>1, <2>2, <2>3, <2>4, <2>5, <2>6, <2>7, <2>8, <2>9, <2>10, <2>11, <2>12, <2>13,
       <2>14, <2>15, <2>16, <2>17, <2>18 DEF Install
<1>2. CASE Verify
  BY <1>2 DEF CheckServices, CheckChain, CheckClient, Verify, Check, Rotate
<1>3. CASE Change \/ Apply \/ VerifyOnly \/ Fail
  BY <1>3 DEF Change, Apply, VerifyOnly, Fail, CutOff, CleanupBreaksOff
<1>4. CASE Monitoring
  <2>1. CASE Refuse
    BY <2>1 DEF Refuse, Down
  <2>2. CASE Stop
    BY <2>2 DEF Stop, Down
  <2>3. CASE Restart
    BY <2>3 DEF Restart, Launch
  <2>4. CASE Settle
    BY <2>4 DEF Settle
  <2>5. CASE InsertRule
    BY <2>5 DEF InsertRule
  <2>6. CASE ActivateBlock
    BY <2>6 DEF ActivateBlock
  <2>7. CASE DeleteRule
    BY <2>7 DEF DeleteRule
  <2>8. CASE CloseBlock
    BY <2>8 DEF CloseBlock
  <2>9. CASE Disturb
    BY <2>9 DEF Disturb
  <2>10. CASE Boot
    BY <2>10 DEF Boot, CutOff, Down, Launch
  <2> QED
    BY <1>4, <2>1, <2>2, <2>3, <2>4, <2>5, <2>6, <2>7, <2>8, <2>9, <2>10 DEF Monitoring
<1>5. CASE UNCHANGED vars
  BY <1>5
<1> QED BY <1>1, <1>2, <1>3, <1>4, <1>5 DEF Next, Monitoring

LEMMA PolicyStep ==
    ASSUME NeverLockedOut, PolicyFirst, [Next]_vars
    PROVE  (NeverLockedOut /\ PolicyFirst)'
<1> USE DEF NeverLockedOut, PolicyFirst, Resting, Replacing, Verifying, Installing
<1>1. CASE Install
  BY <1>1 DEF Prepare, StopMonitor, StopFirewall, AcceptByDefault, Flush, DeleteChains,
     ConfigureHostFirewall, InstallDirectories, SynchronizeSource, InstallEnvironment,
     BackUpConfiguration, InstallConfiguration, InitializeDatabase, InstallUnits,
     RemoveStaleFirewall, RestoreOwnership, StartFirewall, StartMonitor, Install,
     CleanupChain, CleanupBreaksOff, Overlook, Down, Launch, Rotate
<1>2. CASE Verify
  BY <1>2 DEF CheckServices, CheckChain, CheckClient, Verify, Check, Rotate
<1>3. CASE Change \/ Apply \/ VerifyOnly \/ Fail
  BY <1>3 DEF Change, Apply, VerifyOnly, Fail, CutOff, CleanupBreaksOff
<1>4. CASE Monitoring
  BY <1>4 DEF Monitoring, Refuse, Stop, Restart, Settle, InsertRule, ActivateBlock, DeleteRule,
     CloseBlock, Disturb, Boot, CutOff, Down, Launch
<1>5. CASE UNCHANGED vars
  BY <1>5
<1> QED BY <1>1, <1>2, <1>3, <1>4, <1>5 DEF Next, Monitoring

LEMMA BackupStep ==
    ASSUME FileTypes, ConfigurationKept, BackupFirst, [Next]_vars
    PROVE  (ConfigurationKept /\ BackupFirst)'
<1> USE EditionNames DEF FileTypes, ConfigurationKept, BackupFirst, Resting, Replacing, Verifying, Installing
<1>1. CASE Install
  BY <1>1 DEF Prepare, StopMonitor, StopFirewall, AcceptByDefault, Flush, DeleteChains,
     ConfigureHostFirewall, InstallDirectories, SynchronizeSource, InstallEnvironment,
     BackUpConfiguration, InstallConfiguration, InitializeDatabase, InstallUnits,
     RemoveStaleFirewall, RestoreOwnership, StartFirewall, StartMonitor, Install,
     CleanupChain, CleanupBreaksOff, Overlook, Down, Launch, Rotate
<1>2. CASE Verify
  BY <1>2 DEF CheckServices, CheckChain, CheckClient, Verify, Check, Rotate
<1>3. CASE Change \/ Apply \/ VerifyOnly \/ Fail
  BY <1>3 DEF Change, Apply, VerifyOnly, Fail, CutOff, CleanupBreaksOff
<1>4. CASE Monitoring
  BY <1>4 DEF Monitoring, Refuse, Stop, Restart, Settle, InsertRule, ActivateBlock, DeleteRule,
     CloseBlock, Disturb, Boot, CutOff, Down, Launch
<1>5. CASE UNCHANGED vars
  BY <1>5
<1> QED BY <1>1, <1>2, <1>3, <1>4, <1>5 DEF Next, Monitoring

LEMMA BaselineStep ==
    ASSUME HostTypes, NoServiceDuringReplacement, CleanStart, FlushFirst, [Next]_vars
    PROVE  (CleanStart /\ FlushFirst)'
<1> USE DEF HostTypes, NoServiceDuringReplacement, CleanStart, FlushFirst, Resting, Replacing, Verifying, Installing
<1>1. CASE Install
  <2>1. CASE Prepare
    BY <2>1 DEF Prepare
  <2>2. CASE StopMonitor
    BY <2>2 DEF StopMonitor, Down
  <2>3. CASE StopFirewall
    <3>1. stage' \in {"policies", "frontend"}
      BY <2>3 DEF StopFirewall
    <3>2. CleanupChain \/ CleanupBreaksOff \/ UNCHANGED tableVars
      BY <2>3 DEF StopFirewall
    <3>3. CASE CleanupChain
      BY <3>1, <3>3 DEF CleanupChain
    <3>4. CASE UNCHANGED tableVars
      BY <3>1, <3>4
    <3>5. CASE CleanupBreaksOff
      <4>1. \/ UNCHANGED <<chain, rule>>
            \/ rule' = FALSE
        BY <3>5 DEF CleanupBreaksOff
      <4>2. CASE UNCHANGED <<chain, rule>>
        BY <3>1, <4>2
      <4>3. CASE rule' = FALSE
        BY <3>1, <4>3
      <4> QED BY <4>1, <4>2, <4>3
    <3> QED BY <3>2, <3>3, <3>4, <3>5
  <2>4. CASE AcceptByDefault
    BY <2>4 DEF AcceptByDefault
  <2>5. CASE Flush
    BY <2>5 DEF Flush
  <2>6. CASE DeleteChains
    BY <2>6 DEF DeleteChains
  <2>7. CASE ConfigureHostFirewall
    BY <2>7 DEF ConfigureHostFirewall
  <2>8. CASE InstallDirectories
    BY <2>8 DEF InstallDirectories
  <2>9. CASE SynchronizeSource
    BY <2>9 DEF SynchronizeSource
  <2>10. CASE InstallEnvironment
    BY <2>10 DEF InstallEnvironment
  <2>11. CASE BackUpConfiguration
    BY <2>11 DEF BackUpConfiguration, Overlook
  <2>12. CASE InstallConfiguration
    BY <2>12 DEF InstallConfiguration
  <2>13. CASE InitializeDatabase
    BY <2>13 DEF InitializeDatabase
  <2>14. CASE InstallUnits
    BY <2>14 DEF InstallUnits
  <2>15. CASE RemoveStaleFirewall
    BY <2>15 DEF RemoveStaleFirewall, CleanupChain, Rotate
  <2>16. CASE RestoreOwnership
    BY <2>16 DEF RestoreOwnership
  <2>17. CASE StartFirewall
    BY <2>17 DEF StartFirewall
  <2>18. CASE StartMonitor
    BY <2>18 DEF StartMonitor, Launch
  <2> QED
    BY <1>1, <2>1, <2>2, <2>3, <2>4, <2>5, <2>6, <2>7, <2>8, <2>9, <2>10, <2>11, <2>12, <2>13,
       <2>14, <2>15, <2>16, <2>17, <2>18 DEF Install
<1>2. CASE Verify
  <2>1. CASE CheckServices
    BY <2>1 DEF CheckServices, Check
  <2>2. CASE CheckChain
    BY <2>2 DEF CheckChain, Check, Rotate
  <2>3. CASE CheckClient
    BY <2>3 DEF CheckClient, Check
  <2> QED
    BY <1>2, <2>1, <2>2, <2>3 DEF Verify
<1>3. CASE Change \/ Apply \/ VerifyOnly \/ Fail
  <2>1. CASE Change
    BY <2>1 DEF Change
  <2>2. CASE Apply
    BY <2>2 DEF Apply
  <2>3. CASE VerifyOnly
    BY <2>3 DEF VerifyOnly
  <2>4. CASE Fail
    BY <2>4 DEF Fail, CutOff, CleanupBreaksOff
  <2> QED
    BY <1>3, <2>1, <2>2, <2>3, <2>4
<1>4. CASE Monitoring
  <2>1. CASE Refuse
    BY <2>1 DEF Refuse, Down
  <2>2. CASE Stop
    BY <2>2 DEF Stop, Down
  <2>3. CASE Restart
    BY <2>3 DEF Restart, Launch
  <2>4. CASE Settle
    BY <2>4 DEF Settle
  <2>5. CASE InsertRule
    BY <2>5 DEF InsertRule
  <2>6. CASE ActivateBlock
    <3>1. rule' => rule
      BY <2>6 DEF ActivateBlock
    <3>2. UNCHANGED <<stage, chain, owner>>
      BY <2>6 DEF ActivateBlock
    <3> QED BY <3>1, <3>2
  <2>7. CASE DeleteRule
    BY <2>7 DEF DeleteRule
  <2>8. CASE CloseBlock
    BY <2>8 DEF CloseBlock
  <2>9. CASE Disturb
    BY <2>9 DEF Disturb
  <2>10. CASE Boot
    BY <2>10 DEF Boot, CutOff, Down, Launch
  <2> QED
    BY <1>4, <2>1, <2>2, <2>3, <2>4, <2>5, <2>6, <2>7, <2>8, <2>9, <2>10 DEF Monitoring
<1>5. CASE UNCHANGED vars
  BY <1>5
<1> QED BY <1>1, <1>2, <1>3, <1>4, <1>5 DEF Next, Monitoring

LEMMA NewestStep ==
    ASSUME Newest, NoServiceDuringReplacement, [Next]_vars
    PROVE  Newest'
<1> USE DEF Newest, NoServiceDuringReplacement, Checking, Resting, Replacing, Verifying, Installing,
        AfterFirewall, AfterUnits, AfterConfig, AfterPackage, AfterTree
<1>1. CASE Install
  <2>1. CASE Prepare
    BY <2>1 DEF Prepare
  <2>2. CASE StopMonitor
    BY <2>2 DEF StopMonitor, Down
  <2>3. CASE StopFirewall
    BY <2>3 DEF StopFirewall, CleanupChain, CleanupBreaksOff
  <2>4. CASE AcceptByDefault
    BY <2>4 DEF AcceptByDefault
  <2>5. CASE Flush
    BY <2>5 DEF Flush
  <2>6. CASE DeleteChains
    BY <2>6 DEF DeleteChains
  <2>7. CASE ConfigureHostFirewall
    BY <2>7 DEF ConfigureHostFirewall
  <2>8. CASE InstallDirectories
    BY <2>8 DEF InstallDirectories
  <2>9. CASE SynchronizeSource
    BY <2>9 DEF SynchronizeSource
  <2>10. CASE InstallEnvironment
    BY <2>10 DEF InstallEnvironment
  <2>11. CASE BackUpConfiguration
    BY <2>11 DEF BackUpConfiguration, Overlook
  <2>12. CASE InstallConfiguration
    BY <2>12 DEF InstallConfiguration
  <2>13. CASE InitializeDatabase
    BY <2>13 DEF InitializeDatabase
  <2>14. CASE InstallUnits
    BY <2>14 DEF InstallUnits
  <2>15. CASE RemoveStaleFirewall
    BY <2>15 DEF RemoveStaleFirewall, CleanupChain, Rotate
  <2>16. CASE RestoreOwnership
    BY <2>16 DEF RestoreOwnership
  <2>17. CASE StartFirewall
    BY <2>17 DEF StartFirewall
  <2>18. CASE StartMonitor
    BY <2>18 DEF StartMonitor, Launch
  <2> QED
    BY <1>1, <2>1, <2>2, <2>3, <2>4, <2>5, <2>6, <2>7, <2>8, <2>9, <2>10, <2>11, <2>12, <2>13,
       <2>14, <2>15, <2>16, <2>17, <2>18 DEF Install
<1>2. CASE Verify
  <2>1. CASE CheckServices
    BY <2>1 DEF CheckServices, Check
  <2>2. CASE CheckChain
    BY <2>2 DEF CheckChain, Check, Rotate
  <2>3. CASE CheckClient
    BY <2>3 DEF CheckClient, Check
  <2> QED
    BY <1>2, <2>1, <2>2, <2>3 DEF Verify
<1>3. CASE Change \/ Apply \/ VerifyOnly \/ Fail
  <2>1. CASE Change
    BY <2>1 DEF Change
  <2>2. CASE Apply
    BY <2>2 DEF Apply
  <2>3. CASE VerifyOnly
    BY <2>3 DEF VerifyOnly
  <2>4. CASE Fail
    BY <2>4 DEF Fail, CutOff, CleanupBreaksOff
  <2> QED
    BY <1>3, <2>1, <2>2, <2>3, <2>4
<1>4. CASE Monitoring
  <2>1. CASE Refuse
    BY <2>1 DEF Refuse, Down
  <2>2. CASE Stop
    BY <2>2 DEF Stop, Down
  <2>3. CASE Restart
    BY <2>3 DEF Restart, Launch
  <2>4. CASE Settle
    BY <2>4 DEF Settle
  <2>5. CASE InsertRule
    BY <2>5 DEF InsertRule
  <2>6. CASE ActivateBlock
    BY <2>6 DEF ActivateBlock
  <2>7. CASE DeleteRule
    BY <2>7 DEF DeleteRule
  <2>8. CASE CloseBlock
    BY <2>8 DEF CloseBlock
  <2>9. CASE Disturb
    BY <2>9 DEF Disturb
  <2>10. CASE Boot
    BY <2>10 DEF Boot, CutOff, Down, Launch
  <2> QED
    BY <1>4, <2>1, <2>2, <2>3, <2>4, <2>5, <2>6, <2>7, <2>8, <2>9, <2>10 DEF Monitoring
<1>5. CASE UNCHANGED vars
  BY <1>5
<1> QED BY <1>1, <1>2, <1>3, <1>4, <1>5 DEF Next, Monitoring

LEMMA SetupStep == SetupInv /\ [Next]_vars => SetupInv'
<1> SUFFICES ASSUME SetupInv, [Next]_vars PROVE SetupInv'
  OBVIOUS
<1> USE DEF SetupInv, Promises, Progress
<1>1. CallTypes /\ FileTypes /\ UnitTypes /\ HostTypes /\ FaultTypes
  BY Parts
<1>2. TypeOK'
  <2>1. CallTypes'
    BY <1>1, CallTypeStep
  <2>2. FileTypes'
    BY <1>1, FileTypeStep
  <2>3. UnitTypes'
    BY <1>1, UnitTypeStep
  <2>4. HostTypes'
    BY <1>1, HostTypeStep
  <2>5. FaultTypes'
    BY <1>1, FaultTypeStep
  <2> QED
    BY <2>1, <2>2, <2>3, <2>4, <2>5
    DEF TypeOK, CallTypes, FileTypes, UnitTypes, HostTypes, FaultTypes
<1>3. Promises'
  BY <1>1, ServiceStep, PolicyStep, BackupStep, BaselineStep
<1>4. Progress'
  BY <1>1, ServiceStep, PolicyStep, BackupStep, BaselineStep, NewestStep
<1> QED BY <1>2, <1>3, <1>4

\* The inductive invariant: what each stage of a call can rely on.
THEOREM SetupInvariance == Spec => []SetupInv
  BY SetupInit, SetupStep, PTL DEF Spec

\* Every variable of the installer and its host keeps its type.
THEOREM SetupTypeCorrect == Spec => []TypeOK
  BY SetupInvariance, PTL DEF SetupInv, Promises

\* No process of the application runs while its parts are replaced.
THEOREM ServicesStayStopped == Spec => []NoServiceDuringReplacement
  BY SetupInvariance, PTL DEF SetupInv, Promises

\* The host accepts SSH at every moment of a reset, and after it.
THEOREM AlwaysReachable == Spec => []NeverLockedOut
  BY SetupInvariance, PTL DEF SetupInv, Promises

\* No configuration is lost, however many installations are cut off, except by a
\* "test -f" that failed.
THEOREM ConfigurationsAreKept == Spec => []ConfigurationKept
  BY SetupInvariance, PTL DEF SetupInv, Promises

\* The monitor starts on a new chain, without the client's rule, on its own files,
\* wherever the one before died.
THEOREM BaselineIsClean == Spec => []CleanStart
  BY SetupInvariance, PTL DEF SetupInv, Promises

\* A call with --apply that ends with "ready" has installed, enabled and started what
\* it was called for, and nothing else runs.
THEOREM ReadyMeansNewest == Spec => ReadyIsNewest
<1> DEFINE Announced ==
        At("check client") /\ applying /\ stage' = "ready" =>
            /\ tree = repository /\ package = repository
            /\ config = repository /\ units = repository
            /\ monitor = "active" =>
                  loaded = [package |-> repository, config |-> repository]
            /\ enabled = Units
<1>1. SetupInv => Announced
  BY DEF SetupInv, TypeOK, Progress, Newest, Checking, Verifying
<1> QED BY <1>1, SetupInvariance, PTL DEF ReadyIsNewest
=============================================================================
