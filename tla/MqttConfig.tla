----------------------------- MODULE MqttConfig -----------------------------
(***************************************************************************)
(* The configuration of the MQTT example (modules/config.c): two copies in *)
(* flash and a sector with the flag that says which one counts.  Power may *)
(* fail between any two flash operations and in the middle of a write.     *)
(***************************************************************************)
EXTENDS Integers

CONSTANT MaxVersion   \* bound: configurations that are saved

CfgAssumption == MaxVersion \in Nat \ {0}

\* What a sector may hold besides a version: nothing, or the beginning of one,
\* with its cfg_holder, the first word of SYSCFG, but without the rest.
Erased == MaxVersion + 1
Cut == MaxVersion + 2

VARIABLES
  copy,    \* the sectors CFG_LOCATION + 0 and + 1
  flag,    \* the sector CFG_LOCATION + 3: 0, 1, or anything else once erased
  sysCfg,  \* the configuration in RAM
  cfg_step, \* the step of CFG_Save, "boot" before CFG_Load, or "idle"
  stored,  \* history: the configuration last saved to the end
  saving   \* history: the one being saved, or stored

cfgVars == <<copy, flag, sysCfg, cfg_step, stored, saving>>

CfgInit ==
  /\ copy = [s \in 0 .. 1 |-> Erased]
  /\ flag = Erased
  /\ sysCfg = 0 /\ stored = 0 /\ saving = 0
  /\ cfg_step = "boot"

-----------------------------------------------------------------------------
\* The copy the flag names: an erased flag reads as a number that is not 0.
Current == IF flag = 0 THEN 0 ELSE 1

\* The copy that counts is the one that is written.
TargetInPlace == IF flag = 0 THEN 0 ELSE 1

\* The copy CFG_Save writes, and the flag it ends with.
Target == IF flag = 0 THEN 1 ELSE 0

\* CFG_Load: without the cfg_holder, the defaults, which are saved at once.
CFG_Load ==
  /\ cfg_step = "boot"
  /\ sysCfg' = IF copy[Current] = Erased THEN 0 ELSE copy[Current]
  /\ cfg_step' = IF copy[Current] = Erased THEN "erase" ELSE "idle"
  /\ stored' = IF copy[Current] = Erased THEN stored ELSE sysCfg'
  /\ saving' = sysCfg'
  /\ UNCHANGED <<copy, flag>>

\* The application changes its configuration and calls CFG_Save.
CFG_Save ==
  /\ cfg_step = "idle" /\ sysCfg < MaxVersion
  /\ sysCfg' = sysCfg + 1 /\ saving' = sysCfg + 1
  /\ cfg_step' = "erase"
  /\ UNCHANGED <<copy, flag, stored>>

EraseCopy ==
  /\ cfg_step = "erase"
  /\ copy' = [copy EXCEPT ![Target] = Erased]
  /\ cfg_step' = "write"
  /\ UNCHANGED <<flag, sysCfg, stored, saving>>

WriteCopy ==
  /\ cfg_step = "write"
  /\ copy' = [copy EXCEPT ![Target] = sysCfg]
  /\ cfg_step' = IF Target = 1 THEN "flag1" ELSE "flag0"
  /\ UNCHANGED <<flag, sysCfg, stored, saving>>

\* saveFlag.flag was read at the start and is changed in RAM.
EraseFlag ==
  /\ cfg_step \in {"flag0", "flag1"}
  /\ flag' = Erased
  /\ cfg_step' = IF cfg_step = "flag1" THEN "set1" ELSE "set0"
  /\ UNCHANGED <<copy, sysCfg, stored, saving>>

WriteFlag ==
  /\ cfg_step \in {"set0", "set1"}
  /\ flag' = IF cfg_step = "set1" THEN 1 ELSE 0
  /\ cfg_step' = "idle"
  /\ stored' = sysCfg
  /\ UNCHANGED <<copy, sysCfg, saving>>

\* Power fails; a write that was to come, or was under way, is missing or cut off.
CfgPowerLost ==
  /\ cfg_step # "boot"
  /\ \/ copy' = copy
     \/ cfg_step = "write" /\ copy' = [copy EXCEPT ![Target] = Cut]
  /\ cfg_step' = "boot"
  /\ UNCHANGED <<flag, sysCfg, stored, saving>>

CfgNext ==
  \/ CFG_Load \/ CFG_Save
  \/ EraseCopy \/ WriteCopy \/ EraseFlag \/ WriteFlag
  \/ CfgPowerLost

CfgSpec == CfgInit /\ [][CfgNext]_cfgVars

-----------------------------------------------------------------------------
\* Whenever power fails in CFG_Save, between which two flash operations ever
\* and however often, CFG_Load finds the configuration saved last or the one
\* that was being saved: never one that is cut off, and the defaults only if
\* none had been saved to the end.
ConfigSurvives ==
  /\ cfg_step = "boot" =>
       \/ copy[Current] \in {stored, saving}
       \/ copy[Current] = Erased /\ stored = 0
  /\ sysCfg # Cut
=============================================================================
