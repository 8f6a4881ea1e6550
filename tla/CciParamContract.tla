-------------------------- MODULE CciParamContract --------------------------
(* A parameter used from one process implements ParamContract: its pending    *)
(* proposal is the operation whose pre-write callbacks are running.           *)
EXTENDS CciParam

Validating ==
  {f \in UNION {{stack[p][i] : i \in 1..Len(stack[p])} : p \in Proc} :
     f.kind = "pre_write"}

Contract == INSTANCE ParamContract WITH
  InitialPreset <- {pr.value : pr \in Presets \ {NoPreset}},
  NoProposal <- NoValue,
  SecretKey <- Key \ WriterPwd,
  lock <- lockPwd,
  proposal <- IF Validating = {} THEN NoValue
              ELSE (CHOOSE f \in Validating : TRUE).new

(* Whatever the callbacks call, the value changes by a write that starts with *)
(* nothing under validation and, if the parameter is locked, with the key, or *)
(* by the landing of the one write under validation (cci_param_typed.h,       *)
(* set_raw_value, preset_cci_value, reset and set_value's fast path).         *)
ImplementsContract == Contract!Spec
=============================================================================
