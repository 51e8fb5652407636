-------------------------- MODULE MCQfxTransaction --------------------------
(***************************************************************************)
(* Small instances of QfxTransaction.  The management and the recovery     *)
(* VLAN are the baseline, one production VLAN is required, one more comes  *)
(* from an administrator.                                                  *)
(***************************************************************************)
EXTENDS QfxTransactionProofs

CONSTANTS management, recovery, data, other

MCBaseline == {management, recovery}
MCRequired == {data}
MCForeign == {other}
=============================================================================
