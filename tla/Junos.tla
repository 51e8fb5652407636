------------------------------- MODULE Junos -------------------------------
(***************************************************************************)
(* A Junos device as the tool uses it through PyEZ Config: a running       *)
(* configuration, rollback 1, one shared candidate and the timer of a      *)
(* confirmed commit.  A configuration is a set of statements.              *)
(*                                                                         *)
(* Every commit, the confirming one and the automatic rollback included,   *)
(* moves the configuration it replaces to rollback 1: this is why          *)
(* qfx_stage_cli._rollback_pair takes a confirmed device back with inverse *)
(* statements and an unconfirmed one with rollback 1.                      *)
(***************************************************************************)

NewDevice(config) == [running |-> config, prior |-> config,
                      candidate |-> config, pending |-> FALSE]

Commit(d) == [d EXCEPT !.running = d.candidate, !.prior = d.running,
                       !.pending = FALSE]
CommitConfirmed(d) == [Commit(d) EXCEPT !.pending = TRUE]

LoadRollback1(d) == [d EXCEPT !.candidate = d.prior]
Discard(d) == [d EXCEPT !.candidate = d.running]

(* load(payload, format="set", merge=True) of set or delete statements     *)
Merge(d, statements) == [d EXCEPT !.candidate = d.candidate \cup statements]
Remove(d, statements) == [d EXCEPT !.candidate = d.candidate \ statements]

(* commit_check() validates the candidate.  Junos also lets it confirm a    *)
(* commit that waits for confirmation; the tool relies on neither.         *)
CommitChecks(d) == {d, [d EXCEPT !.pending = FALSE]}

(* The confirm window closes without a further commit.                     *)
AutoRollback(d) == Commit(LoadRollback1(d))

Diff(d) == <<d.candidate \ d.running, d.running \ d.candidate>>
Clean(d) == d.candidate = d.running

DeviceType(config) == [running : SUBSET config, prior : SUBSET config,
                       candidate : SUBSET config, pending : BOOLEAN]
=============================================================================
