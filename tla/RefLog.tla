------------------------------- MODULE RefLog -------------------------------
(***************************************************************************)
(* What GitStore (gitdata.go) promises its callers about one branch of a   *)
(* state repository, free of clones, locks, pushes and working trees: the  *)
(* branch is a log of mutations, each appended at most once and never      *)
(* taken back, and a caller is told "committed" only of a mutation that is *)
(* in the log.                                                             *)
(***************************************************************************)
EXTENDS Sequences

CONSTANT Mutations

VARIABLES log,          \* the mutations on the branch, oldest first
          acked         \* the mutations whose caller was told "committed"

InLog(m) == \E i \in DOMAIN log : log[i] = m

LogInit == log = <<>> /\ acked = {}

Land(m) == /\ ~InLog(m)
           /\ log' = Append(log, m)
           /\ UNCHANGED acked

Ack(m) == /\ InLog(m)
          /\ acked' = acked \union {m}
          /\ UNCHANGED log

LogNext == \E m \in Mutations : Land(m) \/ Ack(m)

LogSpec == LogInit /\ [][LogNext]_<<log, acked>>
=============================================================================
