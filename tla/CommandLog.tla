----------------------------- MODULE CommandLog -----------------------------
(* What a durable replica promises its callers, whatever happens to its       *)
(* process: the commands it would come back with form a log that only grows,  *)
(* one command at a time and none twice, and a command is acknowledged only   *)
(* when it is in that log.                                                    *)
EXTENDS Sequences, SequencesExt

CONSTANT Command

VARIABLES log, acked

Init == log = <<>> /\ acked = {}

Accept ==
    /\ \E cmd \in Command \ ToSet(log) : log' = Append(log, cmd)
    /\ UNCHANGED acked

Acknowledge ==
    /\ \E cmd \in ToSet(log) : acked' = acked \cup {cmd}
    /\ UNCHANGED log

Next == Accept \/ Acknowledge

Spec == Init /\ [][Next]_<<log, acked>>
=============================================================================
