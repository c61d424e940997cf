------------------------------ MODULE EventLog ------------------------------
(***************************************************************************)
(* What SimFlow promises of its operational history, whatever the number   *)
(* of server processes that write to it: records are only ever appended, a *)
(* record that carries an idempotency key enters the history at most once, *)
(* and a caller is only told of records that are in the history.           *)
(*                                                                         *)
(* runtime/simflow_core/records.py is shown to implement this by           *)
(* RecordStore (property Abstract).                                        *)
(***************************************************************************)
EXTENDS Naturals, Sequences

CONSTANT NoKey   \* the key of a record written without an idempotency key

VARIABLES
    log,        \* the history: a sequence of records
    acked       \* the records some caller was told of

lvars == <<log, acked>>

KeyUnused(e) ==
    e.key # NoKey => \A i \in 1..Len(log) : log[i].key # e.key

LogInit ==
    /\ log = <<>>
    /\ acked = {}

\* Any record may be appended, if its key is new.
LogAppend ==
    /\ Len(log') = Len(log) + 1
    /\ KeyUnused(log'[Len(log')])
    /\ log' = Append(log, log'[Len(log')])
    /\ UNCHANGED acked

\* A caller is told of a record of the history.
LogAck ==
    /\ \E i \in 1..Len(log) : acked' = acked \cup {log[i]}
    /\ UNCHANGED log

LogNext == LogAppend \/ LogAck

LogSpec == LogInit /\ [][LogNext]_lvars
=============================================================================
