----------------------------- MODULE DurableLog -----------------------------
(***************************************************************************)
(* What the durable database promises, without files, frames or replay: an *)
(* append-only log of committed transactions, of which a crash may cut an  *)
(* unconfirmed end and nothing else, and a view that is always the end of  *)
(* that log.                                                               *)
(***************************************************************************)
EXTENDS Integers, Sequences

CONSTANTS
    Tx, NoTx,
    Start,         \* the state of an empty log
    Results(_)     \* the states one transaction may lead to from a state

VARIABLES
    log,      \* commits, and marks that have no effect
    stable,   \* log[1..stable] survives every crash
    acked,    \* transactions confirmed to their callers
    view      \* {} or what the open database shows

vars == <<log, stable, acked, view>>

Mark == [tx |-> NoTx, state |-> Start]

Commits(l) == {i \in DOMAIN l : l[i].tx # NoTx}

Committed(l) == {l[i].tx : i \in Commits(l)}

\* s is the state after the last commit in l.
IsLast(l, s) ==
    \/ Commits(l) = {} /\ s = Start
    \/ \E i \in Commits(l) : s = l[i].state /\ \A j \in Commits(l) : j <= i

Shows(l, v) == \E s \in {x.state : x \in v} :
                  IsLast(l, s) /\ v = {[state |-> s, committed |-> Committed(l)]}

Init == log = <<>> /\ stable = 0 /\ acked = {} /\ Shows(log, view)

\* One transaction, applied to the state the log ends in, goes to the end.
Commit(t) ==
    /\ view = {}
    /\ t \notin Committed(log)
    /\ \E s \in {Start} \cup {log[i].state : i \in Commits(log)} :
          /\ IsLast(log, s)
          /\ \E r \in Results(s) :
                log' = Append(log, [tx |-> t, state |-> r])
    /\ UNCHANGED <<stable, acked, view>>

Confirm(t) ==
    /\ t \in Committed(log)
    /\ stable' = Len(log)
    /\ acked' = acked \cup {t}
    /\ Shows(log, view')
    /\ UNCHANGED log

Harden == stable' = Len(log) /\ UNCHANGED <<log, acked, view>>

\* The database is busy or closed; a mark may be written.
Hide ==
    /\ log' \in {log, Append(log, Mark)}
    /\ view' = {}
    /\ UNCHANGED <<stable, acked>>

Show == Shows(log, view') /\ UNCHANGED <<log, stable, acked>>

\* A crash keeps the first n entries.
Cut(n) ==
    /\ n \in stable .. Len(log)
    /\ log' \in {SubSeq(log, 1, n), Append(SubSeq(log, 1, n), Mark)}
    /\ stable' = n
    /\ view' = {}
    /\ UNCHANGED acked

\* A mark at the end is removed; a crash may have made it permanent.
Repair ==
    /\ log # <<>>
    /\ log[Len(log)] = Mark
    /\ log' = SubSeq(log, 1, Len(log) - 1)
    /\ stable' = Len(log) - 1
    /\ view = {}
    /\ UNCHANGED <<acked, view>>

Next ==
    \/ \E t \in Tx : Commit(t) \/ Confirm(t)
    \/ Harden
    \/ Hide
    \/ Show
    \/ Repair
    \/ \E n \in 0 .. Len(log) : Cut(n)

Spec == Init /\ [][Next]_vars
=============================================================================
