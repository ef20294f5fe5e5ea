------------------------------ MODULE FlushedLog ------------------------------
(***************************************************************************)
(* What RequestLogger promises, as if nothing lay between a caller and the *)
(* file: an entry is accepted once; the file is what was accepted, in that *)
(* order, as far as it got; a flush returns when everything accepted       *)
(* before it was called is in the file.                                    *)
(*                                                                         *)
(* The code has a bounded channel, permits, one writer task and callers    *)
(* that leave: module LogQueue, which implements this one.                 *)
(***************************************************************************)
EXTENDS Integers, Sequences

CONSTANTS
    Entries,        \* what may be logged
    Flushers        \* callers of flush

VARIABLES
    accepted,   \* entries whose log returned, in order
    written,    \* entries in the file, in order
    asked,      \* flush -> what was accepted when it was called
    flush       \* flush -> "off", "waiting", "done" or "gone"

vars == <<accepted, written, asked, flush>>

Elements(q) == {q[i] : i \in DOMAIN q}

Init ==
    /\ accepted = <<>> /\ written = <<>>
    /\ asked = [f \in Flushers |-> {}]
    /\ flush = [f \in Flushers |-> "off"]

\* log returns.
Accept(e) ==
    /\ e \notin Elements(accepted)
    /\ accepted' = Append(accepted, e)
    /\ UNCHANGED <<written, asked, flush>>

\* The next entry reaches the file.
Write ==
    /\ Len(written) < Len(accepted)
    /\ written' = Append(written, accepted[Len(written) + 1])
    /\ UNCHANGED <<accepted, asked, flush>>

\* flush is called, and returns, or its caller is dropped.
Ask(f) ==
    /\ flush[f] = "off" /\ flush' = [flush EXCEPT ![f] = "waiting"]
    /\ asked' = [asked EXCEPT ![f] = Elements(accepted)]
    /\ UNCHANGED <<accepted, written>>

Return(f) ==
    /\ flush[f] = "waiting" /\ asked[f] \subseteq Elements(written)
    /\ flush' = [flush EXCEPT ![f] = "done"]
    /\ UNCHANGED <<accepted, written, asked>>

Leave(f) ==
    /\ flush[f] = "waiting" /\ flush' = [flush EXCEPT ![f] = "gone"]
    /\ UNCHANGED <<accepted, written, asked>>

Next ==
    \/ \E e \in Entries : Accept(e)
    \/ Write
    \/ \E f \in Flushers : Ask(f) \/ Return(f) \/ Leave(f)

Spec == Init /\ [][Next]_vars
=============================================================================
