----------------------------- MODULE CommitLog -----------------------------
(***************************************************************************)
(* What the journal promises: one log of bundles, each extending the       *)
(* frontier of the one before it, that grows at its tip.  A power loss may *)
(* forget a tail nobody was told about, never a bundle whose commit was    *)
(* acknowledged, and never leaves a gap or another bundle in its place.    *)
(***************************************************************************)
EXTENDS Integers, Sequences

CONSTANTS Bundles,      \* bundle identities
          PredOf,       \* frontier a bundle extends
          NextOf,       \* frontier it leads to
          HeightOf,     \* its height
          GenesisNext   \* frontier of an empty journal

VARIABLES log,      \* the committed bundles by height
          acked     \* bundles some commit call acknowledged

vars == <<log, acked>>

Frontier(l) == IF l = <<>> THEN GenesisNext ELSE NextOf[l[Len(l)]]

Init == log = <<>> /\ acked = {}

\* A bundle that extends the tip joins the log.
Publish(b) ==
    /\ PredOf[b] = Frontier(log)
    /\ HeightOf[b] = Len(log) + 1
    /\ log' = Append(log, b)
    /\ UNCHANGED acked

\* A commit of the tip returns to its caller.
Acknowledge ==
    /\ log # <<>>
    /\ acked' = acked \cup {log[Len(log)]}
    /\ UNCHANGED log

\* A power loss drops a tail that holds no acknowledged bundle.
Forget(n) ==
    /\ acked \subseteq {log[i] : i \in 1..n}
    /\ log' = SubSeq(log, 1, n)
    /\ UNCHANGED acked

Next ==
    \/ \E b \in Bundles : Publish(b)
    \/ Acknowledge
    \/ \E n \in 0..Len(log) : Forget(n)

Spec == Init /\ [][Next]_vars
=============================================================================
