--------------------------- MODULE MessageReplicas ---------------------------
(***************************************************************************)
(* What a network of hubs promises about the messages of the protocol,     *)
(* whatever the wire protocol between them: a hub learns a message from a  *)
(* client that publishes it there, or copies it from another hub that has  *)
(* it, and never forgets one ("if one goes down, others still have the     *)
(* data", README.md:5).  GossipSync is shown to implement this.            *)
(***************************************************************************)
CONSTANTS Hubs, Msgs,
          Origins      \* Origins[m]: the hubs a client may submit m to

VARIABLE held        \* held[h]: the messages hub h has stored

Init == held = [h \in Hubs |-> {}]

\* A client hands m to hub h.
Publish(h, m) ==
    /\ m \notin held[h]
    /\ held' = [held EXCEPT ![h] = @ \cup {m}]

\* Hub h copies m from some hub that has it.
Replicate(h, m) ==
    /\ m \notin held[h]
    /\ \E p \in Hubs \ {h} : m \in held[p]
    /\ held' = [held EXCEPT ![h] = @ \cup {m}]

Next ==
    \E h \in Hubs, m \in Msgs :
        \/ h \in Origins[m] /\ Publish(h, m)
        \/ Replicate(h, m)

Spec == Init /\ [][Next]_held
=============================================================================
