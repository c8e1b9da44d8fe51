------------------------------ MODULE ChatRoom ------------------------------
(***************************************************************************)
(* What the README promises of a wschat server, as one atomic room: every  *)
(* connection, chat and disconnection is seen, in one order, by everybody  *)
(* who is in the room, and a user's own "connect" is the first thing they  *)
(* see.  A server implements it when its registry of users, and the        *)
(* messages it has accepted for each of them, move like this.              *)
(***************************************************************************)
EXTENDS ChatMessage

CONSTANTS Users,     \* everybody who may ever connect
          Texts,     \* what may be said
          ActionStr  \* the wire name of each action, a record

VARIABLES members,   \* who is in the room
          left,      \* who was and has been announced as disconnected
          up,        \* whose connection still accepts messages
          inbox      \* inbox[u]: the messages accepted for u, in order

vars == <<members, left, up, inbox>>

Connected(u)    == NewSystemMessage(ActionStr.Connect, u)
Said(u, t)      == NewChatMessage(ActionStr.Chat, u, t)
Disconnected(u) == NewSystemMessage(ActionStr.Disconnect, u)

Init ==
    /\ members = {}
    /\ left = {}
    /\ up = Users
    /\ inbox = [u \in Users |-> <<>>]

\* m goes to everybody of S who can still be reached.
Post(S, m) ==
    inbox' = [u \in Users |-> IF u \in S \cap up THEN Append(inbox[u], m) ELSE inbox[u]]

\* u enters; the others and u itself are told.
Join(u) ==
    /\ u \notin members \cup left
    /\ Post(members \cup {u}, Connected(u))
    /\ members' = members \cup {u}
    /\ UNCHANGED <<left, up>>

\* u says t; everybody, u included, is told.
Say(u, t) ==
    /\ u \in members
    /\ Post(members, Said(u, t))
    /\ UNCHANGED <<members, left, up>>

\* u's connection ends; the room does not know yet.
Hangup(u) ==
    /\ up' = up \ {u}
    /\ UNCHANGED <<members, left, inbox>>

\* The room learns that u is gone.
Leave(u) ==
    /\ u \in members \ up
    /\ Post(members, Disconnected(u))
    /\ members' = members \ {u}
    /\ left' = left \cup {u}
    /\ UNCHANGED up

Next == \E u \in Users : Join(u) \/ (\E t \in Texts : Say(u, t)) \/ Hangup(u) \/ Leave(u)

Spec == Init /\ [][Next]_vars

-----------------------------------------------------------------------------
\* Any two users in the room have seen the same messages in the same order since
\* the later of the two joined.
Agreement == \A u, v \in members \cap up : Agree(inbox[u], inbox[v])

\* The first message a user receives is their own "connect".
OwnConnectFirst ==
    \A u \in Users : inbox[u] # <<>> => inbox[u][1] = Connected(u)

\* Of any two users in the room, one has been told that the other connected.
Visibility ==
    \A u, v \in members \cap up :
        Heard(inbox[u], Connected(v)) \/ Heard(inbox[v], Connected(u))
=============================================================================
