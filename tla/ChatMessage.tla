---------------------------- MODULE ChatMessage ----------------------------
(***************************************************************************)
(* The messages every wschat server exchanges with its users, and what the *)
(* models say about the stream of messages one user receives.              *)
(*                                                                         *)
(* A message keeps the fields the properties tell apart:                   *)
(*   action  the action, as the string that goes on the wire               *)
(*   user    the UUID the message is about: the contents of a system       *)
(*           message, the sender of a chat                                 *)
(*   n       the contents of a chat, numbered from 1 by its sender;        *)
(*           0 in a system message                                         *)
(* The timestamp is left out: no property reads it.                        *)
(***************************************************************************)
EXTENDS Naturals, Sequences

Message(Actions, Users, Texts) == [action : Actions, user : Users, n : {0} \cup Texts]

NewSystemMessage(action, user) == [action |-> action, user |-> user, n |-> 0]

NewChatMessage(action, user, n) == [action |-> action, user |-> user, n |-> n]

-----------------------------------------------------------------------------
(* Streams of messages *)

\* The message m occurs in the stream s.
Heard(s, m) == \E i \in DOMAIN s : s[i] = m

\* No message occurs twice in s.
NoRepeats(s) == \A i, j \in DOMAIN s : s[i] = s[j] => i = j

\* In s, m never occurs after m2.
NotAfter(s, m, m2) == \A i, j \in DOMAIN s : s[i] = m /\ s[j] = m2 => i < j

\* s is what remains of t once some first messages are dropped.
SuffixOf(s, t) ==
    /\ Len(s) <= Len(t)
    /\ \A i \in 1..Len(s) : s[i] = t[Len(t) - Len(s) + i]

\* Two users who see the same room: one joined at some point of the other's stream
\* and both saw the same messages in the same order since.
Agree(s, t) == SuffixOf(s, t) \/ SuffixOf(t, s)
=============================================================================
