------------------------------ MODULE MCFront -------------------------------
(* CppFront on a small instance. *)
EXTENDS CppFront

\* Every way to call the program wrongly, and a port beyond the width.
MCArgs ==
    {[addr |-> a, port |-> 1, workers |-> 0] : a \in {"missing", "no_colon", "no_ip", "no_port"}}
    \cup {[addr |-> "valid", port |-> 1, workers |-> 2],
          [addr |-> "valid", port |-> 5, workers |-> 0]}

Request(k, t, ka) == [kind |-> k, target |-> t, keep_alive |-> ka]

\* Talkers may do anything; the others only show that more than one is accepted.
MCAsks ==
    [p \in Peers |->
        IF p \in Talkers
        THEN {Request(k, "/", TRUE) : k \in {"plain", "upgrade", "no_key", "malformed"}}
             \cup {Request("plain", "*", FALSE)}
        ELSE {}]

\* A well-formed message, its timestamp beyond int64_t; what its action may be instead;
\* all left out but the sender, or the sender; no JSON.
Good == [sender |-> <<"string", "u">>, action |-> <<"string", "disconnect">>,
         contents |-> <<"string", "hi">>, timestamp |-> <<"unsigned", 3>>]

MCTexts ==
    {<<"garbage">>, <<"object", Good>>, <<"object", [sender |-> Good.sender]>>,
     <<"object", [Good EXCEPT !.action = <<"string", "shout">>]>>,
     <<"object", [f \in DOMAIN Good \ {"sender"} |-> Good[f]]>>}
=============================================================================
