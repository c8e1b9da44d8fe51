------------------------------- MODULE MCLoad -------------------------------
(* LoadClient on small instances. *)
EXTENDS LoadClient

Mode(test, sameStart, badAddr) == [test |-> test, sameStart |-> sameStart, badAddr |-> badAddr]

\* Test mode without -same-start, with an address that webs.NewConfig refuses.
Unawaited == {Mode(TRUE, FALSE, TRUE)}

\* Every other way to call the tester.
OtherModes == {Mode(t, s, b) : t, s, b \in BOOLEAN} \ Unawaited
=============================================================================
