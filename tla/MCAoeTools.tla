----------------------------- MODULE MCAoeTools -----------------------------
(* A small instance of AoeTools for TLC.                                   *)
EXTENDS AoeTools, TLC

CONSTANTS e1, e2

\* Threads that find a target each and one in common, with no other program.
Racing == [sees |-> (e1 :> {1, 3}) @@ (e2 :> {2, 3}),
           start |-> <<0, 0>>, want |-> "none", usec |-> 0, ask |-> "none", drv |-> {}]

\* All three programs on the same devices: aoeping with its default tag and an
\* aoecfg that meets it; both apart from all others; and aoeping at the last tag,
\* with a command of the driver at the first one.
Both == (e1 :> {1, 3}) @@ (e2 :> {})
Clashing == [sees |-> Both,
             start |-> <<0, 0>>, want |-> "smart", usec |-> 1, ask |-> "all",
             drv |-> {<<40000, 70000>>}]
Apart == [sees |-> Both,
          start |-> <<9, 9>>, want |-> "smart", usec |-> 500000, ask |-> "one",
          drv |-> {<<40000, 70000>>, <<65535, 9>>}]
AtEnd == [sees |-> Both,
          start |-> <<Half - 1, Half - 1>>, want |-> "ident", usec |-> 500000, ask |-> "all",
          drv |-> {<<0, 0>>}]
SomeSetup == {Racing, Clashing, Apart, AtEnd}
=============================================================================
