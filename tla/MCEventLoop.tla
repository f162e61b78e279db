---------------------------- MODULE MCEventLoop ----------------------------
(* Small instances of EventLoop for TLC. *)
EXTENDS EventLoop, TLC

CONSTANTS c1, c2, ls

NoneUnhandled == {}
(* A connection whose program only waits to write. *)
WriteOnly == {<<c1, "read">>}

Symmetry == Permutations({c1, c2} \cap (Conns \ Listeners))
=============================================================================
