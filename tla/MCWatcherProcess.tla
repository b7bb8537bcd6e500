--------------------------- MODULE MCWatcherProcess ---------------------------
(***************************************************************************)
(* Environments of WatcherProcess, which a configuration file cannot spell *)
(* out.                                                                    *)
(***************************************************************************)
EXTENDS WatcherProcess

CONSTANT e2

\* Two chains, everything set or left to its default.
Sound == [startHeight |-> [ch \in Configured |-> "unset"], urls |-> Configured,
          wsRpcs |-> NumRpcs, delay |-> "prefixed", numbers |-> "number", wallet |-> TRUE]

\* As above; a chain without a URL; fewer websockets than RPC nodes.
SomeEnvironments ==
    {Sound, [Sound EXCEPT !.urls = Configured \ {e2}],
            [Sound EXCEPT !.wsRpcs = NumRpcs - 1]}

=============================================================================
