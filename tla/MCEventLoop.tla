----------------------------- MODULE MCEventLoop -----------------------------
EXTENDS EventLoop, TLC

CONSTANTS io1, io2, defer1, defer2, post1, exit1

KnownTypes == (io1 :> "io") @@ (io2 :> "io") @@ (defer1 :> "defer") @@ (defer2 :> "defer")
                @@ (post1 :> "post") @@ (exit1 :> "exit")
MCTypeOf == [s \in Sources |-> KnownTypes[s]]
=============================================================================
