----------------------------- MODULE ThreadGroupMC -----------------------------
(* Small instances of ThreadGroup: what the items do and what the clients call. *)
EXTENDS ThreadGroup, TLC

CONSTANTS w1, w2, c1, c2, i1, i2, i3, i4

\* Items that do nothing but return.
PlainScript == [i \in Items |-> <<>>]

\* The first item stops the group, as the message delivery of the runtime does,
\* and starts it again.
RestartScript == [PlainScript EXCEPT ![i1] = <<"stop", "start">>]

\* The owner and another client; nobody drains or joins from inside an item.
OpenCalls == (c1 :> {"add", "drain", "stop", "start"}) @@ (c2 :> {"drain", "destroy"})

\* The first item drains its own group and destroys it, the second adds the third
\* and joins the group.
SelfScript == [PlainScript EXCEPT ![i1] = <<"drain", "destroy">>,
                                  ![i2] = <<"add", "join">>]

\* One client adds and drains, the other may join before it destroys.
SelfCalls == (c1 :> {"add", "drain"}) @@ (c2 :> {"join", "destroy"})

\* The first item drains its own group.
DrainingScript == [PlainScript EXCEPT ![i1] = <<"drain">>]

\* A client that adds and drains.
DrainCalls == (c1 :> {"add", "drain"})

================================================================================
