----------------------------- MODULE MCGateway -----------------------------
(* Instances of Gateway for TLC.                                           *)
EXTENDS Gateway, TLC

CONSTANTS r1, r2, r3

Body(model, user, stream) ==
    [path |-> "chat", prompt |-> "q", model |-> model, user |-> user,
     stream |-> stream, object |-> TRUE]

\* p2 rewrites the model, p3 has no weight and serves messages only.
MCProviders == {"p1", "p2", "p3"}
MCActive == {"p1", "p2"}
MCCapable == [chat |-> {"p1", "p2"}, messages |-> {"p3"}]
MCOverride == [p1 |-> None, p2 |-> "m2", p3 |-> None]

Posted(body, pin) == [content |-> body, pin |-> pin, post |-> TRUE]
Plain == Body("m1", "u1", FALSE)

\* A request, the same from another user, one for the other model, the first
\* pinned to the provider that cannot serve it, a stream, no JSON object,
\* another method, and a path that no active provider serves.
MCCalls ==
    {Posted(Plain, None),
     Posted(Body("m1", "u2", FALSE), "p1"),
     Posted(Body("m2", "u1", FALSE), "p1"),
     Posted(Plain, "p3"),
     Posted(Body("m2", "u1", TRUE), "p2"),
     Posted([Plain EXCEPT !.object = FALSE, !.prompt = "text"], "p1"),
     [content |-> Plain, pin |-> "p1", post |-> FALSE],
     Posted([Plain EXCEPT !.path = "messages"], None)}

\* One question asked again and again.
MCSameCall == {Posted(Plain, "p1")}

Symmetry == Permutations(Requests)
=============================================================================
