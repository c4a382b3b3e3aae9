----------------------------- MODULE MCPlayback -----------------------------
(* Recordings with events that share a millisecond, a long gap, a late start. *)
EXTENDS Playback

Rec(session, what, place, weight) ==
  [session |-> session, what |-> what, place |-> place, weight |-> weight]

Auth == <<"src", "auth">>
Docs == <<"docs", "api">>
Districts == {Auth, Docs}
ByName == [p \in Districts |-> IF p = Docs THEN 1 ELSE 2]

\* A checkout is announced before it is touched, as sessions do at their start.
Announced ==
  { Rec(<<0, 1, 1, 4>>, <<"cwd", "touch", "local", "local">>,
        <<Auth, Auth, Auth, Docs>>, <<0, 4, 16, 8>>),
    Rec(<<0, 0, 0, 6, 7>>, <<"local", "cwd", "other", "touch", "local">>,
        <<Docs, Auth, Auth, Docs, Docs>>, <<64, 0, 0, 4, 2>>),
    Rec(<<2, 2, 5>>, <<"cwd", "local", "touch">>,
        <<Auth, Docs, Docs>>, <<0, 4, 2>>) }

\* It is touched before anything names it.
Unannounced == { Rec(<<0, 1, 2>>, <<"touch", "cwd", "touch">>, <<Auth, Auth, Auth>>, <<4, 0, 4>>) }
=============================================================================
