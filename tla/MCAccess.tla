------------------------------ MODULE MCAccess ------------------------------
EXTENDS Access, TLC

CONSTANTS ann, bob, cid, c1, c2, e1, e2, e3

MCCompanyOf == [u \in Users |-> IF u = cid THEN c2 ELSE c1]
MCFirstAdmin == [c \in Companies |-> IF c = c1 THEN ann ELSE cid]

\* The first email is the one of the first administrator.
Symmetry == Permutations({e2, e3})

\* What the guards and the properties tell apart: of a version, whether the setup
\* in flight has read it; of the changes of a user's access and of the auth
\* version, whether they are still what they were at the sign-in, as both only
\* grow; and of a user's state, whether it is ready.
Told ==
    <<[u \in Users |->
         IF Exists(u) THEN [row[u] EXCEPT !.version = 0, !.auth = 0, !.sync = (@ = "ready")]
         ELSE row[u]],
      company, idp, holder, cut, crossed, requests,
      [k \in Callers |->
         IF setup[k] = Idle THEN Idle ELSE [setup[k] EXCEPT !.version = Unchanged(k)]],
      [s \in Sessions |->
         IF session[s] = None THEN None
         ELSE [login |-> session[s].login,
               users |-> [u \in Users |->
                            <<Exists(u) /\ session[s].auth[u] = row[u].auth,
                              session[s].changes[u] = changes[u]>>]]]>>
=============================================================================
