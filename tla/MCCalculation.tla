--------------------------- MODULE MCCalculation -----------------------------
(***************************************************************************)
(* Calculation.tla for TLC.  Buffers: three ways from fg down to rm,       *)
(* directly, over sub, and over sub and part.  Schedule: two items on a    *)
(* cutting machine with a changeover and two sewing machines; books of up  *)
(* to five units.                                                          *)
(***************************************************************************)
EXTENDS Calculation, TLC

CONSTANTS fg, sub, part, rm, cut, sew, A, B

Uses(p, c) ==
  CASE <<p, c>> = <<fg, rm>> -> 2
    [] <<p, c>> \in {<<fg, sub>>, <<sub, part>>, <<sub, rm>>, <<part, rm>>} -> 1
    [] OTHER -> 0
MCUsage == [p \in Parts |-> [c \in Parts |-> Uses(p, c)]]

MCPolicies == [i \in Parts |->
  CASE i = rm -> {"standard", "weekly"}
    [] i = part -> {"standard", "weekly", "missing", "order"}
    [] OTHER -> {"standard", "weekly", "missing", "order", "none"}]

Each(a, b, c, d) == [i \in Parts |-> CASE i = fg -> a [] i = sub -> b [] i = part -> c [] i = rm -> d]
MCDlts == {Each(2, 1, 1, 2), Each(2, 2, 3, 1)}

Asks(i, d, q) == [item |-> i, due |-> d, qty |-> q]
MCBooks == {{}, {Asks(fg, 0, 1), Asks(fg, 2, 1)}, {Asks(fg, 2, 2)}, {Asks(sub, 1, 2), Asks(fg, 3, 1)},
            {Asks(fg, 1, 1), Asks(rm, 1, 1)}}

Make(i, d, q, ins) == [item |-> i, due |-> d, qty |-> q, inserted |-> ins]
MCMakes == {{}, {Make(fg, 2, 1, FALSE)}, {Make(sub, 1, 2, TRUE), Make(fg, 1, 6, TRUE)}}

MCStocks == {Each(0, 4, 1, 9), Each(3, 0, 6, 20)}
MCAsides == {[scheme |-> Each(0, 0, 0, 0), waits |-> Each(0, 0, 0, 0)],
             [scheme |-> Each(1, 0, 0, 0), waits |-> Each(0, 2, 0, 0)]}
MCTops == [red |-> 2, yellow |-> 4, green |-> 5]

-----------------------------------------------------------------------------
MCRoutes == A :> <<[res |-> cut, work |-> 2], [res |-> sew, work |-> 2]>> @@ B :> <<[res |-> cut, work |-> 1]>>
MCMachines == cut :> 1 @@ sew :> 2
MCChangeover == cut :> 1 @@ sew :> 1

Plain(id, item, due) ==
    [id |-> id, oid |-> id, item |-> item, qty |-> 1, due |-> due, prom |-> due, lot |-> 1,
     lotDay |-> 0, front |-> FALSE, rush |-> FALSE, before |-> 0, alone |-> FALSE,
     released |-> 0, hold |-> 0, plan |-> 0, manual |-> FALSE]

\* Lots of an inserted order: one at the front, two on their days.
Inserts ==
    LET lot(id, day, n) == [Plain(id, A, day) EXCEPT !.oid = 4, !.lot = n, !.lotDay = day,
                                                     !.prom = 2, !.alone = TRUE]
    IN  {{[lot(4, 2, 1) EXCEPT !.front = TRUE, !.due = 0]}, {lot(4, 1, 1), lot(5, 2, 2)}}

Stopped == {[machine |-> <<cut, 1>>, from |-> 0, to |-> 1], [machine |-> <<cut, 1>>, from |-> 4, to |-> 7],
            [machine |-> <<sew, 1>>, from |-> 4, to |-> 5]}

Orders(dues) == {{Plain(1, a, d), Plain(2, b, e), Plain(3, c, f)} :
                    a \in {A, B}, b \in {A, B}, c \in {A, B}, d \in dues, e \in dues, f \in dues}
\* Order 3 was released; a planner holds order 2.
Decided(units) == {[u EXCEPT !.released = IF u.id = 3 THEN 1 ELSE 0,
                            !.hold = IF u.id = 2 THEN 2 ELSE 0] : u \in units}

MCCases ==
    [book : {b \cup x : b \in Orders({1, 2, 3}), x \in Inserts \cup {{}}}, stops : {{}},
     manual : {<<>>}, plan : {<<>>}]
    \cup [book : {Decided(b) \cup x : b \in Orders({1, 2}), x \in Inserts}, stops : {Stopped},
          manual : {<<>>, <<3, 4, 1>>}, plan : {<<>>, <<[ids |-> <<2, 4>>, day |-> 2, before |-> 1]>>}]
=============================================================================
