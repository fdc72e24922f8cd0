------------------------------- MODULE Buffers --------------------------------
(***************************************************************************)
(* The calculation of the material buffers of one plant: planPlant of      *)
(* packages/engines/ddmrp.mjs, one iteration of its loops at a time, for   *)
(* every combination of the inputs Init chooses.  The items of the plant   *)
(* form an acyclic graph (Masters).                                        *)
(*                                                                         *)
(* Quantities are whole base units and days are counted from today (0).    *)
(* The tops of the zones and the demand over the lead time are data: how   *)
(* they follow from the history is left out, as are lead times at planned  *)
(* loading, events, and the drivers and messages of a row.                 *)
(***************************************************************************)
EXTENDS Integers, FiniteSets, SequencesExt

CONSTANTS
  Items, Made,      \* the other items are bought, from a preferred supplier
  Usage,            \* Usage[p][c]: units of c in a unit of p, 0 if none
  Policies,         \* Policies[i]: the settings of an item that are explored
  Dlts,             \* lead times: functions of Items
  Books,            \* open customer order lines: sets of [item, due, qty]
  Orders,           \* open production orders: sets of [item, due, qty, inserted]
  Stocks,           \* on hand and open purchases: functions of Items
  Asides,           \* [scheme, waits]: accepted schemes, and imported orders
                    \* that wait for their customer: functions of Items
  Tops,             \* tops of the red, yellow and green zone
  LeadTimeDemand,   \* ADU x lead time of a WEEKLY made item
  Lot, MinLot       \* order multiple, minimum order

\* No item contains itself (Masters): among any items some one is made from none
\* of them, or is a component of none.
BuffersAssumption ==
  /\ IsFiniteSet(Items) /\ Made \subseteq Items
  /\ Usage \in [Items -> [Items -> Nat]]
  /\ \A S \in (SUBSET Items) \ {{}} :
        \E i \in S : (\A j \in S : Usage[i][j] = 0) \/ (\A j \in S : Usage[j][i] = 0)
  /\ \A lines \in Books \cup Orders :
        IsFiniteSet(lines) /\ \A l \in lines : l.item \in Items /\ l.due \in Int /\ l.qty \in Nat
  /\ Dlts \subseteq [Items -> Nat] /\ Stocks \subseteq [Items -> Int]
  /\ Asides \subseteq [scheme : [Items -> Nat], waits : [Items -> Nat]]
  /\ {Tops.red, Tops.yellow, Tops.green, LeadTimeDemand} \subseteq Nat
  /\ \A i \in Items : Policies[i] \subseteq {"standard", "weekly", "missing", "order", "none"}
  /\ Tops.red <= Tops.yellow /\ Tops.yellow <= Tops.green
  /\ Lot \in Nat \ {0} /\ MinLot \in Nat

VARIABLES
  policy,   \* "missing": buffered without a lead time or usage; "order": made or
            \* bought to order; "none": no setting, or one whose profile is inactive
  dlt, book, orders, stock, aside,   \* the other inputs
  phase,    \* the loop that runs: "direct", "production" or "finish"
  todo,     \* what it has not read yet
  pending,  \* demand that is being passed to components
  row       \* results

inputs == <<policy, dlt, book, orders, stock, aside>>
vars == <<inputs, phase, todo, pending, row>>

Buffered(i) == policy[i] \in {"standard", "weekly", "missing"}
Planned(i) == policy[i] \in {"standard", "weekly"}
WeeklyMade(i) == policy[i] = "weekly" /\ i \in Made

Total(lines) == SumFunction([l \in lines |-> l.qty])

\* The demand over the lead time qualifies a WEEKLY made item before any line.
Init ==
  /\ policy \in {p \in [Items -> UNION {Policies[i] : i \in Items}] : \A i \in Items : p[i] \in Policies[i]}
  /\ dlt \in Dlts /\ book \in Books /\ orders \in Orders /\ stock \in Stocks /\ aside \in Asides
  /\ phase = "direct" /\ todo = book /\ pending = <<>>
  /\ row = [i \in Items |->
              [qualified |-> IF WeeklyMade(i) THEN LeadTimeDemand ELSE 0,
               outside |-> 0, production |-> 0, made |-> 0,
               supply |-> stock[i], nfp |-> 0, zone |-> "", recommended |-> 0]]

(* ---------------------------- direct demand ---------------------------- *)

\* A later line inside the lead time counts when the day's total reaches half
\* the red zone.
Spike(d) ==
  /\ Planned(d.item) /\ d.due > 0 /\ d.due <= dlt[d.item]
  /\ 2 * Total({l \in book : l.item = d.item /\ l.due = d.due}) >= Tops.red

Qualifies(d) == Planned(d.item) /\ (d.due <= 0 \/ Spike(d))

\* Nothing buffers the line, or it is more than the buffer is there for.
Exploded(d) == ~Buffered(d.item) \/ Spike(d)

Line(d, for) == [item |-> d.item, due |-> d.due, qty |-> d.qty, for |-> for]

Direct(d) ==
  /\ phase = "direct"
  /\ row' = IF Qualifies(d) THEN [row EXCEPT ![d.item].qualified = @ + d.qty] ELSE row
  /\ pending' = IF Exploded(d) THEN Append(pending, Line(d, "customer")) ELSE pending
  /\ todo' = todo \ {d}
  /\ UNCHANGED <<inputs, phase>>

DirectDone ==
  /\ phase = "direct" /\ todo = {}
  /\ phase' = "production" /\ todo' = orders
  /\ UNCHANGED <<inputs, pending, row>>

(* ------------------------- demand of components ------------------------ *)

\* What a line asks of a component of its item.
Needs(d, c) == d.qty * Usage[d.item][c]

\* A buffered component takes the demand, inside its lead time as qualified
\* demand; a buffered one that cannot be planned drops it.
Asked(r, d, c) ==
  LET n == Needs(d, c)
  IN  IF ~Planned(c) \/ n = 0 THEN r
      ELSE IF d.due > dlt[c] THEN [r EXCEPT !.outside = @ + n]
      ELSE [r EXCEPT !.qualified = @ + n,
                     !.production = IF d.for = "production" THEN @ + n ELSE @,
                     !.made = IF d.for = "planned" THEN @ + n ELSE @]

\* Mutant: demand passes a buffer that cannot be planned.
PassesUnplanned(c) == ~Planned(c)

PassesOn(c) == ~Buffered(c)

\* One iteration of the loop over the stack, of the explosion and of consume.
Pass ==
  LET d == Last(pending)
      on == {c \in Items : Needs(d, c) > 0 /\ PassesOn(c)}
  IN  /\ phase # "direct" /\ pending # <<>>
      /\ row' = [c \in Items |-> Asked(row[c], d, c)]
      /\ pending' = Front(pending)
           \o SetToSeq({[d EXCEPT !.item = c, !.qty = Needs(d, c)] : c \in on})
      /\ UNCHANGED <<inputs, phase, todo>>

(* --------------------------- production orders ------------------------- *)

Scheduled(i) == Total({o \in orders : o.item = i})

Production(o) ==
  /\ phase = "production" /\ pending = <<>>
  /\ pending' = <<Line(o, "production")>>
  /\ todo' = todo \ {o}
  /\ UNCHANGED <<inputs, phase, row>>

\* An order the planner inserted is demand of its own buffer too; an open order
\* is supply of what it makes, unless the item nets it against what it
\* recommends (WEEKLY).
ProductionDone ==
  /\ phase = "production" /\ todo = {} /\ pending = <<>>
  /\ row' = [i \in Items |->
               IF ~Planned(i) THEN row[i]
               ELSE [row[i] EXCEPT
                       !.qualified = @ + Total({o \in orders : o.item = i /\ o.inserted}),
                       !.supply = IF policy[i] = "weekly" THEN @ ELSE @ + Scheduled(i)]]
  /\ phase' = "finish" /\ todo' = {i \in Items : Planned(i)}
  /\ UNCHANGED <<inputs, pending>>

(* ---------------------------- recommendations -------------------------- *)

\* bomOrder: the longest way down to an item.
Depth[i \in Items] ==
  LET parents == {p \in Items : Usage[p][i] > 0}
  IN  IF parents = {} THEN 0 ELSE 1 + Max({Depth[p] : p \in parents})

InTurn(i) == \A j \in todo : Depth[i] <= Depth[j]

Zone(nfp) ==
  CASE nfp <= 0 -> "breach"
    [] nfp > 0 /\ nfp <= Tops.red -> "red"
    [] nfp > Tops.red /\ nfp <= Tops.yellow -> "yellow"
    [] nfp > Tops.yellow -> "green"

Larger(a, b) == IF a > b THEN a ELSE b
Lots(n) == Lot * ((n + Lot - 1) \div Lot)

\* Bought: minimum and multiple of the supplier. Made: what is missing; WEEKLY,
\* whole lots below the yellow zone.
Recommended(i, nfp) ==
  LET need == Tops.green - nfp
  IN  IF nfp > Tops.yellow THEN 0
      ELSE IF i \notin Made THEN Lots(Larger(need, MinLot))
      ELSE IF policy[i] = "standard" THEN need
      ELSE IF Zone(nfp) = "yellow" THEN Larger(MinLot, need)
      ELSE Larger(MinLot, Lots(need))

\* Parents first. What a WEEKLY made item recommends beyond its open orders is
\* passed to its components, which are not finished yet.
Finish(i) ==
  LET demand == row[i].qualified + aside.scheme[i]
      qualified == IF aside.waits[i] > 0 THEN Larger(0, demand - aside.waits[i]) ELSE demand
      nfp == row[i].supply - qualified
      qty == Recommended(i, nfp)
      extra == qty - Scheduled(i)
  IN  /\ phase = "finish" /\ pending = <<>>
      /\ InTurn(i)
      /\ row' = [row EXCEPT ![i].qualified = qualified, ![i].nfp = nfp,
                            ![i].zone = Zone(nfp), ![i].recommended = qty]
      /\ pending' = IF WeeklyMade(i) /\ extra > 0
                    THEN <<[item |-> i, due |-> Larger(1, dlt[i]), qty |-> extra, for |-> "planned"]>>
                    ELSE <<>>
      /\ todo' = todo \ {i}
      /\ UNCHANGED <<inputs, phase>>

Next ==
  \/ \E t \in todo : Direct(t) \/ Production(t) \/ Finish(t)
  \/ DirectDone \/ Pass \/ ProductionDone

Spec == Init /\ [][Next]_vars

(* ------------------------------ properties ----------------------------- *)

\* Units of c asked for by a unit of i: along every way down that meets no
\* other buffer.
Through[i \in Items] ==
  [c \in Items |->
     LET via == {m \in Items : Usage[i][m] > 0 /\ ~Buffered(m)}
     IN  Usage[i][c] + SumFunction([m \in via |-> Usage[i][m] * Through[m][c]])]

Calculated == phase = "finish" /\ todo = {} /\ pending = <<>>

\* What is made of i: its open orders or, if WEEKLY, its larger recommendation.
ToMake(i) == IF WeeklyMade(i) THEN Larger(Scheduled(i), row[i].recommended) ELSE Scheduled(i)

\* However the stack was worked off, a buffer ends with the demand of every
\* customer line that is passed down and of everything that is to be made, once
\* for each way down the BOMs that meets no other buffer, inside its lead time
\* or outside of it; and what is recommended was worked out from all of it.
DemandByPaths ==
  Calculated =>
    \A c \in {x \in Items : Planned(x)} :
      LET down(lines) == SumFunction([l \in lines |-> l.qty * Through[l.item][c]])
          components == SumFunction([i \in Items |-> ToMake(i) * Through[i][c]])
          own == {d \in book : d.item = c /\ Qualifies(d)}
          inserted == {o \in orders : o.item = c /\ o.inserted}
          asked == Total(own) + Total(inserted) + down({d \in book : Exploded(d)}) + components
                     + aside.scheme[c] + (IF WeeklyMade(c) THEN LeadTimeDemand ELSE 0)
      IN  aside.waits[c] = 0 =>
            /\ row[c].qualified + row[c].outside = asked
            /\ row[c].recommended = Recommended(c, row[c].supply - row[c].qualified)

=============================================================================
